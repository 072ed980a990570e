---------------------------- MODULE IntakeProofs ----------------------------
(* What holds of the intake for any gateways, workers, requests, schedules, *)
(* repetitions, crashes and lapsed leases.                                 *)
EXTENDS Intake, FiniteSetTheorems, TLAPS

Row == [asks : Commands, origin : Requests \cup Keys,
        status : {"QUEUED", "RUNNING", "SUCCEEDED", "DEAD_LETTER"},
        holder : SUBSET Workers, due : BOOLEAN, attempts : Nat, answer : Nat]

(* The gateways that hold a row in reserve.                                *)
Busy == {g \in Gateways : asking[g] # NoAsk}

(* A busy worker has an item in its hands, a gateway a call; and there is   *)
(* a row left for each gateway that is about to insert one.                *)
InShape ==
  /\ InTypeOK
  /\ asking \in [Gateways -> Calls \cup {NoAsk}]
  /\ \A p \in Workers : pc[p] \notin {"idle", "down"} => job[p] \in Items
  /\ Len(queue) + Cardinality(Busy) <= MaxItems

-----------------------------------------------------------------------------
(* Rows are added at the end and changed one at a time; nobody changes what *)
(* a row was asked for or where it came from.                              *)
AsksKept ==
  /\ queue' \in Seq(Row) /\ Items \subseteq Items'
  /\ \A v \in Items : queue'[v].asks = queue[v].asks /\ queue'[v].origin = queue[v].origin

LEMMA RowChanged ==
  ASSUME queue \in Seq(Row), NEW w \in Items, NEW row \in Row,
         row.asks = queue[w].asks, row.origin = queue[w].origin,
         queue' = [queue EXCEPT ![w] = row]
  PROVE  /\ AsksKept /\ Items' = Items /\ Len(queue') = Len(queue)
         /\ \A v \in Items \ {w} : queue'[v] = queue[v]
         /\ queue'[w] = row
BY DEF AsksKept, Items

LEMMA RowAppended ==
  ASSUME queue \in Seq(Row), NEW row \in Row, queue' = Append(queue, row)
  PROVE  /\ AsksKept /\ Items' = Items \cup {Len(queue) + 1} /\ Len(queue') = Len(queue) + 1
         /\ Len(queue) + 1 \notin Items /\ Len(queue) \in Nat
         /\ \A v \in Items : queue'[v] = queue[v]
         /\ queue'[Len(queue) + 1] = row
BY DEF AsksKept, Items

LEMMA RowsUnchanged ==
  ASSUME queue \in Seq(Row), UNCHANGED queue
  PROVE  AsksKept /\ Items' = Items /\ Len(queue') = Len(queue)
BY DEF AsksKept, Items

LEMMA QueueType == ASSUME InShape PROVE queue \in Seq(Row)
BY DEF InShape, InTypeOK, Row

LEMMA NewItemIsRow ==
  ASSUME NEW c \in Commands, NEW o \in Requests \cup Keys
  PROVE  NewItem(c, o) \in Row /\ NewItem(c, o).asks = c /\ NewItem(c, o).origin = o
           /\ NewItem(c, o).status = "QUEUED"
BY DEF NewItem, Row

-----------------------------------------------------------------------------
(* How many rows are in reserve.                                           *)
LEMMA BusyFinite == IsFiniteSet(Busy) /\ Cardinality(Busy) \in Nat
<1>1. Busy \in SUBSET Gateways
  BY DEF Busy
<1>2. QED
  BY <1>1, IntakeAssumption, FS_Subset, FS_CardinalityType

LEMMA ReserveTaken ==
  ASSUME InShape, NEW g \in Gateways, NEW ask, asking' = [asking EXCEPT ![g] = ask]
  PROVE  Cardinality(Busy') \in Nat /\ Cardinality(Busy') <= Cardinality(Busy) + 1
<1>1. Busy' \in SUBSET (Busy \cup {g})
  BY DEF Busy, InShape
<1>2. IsFiniteSet(Busy \cup {g}) /\ Cardinality(Busy \cup {g}) <= Cardinality(Busy) + 1
  BY BusyFinite, FS_AddElement
<1>3. IsFiniteSet(Busy') /\ Cardinality(Busy') <= Cardinality(Busy \cup {g})
  BY <1>1, <1>2, FS_Subset
<1>4. QED
  BY <1>2, <1>3, BusyFinite, FS_CardinalityType

LEMMA ReserveGiven ==
  ASSUME InShape, NEW g \in Gateways, asking[g] # NoAsk, asking' = [asking EXCEPT ![g] = NoAsk]
  PROVE  Cardinality(Busy') \in Nat /\ Cardinality(Busy') + 1 = Cardinality(Busy)
<1>1. Busy' = Busy \ {g} /\ g \in Busy
  BY DEF Busy, InShape
<1>2. IsFiniteSet(Busy \ {g}) /\ Cardinality(Busy \ {g}) = Cardinality(Busy) - 1
  BY <1>1, BusyFinite, FS_RemoveElement
<1>3. Cardinality(Busy \ {g}) \in Nat
  BY <1>2, FS_CardinalityType
<1>4. QED
  BY <1>1, <1>2, <1>3, BusyFinite

-----------------------------------------------------------------------------
(* The shape, action by action.                                            *)
LEMMA ShapeAtInit == ASSUME InInit PROVE InShape
<1>1. Busy = {} /\ Cardinality({}) = 0 /\ Len(queue) = 0
  BY FS_EmptySet DEF InInit, Busy
<1>2. Len(queue) + Cardinality(Busy) <= MaxItems
  BY <1>1, IntakeAssumption
<1>3. InTypeOK
  BY DEF InInit, InTypeOK, Places
<1>4. QED
  BY <1>2, <1>3 DEF InInit, InShape

LEMMA SubmitLooksUpShape ==
  ASSUME InShape, NEW g \in Gateways, NEW call \in Calls, SubmitLooksUp(g, call[1], call[2])
  PROVE  InShape'
<1>1. <<call[1], call[2]>> \in Calls
  BY IntakeAssumption
<1>2. Cardinality(Busy') \in Nat /\ Cardinality(Busy') <= Cardinality(Busy) + 1
  BY ReserveTaken DEF SubmitLooksUp
<1>3. Len(queue') + Cardinality(Busy') <= MaxItems
  BY <1>2, BusyFinite, QueueType, IntakeAssumption DEF SubmitLooksUp, dbVars, Room, Busy
<1>4. InTypeOK'
  BY DEF InShape, InTypeOK, SubmitLooksUp, dbVars, procVars
<1>5. QED
  BY <1>1, <1>3, <1>4 DEF InShape, SubmitLooksUp, dbVars, procVars, Items

LEMMA SubmitLostShape ==
  ASSUME InShape, NEW g \in Gateways, SubmitLost(g)
  PROVE  InShape'
<1>1. Cardinality(Busy') \in Nat /\ Cardinality(Busy') + 1 = Cardinality(Busy)
  BY ReserveGiven DEF SubmitLost
<1>2. Len(queue') + Cardinality(Busy') <= MaxItems
  BY <1>1, BusyFinite, QueueType, IntakeAssumption DEF SubmitLost, dbVars, InShape
<1>3. InTypeOK'
  BY DEF InShape, InTypeOK, SubmitLost, dbVars, procVars
<1>4. QED
  BY <1>2, <1>3 DEF InShape, SubmitLost, dbVars, procVars, Items

LEMMA SubmitInsertsShape ==
  ASSUME InShape, NEW g \in Gateways, SubmitInserts(g)
  PROVE  InShape' /\ AsksKept
<1> DEFINE r == asking[g][1]
           c == asking[g][2]
<1>1. Cardinality(Busy') \in Nat /\ Cardinality(Busy') + 1 = Cardinality(Busy)
  BY ReserveGiven DEF SubmitInserts
<1>2. r \in Requests /\ c \in Commands /\ KeyOf[c] \in Keys
  BY IntakeAssumption DEF InShape, SubmitInserts, Keys
<1>3. AsksKept /\ Len(queue') + Cardinality(Busy') <= MaxItems
  <2>1. CASE queue' = Append(queue, NewItem(c, r))
    BY <1>1, <1>2, <2>1, NewItemIsRow, QueueType, RowAppended, BusyFinite, IntakeAssumption DEF InShape
  <2>2. CASE UNCHANGED queue
    BY <1>1, <2>2, QueueType, RowsUnchanged, BusyFinite, IntakeAssumption DEF InShape, AsksKept
  <2>3. QED
    BY <2>1, <2>2 DEF SubmitInserts
<1>4. requests' \in [Requests -> Nat] /\ deliveries' \in [Keys -> Nat]
  <2>1. Len(queue) + 1 \in Nat /\ requests \in [Requests -> Nat] /\ deliveries \in [Keys -> Nat]
    BY QueueType DEF InShape, InTypeOK
  <2>2. requests' = requests \/ requests' = [requests EXCEPT ![r] = Len(queue) + 1]
    BY DEF SubmitInserts
  <2>3. \/ deliveries' = deliveries
        \/ deliveries' = [deliveries EXCEPT ![KeyOf[c]] = Len(queue) + 1]
    BY DEF SubmitInserts
  <2>4. QED
    BY <1>2, <2>1, <2>2, <2>3
<1>5. InTypeOK'
  BY <1>3, <1>4 DEF AsksKept, Row, InShape, InTypeOK, SubmitInserts, procVars
<1>6. QED
  BY <1>3, <1>5 DEF InShape, SubmitInserts, procVars, AsksKept

LEMMA DispatchShape ==
  ASSUME InShape, NEW p \in Workers, NEW c \in Schedules, Dispatch(p, c)
  PROVE  InShape' /\ AsksKept
<1>1. c \in Commands /\ KeyOf[c] \in Keys
  BY IntakeAssumption DEF Keys
<1>2. AsksKept /\ Len(queue') = Len(queue) + 1
  BY <1>1, NewItemIsRow, QueueType, RowAppended DEF Dispatch
<1>3. Busy' = Busy
  BY DEF Busy, Dispatch
<1>4. Len(queue') + Cardinality(Busy') <= MaxItems
  BY <1>2, <1>3, BusyFinite, QueueType, IntakeAssumption DEF Dispatch, Room, Busy
<1>5. InTypeOK'
  BY <1>2, QueueType DEF AsksKept, Row, InShape, InTypeOK, Dispatch, procVars
<1>6. QED
  BY <1>2, <1>4, <1>5 DEF InShape, Dispatch, procVars, AsksKept

-----------------------------------------------------------------------------
(* A worker's own steps leave the gateways alone, and the queue as long.   *)
OwnStep ==
  /\ UNCHANGED <<requests, deliveries, dispatched, asking>>
  /\ AsksKept /\ Len(queue') = Len(queue)

LEMMA OwnStepShape ==
  ASSUME InShape, OwnStep, InTypeOK',
         \A p \in Workers : pc'[p] \notin {"idle", "down"} => job'[p] \in Items
  PROVE  InShape'
<1>1. Busy' = Busy
  BY DEF Busy, OwnStep
<1>2. QED
  BY <1>1, BusyFinite DEF InShape, OwnStep, AsksKept

(* Steps that write no row.                                                *)
LEMMA QuietShape ==
  ASSUME InShape, NEW p \in Workers, NEW place \in Places,
         UNCHANGED <<queue, job, requests, deliveries, dispatched, asking>>,
         pc' = [pc EXCEPT ![p] = place], ~At(p, "idle"), ~At(p, "down"),
         records' \in Seq(Commands), registry' \in [Keys -> Nat], receipts' \in [1..MaxItems -> Nat],
         found' \in [Workers -> Nat], step' \in [Workers -> Nat], faults' \in Nat, lapses' \in Nat
  PROVE  InShape' /\ OwnStep
<1>1. OwnStep
  BY QueueType, RowsUnchanged DEF OwnStep
<1>2. InTypeOK'
  BY DEF InShape, InTypeOK
<1>3. \A v \in Workers : pc'[v] \notin {"idle", "down"} => job'[v] \in Items
  BY DEF InShape, InTypeOK, At
<1>4. QED
  BY <1>1, <1>2, <1>3, OwnStepShape

-----------------------------------------------------------------------------
(* What a row's answers, and what a worker has in its hands, must be.      *)
RowOK(w) ==
  LET k == KeyOf[queue[w].asks] IN
  KindOf[queue[w].asks] # "NOTE" =>
    /\ receipts[w] # 0 => receipts[w] = registry[k]
    /\ queue[w].status = "SUCCEEDED" => queue[w].answer # 0 /\ queue[w].answer = registry[k]

HandOK(p) ==
  /\ pc[p] = "register" => found[p] # 0
  /\ pc[p] \in {"link", "linking", "record", "complete"} /\ Kind(p) # "NOTE" =>
       found[p] # 0 /\ found[p] = registry[Key(p)]

Answered ==
  /\ \A w \in 1..MaxItems : receipts[w] # 0 => w \in Items
  /\ \A w \in Items : RowOK(w)

AnswerInv == InShape /\ Answered /\ \A p \in Workers : HandOK(p)

(* A key once registered stays registered, to the same record.             *)
RegistryGrows == \A k \in Keys : registry[k] # 0 => registry'[k] = registry[k]

LEMMA KeyOfRow ==
  ASSUME InShape, NEW w \in Items
  PROVE  queue[w] \in Row /\ queue[w].asks \in Commands /\ KeyOf[queue[w].asks] \in Keys
           /\ w \in 1..MaxItems /\ w # 0
<1>1. queue \in Seq(Row) /\ w \in 1..Len(queue)
  BY QueueType DEF Items
<1>2. w \in 1..MaxItems /\ w # 0
  BY <1>1, BusyFinite, IntakeAssumption DEF InShape
<1>3. queue[w] \in Row
  BY <1>1
<1>4. queue[w].asks \in Commands
  BY <1>3 DEF Row
<1>5. QED
  BY <1>2, <1>3, <1>4 DEF Keys

LEMMA AtHand ==
  ASSUME InShape, NEW p \in Workers, pc[p] \notin {"idle", "down"}
  PROVE  /\ job[p] \in Items /\ job[p] \in 1..MaxItems /\ queue[job[p]] \in Row
         /\ Asks(p) \in Commands /\ Key(p) \in Keys
<1>1. job[p] \in Items
  BY DEF InShape
<1>2. QED
  BY <1>1, KeyOfRow DEF Asks, Key

LEMMA RowStaysOK ==
  ASSUME InShape, AsksKept, RegistryGrows, NEW w \in Items, RowOK(w),
         receipts'[w] = receipts[w],
         queue'[w].status = "SUCCEEDED" =>
           queue[w].status = "SUCCEEDED" /\ queue'[w].answer = queue[w].answer
  PROVE  RowOK(w)'
<1>1. KeyOf[queue[w].asks] \in Keys
  BY KeyOfRow
<1>2. queue'[w].asks = queue[w].asks
  BY DEF AsksKept
<1>3. QED
  BY <1>1, <1>2 DEF RowOK, RegistryGrows

LEMMA HandStaysOK ==
  ASSUME InShape, AsksKept, RegistryGrows, NEW p \in Workers, HandOK(p),
         pc'[p] = pc[p], job'[p] = job[p], found'[p] = found[p]
  PROVE  HandOK(p)'
<1>1. CASE pc[p] \in {"register", "link", "linking", "record", "complete"}
  <2>1. job[p] \in Items /\ Key(p) \in Keys
    BY <1>1, AtHand
  <2>2. Asks(p)' = Asks(p)
    BY <2>1 DEF Asks, AsksKept
  <2>3. Key(p)' = Key(p) /\ Kind(p)' = Kind(p)
    BY <2>2 DEF Key, Kind
  <2>4. QED
    BY <2>1, <2>3 DEF HandOK, RegistryGrows
<1>2. CASE pc[p] \notin {"register", "link", "linking", "record", "complete"}
  BY <1>2 DEF HandOK
<1>3. QED
  BY <1>1, <1>2

LEMMA HandsStayOK ==
  ASSUME AnswerInv, AsksKept, RegistryGrows, NEW p \in Workers, HandOK(p)',
         \A v \in Workers \ {p} : pc'[v] = pc[v] /\ job'[v] = job[v] /\ found'[v] = found[v]
  PROVE  \A v \in Workers : HandOK(v)'
<1>1. ASSUME NEW v \in Workers \ {p} PROVE HandOK(v)'
  BY <1>1, HandStaysOK DEF AnswerInv
<1>2. QED
  BY <1>1

LEMMA QuietAnswered ==
  ASSUME AnswerInv, InShape', AsksKept, UNCHANGED <<queue, receipts>>, RegistryGrows
  PROVE  Answered'
<1>1. Items' = Items
  BY DEF Items
<1>2. ASSUME NEW w \in Items PROVE RowOK(w)'
  BY <1>2, RowStaysOK DEF AnswerInv, Answered
<1>3. QED
  BY <1>1, <1>2 DEF AnswerInv, Answered

-----------------------------------------------------------------------------
(* The answers, step by step of a worker.  First those that write neither  *)
(* a row of the queue nor a receipt.                                       *)
LEMMA QuietStep ==
  ASSUME AnswerInv, NEW p \in Workers, NEW place \in Places, ~At(p, "idle"), ~At(p, "down"),
         UNCHANGED <<queue, job, receipts, requests, deliveries, dispatched, asking>>,
         pc' = [pc EXCEPT ![p] = place],
         records' \in Seq(Commands), registry' \in [Keys -> Nat],
         found' \in [Workers -> Nat], step' \in [Workers -> Nat], faults' \in Nat, lapses' \in Nat,
         \A v \in Workers \ {p} : found'[v] = found[v],
         RegistryGrows, HandOK(p)'
  PROVE  AnswerInv'
<1>1. InShape' /\ AsksKept
  BY QuietShape DEF AnswerInv, OwnStep, InShape, InTypeOK
<1>2. Answered'
  BY <1>1, QuietAnswered
<1>3. \A v \in Workers \ {p} : pc'[v] = pc[v] /\ job'[v] = job[v] /\ found'[v] = found[v]
  BY DEF AnswerInv, InShape, InTypeOK
<1>4. \A v \in Workers : HandOK(v)'
  BY <1>1, <1>3, HandsStayOK
<1>5. QED
  BY <1>1, <1>2, <1>4 DEF AnswerInv

LEMMA NothingInHand ==
  ASSUME NEW p \in Workers,
         pc'[p] \notin {"register", "link", "linking", "record", "complete"}
  PROVE  HandOK(p)'
BY DEF HandOK

LEMMA Quiet ==
  ASSUME AnswerInv
  PROVE  /\ queue \in Seq(Row) /\ records \in Seq(Commands) /\ registry \in [Keys -> Nat]
         /\ receipts \in [1..MaxItems -> Nat] /\ pc \in [Workers -> Places]
         /\ job \in [Workers -> Nat] /\ found \in [Workers -> Nat] /\ step \in [Workers -> Nat]
         /\ faults \in Nat /\ lapses \in Nat
BY QueueType DEF AnswerInv, InShape, InTypeOK

LEMMA ReplaysAnswers ==
  ASSUME AnswerInv, NEW p \in Workers, Replays(p)
  PROVE  AnswerInv'
<1>1. job[p] \in Items /\ job[p] \in 1..MaxItems /\ Key(p) \in Keys
  BY AtHand DEF AnswerInv, Replays, At
<1>2. Asks(p)' = Asks(p) /\ Key(p)' = Key(p) /\ Kind(p)' = Kind(p)
  BY DEF Replays, dbVars, Asks, Key, Kind
<1>3. found'[p] = receipts[job[p]] /\ receipts[job[p]] \in Nat
  BY <1>1, Quiet DEF Replays
<1>4. RegistryGrows
  BY DEF Replays, dbVars, RegistryGrows
<1>5. HandOK(p)'
  <2>1. CASE receipts[job[p]] = 0
    BY <2>1, NothingInHand, Quiet DEF Replays, Goto
  <2>2. CASE receipts[job[p]] # 0
    <3>1. pc'[p] = "complete" /\ registry' = registry
      BY <2>2, Quiet DEF Replays, Goto, dbVars
    <3>2. Kind(p) # "NOTE" => receipts[job[p]] = registry[Key(p)]
      BY <1>1, <2>2 DEF AnswerInv, Answered, RowOK, Kind, Key, Asks
    <3>3. QED
      BY <1>2, <1>3, <2>2, <3>1, <3>2 DEF HandOK
  <2>3. QED
    BY <2>1, <2>2
<1>6. \E place \in Places : pc' = [pc EXCEPT ![p] = place]
  BY DEF Replays, Goto, Places
<1>7. QED
  BY <1>3, <1>4, <1>5, <1>6, Quiet, QuietStep DEF Replays, At, dbVars

LEMMA LooksUpAnswers ==
  ASSUME AnswerInv, NEW p \in Workers, LooksUp(p)
  PROVE  AnswerInv'
<1>1. job[p] \in Items /\ Key(p) \in Keys
  BY AtHand DEF AnswerInv, LooksUp, At
<1>2. Asks(p)' = Asks(p) /\ Key(p)' = Key(p) /\ Kind(p)' = Kind(p) /\ registry' = registry
  BY DEF LooksUp, dbVars, Asks, Key, Kind
<1>3. registry[Key(p)] \in Nat /\ RegistryGrows
  BY <1>1, Quiet DEF LooksUp, dbVars, RegistryGrows
<1>4. \/ pc'[p] \in {"scan", "create", "fail"} /\ found' = found
      \/ /\ pc'[p] \in {"link", "record"} /\ registry[Key(p)] # 0
         /\ found' = [found EXCEPT ![p] = registry[Key(p)]]
  BY Quiet DEF LooksUp, Goto, AfterFound
<1>5. HandOK(p)'
  <2>1. CASE pc'[p] \in {"scan", "create", "fail"}
    BY <2>1, NothingInHand
  <2>2. CASE pc'[p] \in {"link", "record"} /\ found'[p] = registry[Key(p)] /\ registry[Key(p)] # 0
    BY <1>2, <2>2 DEF HandOK
  <2>3. QED
    BY <1>4, <2>1, <2>2, Quiet
<1>6. \E place \in Places : pc' = [pc EXCEPT ![p] = place]
  BY DEF LooksUp, Goto, Places, AfterFound
<1>7. found' \in [Workers -> Nat] /\ \A v \in Workers \ {p} : found'[v] = found[v]
  BY <1>3, <1>4, Quiet
<1>8. QED
  BY <1>3, <1>5, <1>6, <1>7, Quiet, QuietStep DEF LooksUp, At, dbVars

LEMMA ScansAnswers ==
  ASSUME AnswerInv, NEW p \in Workers, Scans(p)
  PROVE  AnswerInv'
<1>1. \/ pc'[p] \in {"create", "fail"} /\ found' = found
      \/ \E r \in DOMAIN records : pc'[p] = "register" /\ found' = [found EXCEPT ![p] = r]
  BY Quiet DEF Scans, Goto
<1>2. \A r \in DOMAIN records : r \in Nat \ {0}
  BY Quiet
<1>3. found' \in [Workers -> Nat] /\ \A v \in Workers \ {p} : found'[v] = found[v]
  BY <1>1, <1>2, Quiet
<1>4. HandOK(p)'
  <2>1. CASE pc'[p] \in {"create", "fail"}
    BY <2>1, NothingInHand
  <2>2. CASE pc'[p] = "register" /\ found'[p] # 0
    BY <2>2 DEF HandOK
  <2>3. QED
    BY <1>1, <1>2, <2>1, <2>2, Quiet
<1>5. \E place \in Places : pc' = [pc EXCEPT ![p] = place]
  BY DEF Scans, Goto, Places
<1>6. RegistryGrows
  BY DEF Scans, dbVars, RegistryGrows
<1>7. QED
  BY <1>3, <1>4, <1>5, <1>6, Quiet, QuietStep DEF Scans, At, dbVars

LEMMA CreatesAnswers ==
  ASSUME AnswerInv, NEW p \in Workers, Creates(p)
  PROVE  AnswerInv'
<1>1. Asks(p) \in Commands
  BY AtHand DEF AnswerInv, Creates, At
<1>2. records' \in Seq(Commands) /\ Len(records) + 1 \in Nat \ {0}
  BY <1>1, Quiet DEF Creates
<1>3. Kind(p)' = Kind(p) /\ RegistryGrows
  BY DEF Creates, Asks, Kind, RegistryGrows
<1>4. HandOK(p)'
  <2>1. CASE Kind(p) = "NOTE"
    BY <1>3, <2>1, Quiet DEF HandOK, Creates, Goto
  <2>2. CASE Kind(p) # "NOTE"
    BY <1>2, <2>2, Quiet DEF HandOK, Creates, Goto
  <2>3. QED
    BY <2>1, <2>2
<1>5. \E place \in Places : pc' = [pc EXCEPT ![p] = place]
  BY DEF Creates, Goto, Places
<1>6. QED
  BY <1>2, <1>3, <1>4, <1>5, Quiet, QuietStep DEF Creates, At, Bystanders

LEMMA RegistersAnswers ==
  ASSUME AnswerInv, NEW p \in Workers, Registers(p)
  PROVE  AnswerInv'
<1>1. Key(p) \in Keys
  BY AtHand DEF AnswerInv, Registers, At
<1>2. found[p] # 0 /\ found[p] \in Nat
  BY Quiet DEF AnswerInv, HandOK, Registers, At
<1>3. Asks(p)' = Asks(p) /\ Key(p)' = Key(p) /\ found' = found
  BY DEF Registers, Asks, Key
<1>4. \/ registry[Key(p)] = 0 /\ registry' = [registry EXCEPT ![Key(p)] = found[p]]
      \/ registry' = registry /\ pc'[p] = "fail"
  BY Quiet DEF Registers, Goto
<1>5. registry' \in [Keys -> Nat] /\ RegistryGrows
  BY <1>1, <1>2, <1>4, Quiet DEF RegistryGrows
<1>6. HandOK(p)'
  <2>1. CASE registry[Key(p)] = 0
    <3>1. pc'[p] = "link" /\ registry'[Key(p)] = found[p]
      BY <1>1, <2>1, Quiet DEF Registers, Goto
    <3>2. QED
      BY <1>2, <1>3, <3>1 DEF HandOK
  <2>2. CASE pc'[p] = "fail"
    BY <2>2, NothingInHand
  <2>3. QED
    BY <1>4, <2>1, <2>2
<1>7. \E place \in Places : pc' = [pc EXCEPT ![p] = place]
  BY DEF Registers, Goto, Places
<1>8. QED
  BY <1>3, <1>5, <1>6, <1>7, Quiet, QuietStep DEF Registers, At, Bystanders

(* A link is made of what is in hand, and leaves it there.                 *)
LEMMA LinksAnswers ==
  ASSUME AnswerInv, NEW p \in Workers, LooksForLink(p) \/ AddsLink(p)
  PROVE  AnswerInv'
<1>1. /\ UNCHANGED <<queue, job, found, records, registry, receipts,
                     requests, deliveries, dispatched, asking, faults, lapses>>
      /\ pc[p] \in {"link", "linking"} /\ step' \in [Workers -> Nat]
  <2>1. step' = step \/ step' = [step EXCEPT ![p] = step[p] + 1]
    BY DEF LooksForLink, AddsLink
  <2>2. step' \in [Workers -> Nat]
    <3>1. step \in [Workers -> Nat] /\ step[p] + 1 \in Nat
      BY Quiet
    <3>2. QED
      BY <2>1, <3>1
  <2>3. CASE LooksForLink(p)
    BY <2>2, <2>3 DEF LooksForLink, At, dbVars
  <2>4. CASE AddsLink(p)
    BY <2>2, <2>4 DEF AddsLink, At, Bystanders
  <2>5. QED
    BY <2>3, <2>4
<1>2. \E place \in {"link", "linking", "record", "fail"} : pc' = [pc EXCEPT ![p] = place]
  <2>1. pc = [pc EXCEPT ![p] = pc[p]]
    BY Quiet
  <2>2. CASE UNCHANGED pc
    BY <1>1, <2>1, <2>2 DEF LooksForLink, AddsLink, At
  <2>3. CASE ~UNCHANGED pc
    BY <2>3 DEF LooksForLink, AddsLink, Goto
  <2>4. QED
    BY <2>2, <2>3
<1>3. Kind(p)' = Kind(p) /\ Key(p)' = Key(p) /\ RegistryGrows
  BY <1>1 DEF Asks, Kind, Key, RegistryGrows
<1>4. HandOK(p)'
  <2>1. Kind(p) # "NOTE" => found[p] # 0 /\ found[p] = registry[Key(p)]
    BY <1>1 DEF AnswerInv, HandOK
  <2>2. pc'[p] # "register"
    BY <1>2, Quiet
  <2>3. QED
    BY <1>1, <1>3, <2>1, <2>2 DEF HandOK
<1>5. \E place \in Places : pc' = [pc EXCEPT ![p] = place]
  BY <1>2 DEF Places
<1>6. QED
  BY <1>1, <1>3, <1>4, <1>5, Quiet, QuietStep DEF At

LEMMA RaisesAnswers ==
  ASSUME AnswerInv, NEW p \in Workers, Raises(p)
  PROVE  AnswerInv'
<1>1. HandOK(p)' /\ RegistryGrows
  BY Quiet, NothingInHand DEF Raises, Goto, RegistryGrows, dbVars
<1>2. ~At(p, "idle") /\ ~At(p, "down") /\ faults' \in Nat /\ "fail" \in Places
  BY Quiet DEF Raises, InHandler, At, Places
<1>3. /\ UNCHANGED <<queue, job, receipts, requests, deliveries, dispatched, asking,
                     records, registry, found, step, lapses>>
      /\ pc' = [pc EXCEPT ![p] = "fail"]
  BY DEF Raises, Goto, dbVars
<1>4. QED
  BY <1>1, <1>2, <1>3, Quiet, QuietStep

(* The receipt names what is in hand, or one that was there already.       *)
LEMMA ReceiptAnswers ==
  ASSUME AnswerInv, NEW p \in Workers, RecordsReceipt(p)
  PROVE  AnswerInv'
<1>1. job[p] \in Items /\ job[p] \in 1..MaxItems
  BY AtHand DEF AnswerInv, RecordsReceipt, At
<1>2. /\ UNCHANGED <<queue, job, found, registry>>
      /\ Kind(p)' = Kind(p) /\ Key(p)' = Key(p) /\ Asks(p)' = Asks(p) /\ RegistryGrows
  BY DEF RecordsReceipt, Asks, Kind, Key, RegistryGrows
<1>3. Kind(p) # "NOTE" => found[p] # 0 /\ found[p] = registry[Key(p)]
  BY DEF AnswerInv, HandOK, RecordsReceipt, At
<1>4. receipts' = [receipts EXCEPT ![job[p]] = found[p]] \/ receipts' = receipts
  <2>1. CASE receipts[job[p]] = 0
    BY <2>1 DEF RecordsReceipt
  <2>2. CASE receipts[job[p]] # 0
    BY <2>2, Quiet DEF RecordsReceipt
  <2>3. QED
    BY <2>1, <2>2
<1>5. receipts' \in [1..MaxItems -> Nat]
  BY <1>4, Quiet
<1>6. InShape' /\ AsksKept
  BY <1>5, Quiet, QuietShape DEF AnswerInv, OwnStep, RecordsReceipt, Goto, At, Places, Bystanders
<1>7. Answered'
  <2>1. Items' = Items
    BY <1>2 DEF Items
  <2>2. \A w \in 1..MaxItems : receipts'[w] # 0 => w \in Items
    BY <1>1, <1>4, Quiet DEF AnswerInv, Answered
  <2>3. ASSUME NEW w \in Items PROVE RowOK(w)'
    <3>1. CASE receipts'[w] = receipts[w]
      BY <1>2, <1>6, <2>3, <3>1, RowStaysOK DEF AnswerInv, Answered
    <3>2. CASE receipts'[w] # receipts[w]
      <4>1. w = job[p] /\ receipts'[w] = found[p]
        BY <1>1, <1>4, <2>3, <3>2, KeyOfRow, Quiet DEF AnswerInv
      <4>2. RowOK(w)
        BY <2>3 DEF AnswerInv, Answered
      <4>3. QED
        BY <1>2, <1>3, <4>1, <4>2 DEF RowOK, Kind, Key, Asks
    <3>3. QED
      BY <3>1, <3>2
  <2>4. QED
    BY <2>1, <2>2, <2>3 DEF Answered
<1>8. HandOK(p)' /\ \A v \in Workers \ {p} : pc'[v] = pc[v] /\ job'[v] = job[v] /\ found'[v] = found[v]
  BY <1>2, <1>3, Quiet DEF HandOK, RecordsReceipt, Goto
<1>9. \A v \in Workers : HandOK(v)'
  BY <1>2, <1>6, <1>8, HandsStayOK
<1>10. QED
  BY <1>6, <1>7, <1>9 DEF AnswerInv

-----------------------------------------------------------------------------
(* Then those that write a row, or end a worker's run of an item.          *)
LEMMA RowStep ==
  ASSUME AnswerInv, NEW p \in Workers, OwnStep, Items' = Items, InTypeOK',
         UNCHANGED <<registry, receipts>>,
         pc'[p] \in {"idle", "down", "replay", "fail", "failing", "burying"},
         pc'[p] \notin {"idle", "down"} => job'[p] \in Items,
         \A v \in Workers \ {p} : pc'[v] = pc[v] /\ job'[v] = job[v] /\ found'[v] = found[v],
         \A w \in Items : RowOK(w)'
  PROVE  AnswerInv'
<1>1. \A v \in Workers : pc'[v] \notin {"idle", "down"} => job'[v] \in Items
  BY DEF AnswerInv, InShape
<1>2. InShape'
  BY <1>1, OwnStepShape DEF AnswerInv
<1>3. Answered'
  BY DEF AnswerInv, Answered
<1>4. RegistryGrows /\ HandOK(p)' /\ AsksKept
  BY NothingInHand DEF RegistryGrows, OwnStep
<1>5. \A v \in Workers : HandOK(v)'
  BY <1>4, HandsStayOK
<1>6. QED
  BY <1>2, <1>3, <1>5 DEF AnswerInv

(* A row that is rewritten, and whose answer is not.                       *)
LEMMA RewrittenRow ==
  ASSUME AnswerInv, UNCHANGED <<requests, deliveries, dispatched, asking, registry, receipts>>,
         NEW w \in Items, NEW row \in Row, queue' = [queue EXCEPT ![w] = row],
         row.asks = queue[w].asks, row.origin = queue[w].origin, row.answer = queue[w].answer,
         row.status = "SUCCEEDED" => queue[w].status = "SUCCEEDED"
  PROVE  /\ OwnStep /\ Items' = Items /\ queue' \in Seq(Row)
         /\ \A v \in Items : RowOK(v)'
<1>1. /\ AsksKept /\ Items' = Items /\ Len(queue') = Len(queue) /\ queue'[w] = row
      /\ \A v \in Items \ {w} : queue'[v] = queue[v]
  BY Quiet, RowChanged
<1>2. RegistryGrows
  BY DEF RegistryGrows
<1>3. ASSUME NEW v \in Items PROVE RowOK(v)'
  <2>1. queue'[v].status = "SUCCEEDED" =>
          queue[v].status = "SUCCEEDED" /\ queue'[v].answer = queue[v].answer
    BY <1>1, <1>3
  <2>2. QED
    BY <1>1, <1>2, <1>3, <2>1, RowStaysOK DEF AnswerInv, Answered
<1>4. QED
  BY <1>1, <1>3 DEF OwnStep, AsksKept

LEMMA UpdatedRow ==
  ASSUME AnswerInv, UNCHANGED <<requests, deliveries, dispatched, asking, registry, receipts>>,
         NEW w \in Items, NEW status \in {"QUEUED", "RUNNING", "DEAD_LETTER"},
         NEW holder \in SUBSET Workers, NEW attempts \in Nat,
         Updates(w, status, holder, attempts, queue[w].answer)
  PROVE  /\ OwnStep /\ Items' = Items /\ queue' \in Seq(Row)
         /\ \A v \in Items : RowOK(v)'
<1> DEFINE row == [asks |-> queue[w].asks, origin |-> queue[w].origin, status |-> status,
                   holder |-> holder, due |-> FALSE, attempts |-> attempts,
                   answer |-> queue[w].answer]
<1>1. queue[w] \in Row
  BY KeyOfRow DEF AnswerInv
<1>2. row \in Row /\ row.asks = queue[w].asks /\ row.origin = queue[w].origin
        /\ row.answer = queue[w].answer /\ row.status # "SUCCEEDED"
  BY <1>1 DEF Row
<1>3. queue' = [queue EXCEPT ![w] = row]
  BY DEF Updates
<1> HIDE DEF row
<1>4. QED
  BY <1>1, <1>2, <1>3, RewrittenRow

LEMMA RowsAreKept ==
  ASSUME AnswerInv, UNCHANGED <<queue, requests, deliveries, dispatched, asking, registry, receipts>>
  PROVE  OwnStep /\ Items' = Items /\ queue' \in Seq(Row) /\ \A v \in Items : RowOK(v)'
<1>1. AsksKept /\ Items' = Items /\ Len(queue') = Len(queue)
  BY Quiet, RowsUnchanged
<1>2. \A v \in Items : RowOK(v)'
  BY DEF AnswerInv, Answered, RowOK
<1>3. QED
  BY <1>1, <1>2, Quiet DEF OwnStep

(* The run of an item is over, whatever became of the row.                 *)
LEMMA EndStep ==
  ASSUME AnswerInv, NEW p \in Workers, NEW place \in {"idle", "down"}, Ends(p, place),
         OwnStep, Items' = Items, queue' \in Seq(Row), \A w \in Items : RowOK(w)',
         UNCHANGED <<records, registry, receipts>>, faults' \in Nat, lapses' \in Nat
  PROVE  AnswerInv'
<1>1. /\ pc'[p] = place
      /\ \A v \in Workers \ {p} : pc'[v] = pc[v] /\ job'[v] = job[v] /\ found'[v] = found[v]
  BY Quiet DEF Ends, Goto
<1>2. pc' \in [Workers -> Places] /\ job' \in [Workers -> Nat]
        /\ found' \in [Workers -> Nat] /\ step' \in [Workers -> Nat]
  BY Quiet DEF Ends, Goto, Places
<1>3. InTypeOK'
  BY <1>2 DEF AnswerInv, InShape, InTypeOK, OwnStep, Row
<1>4. QED
  BY <1>1, <1>3, RowStep

LEMMA ClaimsAnswers ==
  ASSUME AnswerInv, NEW p \in Workers, NEW w \in 1..MaxItems, Claims(p, w)
  PROVE  AnswerInv'
<1>1. w \in Items /\ queue[w] \in Row /\ queue[w].attempts + 1 \in Nat /\ queue[w].answer \in Nat
  BY KeyOfRow DEF Claims, AnswerInv, Row
<1>2. Updates(w, "RUNNING", {p}, queue[w].attempts + 1, queue[w].answer)
  BY DEF Claims
<1>3. OwnStep /\ Items' = Items /\ queue' \in Seq(Row) /\ \A v \in Items : RowOK(v)'
  BY <1>1, <1>2, UpdatedRow DEF Claims, Bystanders
<1>4. pc' \in [Workers -> Places] /\ job' \in [Workers -> Nat] /\ step' \in [Workers -> Nat]
  BY <1>1, Quiet DEF Claims, Goto, Places
<1>5. InTypeOK'
  BY <1>3, <1>4 DEF AnswerInv, InShape, InTypeOK, Row, Claims, Bystanders
<1>6. /\ pc'[p] = "replay" /\ job'[p] = w
      /\ \A v \in Workers \ {p} : pc'[v] = pc[v] /\ job'[v] = job[v] /\ found'[v] = found[v]
  BY Quiet DEF Claims, Goto
<1>7. QED
  BY <1>1, <1>3, <1>5, <1>6, RowStep DEF Claims

LEMMA CompletesAnswers ==
  ASSUME AnswerInv, NEW p \in Workers, Completes(p)
  PROVE  AnswerInv'
<1>1. PICK w \in Items : w = job[p] /\ queue[w] \in Row /\ w \in 1..MaxItems
  BY AtHand DEF AnswerInv, Completes, At
<1>2. CASE ~Holds(p)
  <2>1. UNCHANGED <<queue, requests, deliveries, dispatched, asking, registry, receipts,
                    job, found, step, records, faults, lapses>>
        /\ pc' = [pc EXCEPT ![p] = "fail"]
    BY <1>2 DEF Completes, Goto, Bystanders
  <2>2. OwnStep /\ Items' = Items /\ \A v \in Items : RowOK(v)'
    BY <2>1, RowsAreKept
  <2>3. pc' \in [Workers -> Places] /\ pc'[p] = "fail" /\ \A v \in Workers \ {p} : pc'[v] = pc[v]
    BY <2>1, Quiet DEF Places
  <2>4. InTypeOK'
    BY <2>1, <2>3 DEF AnswerInv, InShape, InTypeOK
  <2>5. QED
    BY <1>1, <2>1, <2>2, <2>3, <2>4, RowStep
<1>3. CASE Holds(p)
  <2> DEFINE row == [asks |-> queue[w].asks, origin |-> queue[w].origin, status |-> "SUCCEEDED",
                     holder |-> {}, due |-> FALSE, attempts |-> queue[w].attempts,
                     answer |-> found[p]]
  <2>1. row \in Row /\ row.asks = queue[w].asks /\ row.origin = queue[w].origin
          /\ row.answer = found[p]
    BY <1>1, Quiet DEF Row
  <2>2. Ends(p, "idle") /\ queue' = [queue EXCEPT ![w] = row]
          /\ UNCHANGED <<records, registry, receipts, requests, deliveries, dispatched, asking,
                         faults, lapses>>
    BY <1>1, <1>3 DEF Completes, Bystanders, Updates
  <2> HIDE DEF row
  <2>3. /\ AsksKept /\ Items' = Items /\ Len(queue') = Len(queue) /\ queue'[w] = row
        /\ \A v \in Items \ {w} : queue'[v] = queue[v]
    BY <1>1, <2>1, <2>2, Quiet, RowChanged
  <2>4. RegistryGrows /\ OwnStep
    BY <2>2, <2>3 DEF RegistryGrows, OwnStep
  <2>5. \A v \in Items \ {w} : RowOK(v)'
    BY <2>2, <2>3, <2>4, RowStaysOK DEF AnswerInv, Answered
  <2>6. RowOK(w)'
    <3>1. Kind(p) # "NOTE" => found[p] # 0 /\ found[p] = registry[Key(p)]
      BY DEF AnswerInv, HandOK, Completes, At
    <3>2. RowOK(w)
      BY <1>1 DEF AnswerInv, Answered
    <3>3. queue'[w].asks = Asks(p) /\ queue'[w].answer = found[p] /\ Asks(p) = queue[w].asks
      BY <1>1, <2>1, <2>3 DEF Asks
    <3>4. QED
      BY <2>2, <3>1, <3>2, <3>3 DEF RowOK, Kind, Key
  <2>7. queue' \in Seq(Row) /\ \A v \in Items : RowOK(v)'
    BY <2>3, <2>5, <2>6 DEF AsksKept
  <2>8. QED
    BY <2>2, <2>3, <2>4, <2>7, Quiet, EndStep
<1>4. QED
  BY <1>2, <1>3

LEMMA FailReadsAnswers ==
  ASSUME AnswerInv, NEW p \in Workers, FailReads(p)
  PROVE  AnswerInv'
<1>1. job[p] \in Items
  BY AtHand DEF AnswerInv, FailReads, At
<1>2. UNCHANGED <<queue, requests, deliveries, dispatched, asking, registry, receipts,
                  records, faults, lapses>>
  BY DEF FailReads, dbVars
<1>3. OwnStep /\ Items' = Items /\ queue' \in Seq(Row) /\ \A v \in Items : RowOK(v)'
  BY <1>2, RowsAreKept
<1>4. CASE ~Holds(p)
  BY <1>2, <1>3, <1>4, Quiet, EndStep DEF FailReads
<1>5. CASE Holds(p)
  <2>1. UNCHANGED <<job, step, found>>
        /\ \E place \in {"failing", "burying"} : pc' = [pc EXCEPT ![p] = place]
    BY <1>5 DEF FailReads, Goto
  <2>2. pc' \in [Workers -> Places] /\ pc'[p] \in {"failing", "burying"}
          /\ \A v \in Workers \ {p} : pc'[v] = pc[v]
    BY <2>1, Quiet DEF Places
  <2>3. InTypeOK'
    BY <1>2, <2>1, <2>2 DEF AnswerInv, InShape, InTypeOK
  <2>4. QED
    BY <1>1, <1>2, <1>3, <2>1, <2>2, <2>3, RowStep
<1>6. QED
  BY <1>4, <1>5

LEMMA FailWritesAnswers ==
  ASSUME AnswerInv, NEW p \in Workers, FailWrites(p)
  PROVE  AnswerInv'
<1> DEFINE w == job[p]
<1>1. w \in Items /\ queue[w] \in Row
  BY AtHand DEF AnswerInv, FailWrites, At
<1>2. queue[w].attempts \in Nat
  BY <1>1 DEF Row
<1>3. UNCHANGED <<requests, deliveries, dispatched, asking, registry, receipts,
                  records, faults, lapses>>
        /\ Ends(p, "idle")
  BY DEF FailWrites, Bystanders
<1>4. \E status \in {"QUEUED", "DEAD_LETTER"} :
        Updates(w, status, {}, queue[w].attempts, queue[w].answer)
  BY DEF FailWrites
<1>5. OwnStep /\ Items' = Items /\ queue' \in Seq(Row) /\ \A v \in Items : RowOK(v)'
  BY <1>1, <1>2, <1>3, <1>4, UpdatedRow
<1>6. QED
  BY <1>3, <1>5, Quiet, EndStep

LEMMA CrashAnswers ==
  ASSUME AnswerInv, NEW p \in Workers, Crash(p)
  PROVE  AnswerInv'
<1>1. UNCHANGED <<queue, requests, deliveries, dispatched, asking, registry, receipts,
                  records, lapses>>
        /\ faults' \in Nat /\ Ends(p, "down")
  BY Quiet DEF Crash, dbVars
<1>2. OwnStep /\ Items' = Items /\ queue' \in Seq(Row) /\ \A v \in Items : RowOK(v)'
  BY <1>1, RowsAreKept
<1>3. QED
  BY <1>1, <1>2, Quiet, EndStep

LEMMA RestartAnswers ==
  ASSUME AnswerInv, NEW p \in Workers, Restart(p)
  PROVE  AnswerInv'
<1>1. UNCHANGED <<queue, requests, deliveries, dispatched, asking, registry, receipts,
                  records, job, found, step, faults, lapses>>
        /\ pc' = [pc EXCEPT ![p] = "idle"]
  BY DEF Restart, Goto, dbVars
<1>2. OwnStep /\ Items' = Items /\ \A v \in Items : RowOK(v)'
  BY <1>1, RowsAreKept
<1>3. pc' \in [Workers -> Places] /\ pc'[p] = "idle" /\ \A v \in Workers \ {p} : pc'[v] = pc[v]
  BY <1>1, Quiet DEF Places
<1>4. InTypeOK'
  BY <1>1, <1>3 DEF AnswerInv, InShape, InTypeOK
<1>5. QED
  BY <1>1, <1>2, <1>3, <1>4, RowStep

-----------------------------------------------------------------------------
(* Nobody's step: time, the gateways and the scheduler.                    *)
LEMMA FallsDueAnswers ==
  ASSUME AnswerInv, NEW w \in 1..MaxItems, FallsDue(w)
  PROVE  AnswerInv'
<1>1. w \in Items /\ queue[w] \in Row
  BY KeyOfRow DEF AnswerInv, FallsDue
<1> DEFINE row == [queue[w] EXCEPT !.due = TRUE]
<1>2. UNCHANGED <<requests, deliveries, dispatched, asking, registry, receipts, records,
                  pc, job, found, step, faults>>
        /\ queue' = [queue EXCEPT ![w] = row] /\ lapses' \in Nat
  BY Quiet DEF FallsDue, procVars
<1>3. row \in Row /\ row.asks = queue[w].asks /\ row.origin = queue[w].origin
        /\ row.answer = queue[w].answer /\ row.status = queue[w].status
  BY <1>1 DEF Row
<1>4. OwnStep /\ Items' = Items /\ queue' \in Seq(Row) /\ \A v \in Items : RowOK(v)'
  <2> HIDE DEF row
  <2> QED
    BY <1>1, <1>2, <1>3, RewrittenRow
<1>5. InTypeOK'
  BY <1>2, <1>4 DEF AnswerInv, InShape, InTypeOK, Row
<1>6. InShape'
  BY <1>2, <1>4, <1>5, OwnStepShape DEF AnswerInv, InShape
<1>7. Answered' /\ RegistryGrows
  BY <1>2, <1>4 DEF AnswerInv, Answered, RegistryGrows
<1>8. \A v \in Workers : HandOK(v)'
  BY <1>2, <1>4, <1>7, HandStaysOK DEF AnswerInv, OwnStep
<1>9. QED
  BY <1>6, <1>7, <1>8 DEF AnswerInv

(* A row that is added has neither receipt nor answer.                     *)
LEMMA AddedRow ==
  ASSUME AnswerInv, InShape', UNCHANGED <<registry, receipts, procVars>>,
         \/ UNCHANGED queue
         \/ \E c \in Commands, o \in Requests \cup Keys : queue' = Append(queue, NewItem(c, o))
  PROVE  AnswerInv'
<1>1. CASE UNCHANGED queue
  <2>1. AsksKept /\ RegistryGrows
    BY <1>1, Quiet, RowsUnchanged DEF RegistryGrows
  <2>2. Answered'
    BY <1>1, <2>1, QuietAnswered
  <2>3. \A v \in Workers : HandOK(v)'
    BY <2>1, HandStaysOK DEF AnswerInv, procVars
  <2>4. QED
    BY <2>2, <2>3 DEF AnswerInv
<1>2. CASE \E c \in Commands, o \in Requests \cup Keys : queue' = Append(queue, NewItem(c, o))
  <2>1. PICK c \in Commands, o \in Requests \cup Keys : queue' = Append(queue, NewItem(c, o))
    BY <1>2
  <2> DEFINE n == Len(queue) + 1
  <2>2. /\ AsksKept /\ Items' = Items \cup {n} /\ n \notin Items
        /\ \A v \in Items : queue'[v] = queue[v]
        /\ queue'[n].asks = c /\ queue'[n].status = "QUEUED"
    <3> DEFINE row == NewItem(c, o)
    <3>1. row \in Row /\ row.asks = c /\ row.status = "QUEUED"
      BY NewItemIsRow
    <3>2. queue' = Append(queue, row)
      BY <2>1
    <3> HIDE DEF row
    <3>3. QED
      BY <3>1, <3>2, RowAppended, Quiet
  <2>3. n \in 1..MaxItems
    <3>1. Len(queue') = n /\ Len(queue) \in Nat
      BY <2>1, NewItemIsRow, RowAppended, Quiet
    <3>2. Cardinality(Busy)' \in Nat
      <4>1. Busy' \in SUBSET Gateways
        BY DEF Busy
      <4>2. QED
        BY <4>1, IntakeAssumption, FS_Subset, FS_CardinalityType
    <3>3. Len(queue') + Cardinality(Busy)' <= MaxItems /\ MaxItems \in Nat
      BY IntakeAssumption DEF InShape
    <3>4. QED
      BY <3>1, <3>2, <3>3
  <2>4. RegistryGrows /\ receipts[n] = 0
    BY <2>2, <2>3 DEF RegistryGrows, AnswerInv, Answered
  <2>5. \A v \in Items : RowOK(v)'
    BY <2>2, <2>4, RowStaysOK DEF AnswerInv, Answered
  <2>6. Answered'
    BY <2>2, <2>4, <2>5 DEF AnswerInv, Answered, RowOK
  <2>7. \A v \in Workers : HandOK(v)'
    BY <2>2, <2>4, HandStaysOK DEF AnswerInv, procVars
  <2>8. QED
    BY <2>6, <2>7 DEF AnswerInv
<1>3. QED
  BY <1>1, <1>2

LEMMA SubmitAnswers ==
  ASSUME AnswerInv, NEW g \in Gateways,
         \/ \E call \in Calls : SubmitLooksUp(g, call[1], call[2])
         \/ SubmitInserts(g) \/ SubmitLost(g)
  PROVE  AnswerInv'
<1>1. CASE \E call \in Calls : SubmitLooksUp(g, call[1], call[2])
  <2>1. InShape'
    BY <1>1, SubmitLooksUpShape DEF AnswerInv
  <2>2. QED
    BY <1>1, <2>1, AddedRow DEF SubmitLooksUp, dbVars
<1>2. CASE SubmitInserts(g)
  <2>1. InShape'
    BY <1>2, SubmitInsertsShape DEF AnswerInv
  <2>2. asking[g][1] \in Requests /\ asking[g][2] \in Commands
    BY <1>2, IntakeAssumption DEF AnswerInv, InShape, SubmitInserts
  <2>3. \/ UNCHANGED queue
        \/ queue' = Append(queue, NewItem(asking[g][2], asking[g][1]))
    BY <1>2 DEF SubmitInserts
  <2>4. UNCHANGED <<registry, receipts, procVars>>
    BY <1>2 DEF SubmitInserts
  <2>5. QED
    BY <2>1, <2>2, <2>3, <2>4, AddedRow
<1>3. CASE SubmitLost(g)
  <2>1. InShape'
    BY <1>3, SubmitLostShape DEF AnswerInv
  <2>2. QED
    BY <1>3, <2>1, AddedRow DEF SubmitLost, dbVars
<1>4. QED
  BY <1>1, <1>2, <1>3

LEMMA DispatchAnswers ==
  ASSUME AnswerInv, NEW p \in Workers, NEW c \in Schedules, Dispatch(p, c)
  PROVE  AnswerInv'
<1>1. InShape'
  BY DispatchShape DEF AnswerInv
<1>2. c \in Commands /\ KeyOf[c] \in Keys
  BY IntakeAssumption DEF Keys
<1>3. QED
  BY <1>1, <1>2, AddedRow DEF Dispatch

-----------------------------------------------------------------------------
LEMMA AnswerInvAtInit == ASSUME InInit PROVE AnswerInv
<1>1. InShape
  BY ShapeAtInit
<1>2. Items = {} /\ \A w \in 1..MaxItems : receipts[w] = 0
  BY DEF InInit, Items
<1>3. \A p \in Workers : HandOK(p)
  BY DEF InInit, HandOK
<1>4. QED
  BY <1>1, <1>2, <1>3 DEF AnswerInv, Answered

LEMMA WorkerStepAnswers ==
  ASSUME AnswerInv, NEW p \in Workers, WorkerStep(p)
  PROVE  AnswerInv'
BY ClaimsAnswers, ReplaysAnswers, LooksUpAnswers, ScansAnswers, CreatesAnswers, RegistersAnswers,
   LinksAnswers, ReceiptAnswers, CompletesAnswers, FailReadsAnswers, FailWritesAnswers
DEF WorkerStep

LEMMA AnswerInvKept == ASSUME AnswerInv, [InNext]_inVars PROVE AnswerInv'
<1>1. ASSUME NEW g \in Gateways,
             \/ \E call \in Calls : SubmitLooksUp(g, call[1], call[2])
             \/ SubmitInserts(g) \/ SubmitLost(g)
      PROVE  AnswerInv'
  BY <1>1, SubmitAnswers
<1>2. ASSUME NEW p \in Workers, \E c \in Schedules : Dispatch(p, c)
      PROVE  AnswerInv'
  BY <1>2, DispatchAnswers
<1>3. ASSUME NEW p \in Workers, WorkerStep(p)
      PROVE  AnswerInv'
  BY <1>3, WorkerStepAnswers
<1>4. ASSUME NEW p \in Workers, Raises(p) \/ Crash(p) \/ Restart(p)
      PROVE  AnswerInv'
  BY <1>4, RaisesAnswers, CrashAnswers, RestartAnswers
<1>5. ASSUME NEW w \in 1..MaxItems, FallsDue(w)
      PROVE  AnswerInv'
  BY <1>5, FallsDueAnswers
<1>6. CASE UNCHANGED inVars
  <2>1. UNCHANGED <<queue, requests, deliveries, dispatched, records, registry, links, receipts,
                    asking, pc, job, found, step, faults, lapses>>
    BY <1>6 DEF inVars, dbVars, procVars
  <2>2. InShape'
    BY <2>1 DEF AnswerInv, InShape, InTypeOK, Busy, Items
  <2>3. QED
    BY <2>1, <2>2, AddedRow DEF procVars
<1>7. QED
  BY <1>1, <1>2, <1>3, <1>4, <1>5, <1>6 DEF InNext

(* Types, the place of every worker, and the rows kept in reserve for the  *)
(* gateways: the queue never outgrows what the look-ups left room for.     *)
THEOREM IntakeTypeCorrect == InSpec => []InShape
<1>1. InInit => AnswerInv
  BY AnswerInvAtInit
<1>2. AnswerInv /\ [InNext]_inVars => AnswerInv'
  BY AnswerInvKept
<1>3. AnswerInv => InShape
  BY DEF AnswerInv
<1>4. QED
  BY <1>1, <1>2, <1>3, PTL DEF InSpec

(* The receipt and the answer of a report, an import or a delivery name    *)
(* the record registered under its key: what ActionRegistry replays and    *)
(* what complete_work stores are never an attempt's orphan.                *)
THEOREM AnswersAreTheRegistered == InSpec => []AnswersAreRegistered
<1>1. InInit => AnswerInv
  BY AnswerInvAtInit
<1>2. AnswerInv /\ [InNext]_inVars => AnswerInv'
  BY AnswerInvKept
<1>3. AnswerInv => AnswersAreRegistered
  BY DEF AnswerInv, Answered, RowOK, AnswersAreRegistered
<1>4. QED
  BY <1>1, <1>2, <1>3, PTL DEF InSpec

-----------------------------------------------------------------------------
(* Where each row came from.                                               *)
Origin(w) ==
  /\ \/ queue[w].origin \in Requests /\ requests[queue[w].origin] = w
     \/ \E c \in Schedules : KeyOf[c] = queue[w].origin /\ dispatched[c] = w
  /\ KindOf[queue[w].asks] = "DELIVERY" => deliveries[KeyOf[queue[w].asks]] = w

OriginInv ==
  /\ \A r \in Requests : requests[r] # 0 =>
       requests[r] \in Items /\ queue[requests[r]].origin = r
  /\ \A c \in Schedules : dispatched[c] # 0 =>
       dispatched[c] \in Items /\ queue[dispatched[c]].origin = KeyOf[c]
  /\ \A w \in Items : Origin(w)

(* No step but an insertion touches the ids or what a row was asked for.   *)
SameRows ==
  /\ UNCHANGED <<requests, deliveries, dispatched>> /\ Items' = Items
  /\ \A v \in Items : queue'[v].asks = queue[v].asks /\ queue'[v].origin = queue[v].origin

LEMMA SameOrigins == ASSUME OriginInv, SameRows PROVE OriginInv'
BY DEF OriginInv, SameRows, Origin

LEMMA UpdatesSameRows ==
  ASSUME queue \in Seq(Row), UNCHANGED <<requests, deliveries, dispatched>>,
         NEW w, NEW status, NEW holder, NEW attempts, NEW answer,
         Updates(w, status, holder, attempts, answer)
  PROVE  SameRows
BY DEF SameRows, Updates, Items

LEMMA WorkerStepSameRows ==
  ASSUME InShape, NEW p \in Workers, WorkerStep(p) \/ Raises(p) \/ Crash(p) \/ Restart(p)
  PROVE  SameRows
<1>1. CASE UNCHANGED <<queue, requests, deliveries, dispatched>>
  BY <1>1 DEF SameRows, Items
<1>2. ASSUME NEW w \in 1..MaxItems, Claims(p, w) PROVE SameRows
  BY <1>2, QueueType, UpdatesSameRows DEF Claims, Bystanders
<1>3. ASSUME Completes(p), Holds(p) PROVE SameRows
  BY <1>3, QueueType, UpdatesSameRows DEF Completes, Bystanders
<1>4. ASSUME FailWrites(p) PROVE SameRows
  BY <1>4, QueueType, UpdatesSameRows DEF FailWrites, Bystanders
<1>5. ASSUME Replays(p) \/ LooksUp(p) \/ Scans(p) \/ LooksForLink(p) \/ FailReads(p)
               \/ Raises(p) \/ Crash(p) \/ Restart(p)
      PROVE  UNCHANGED <<queue, requests, deliveries, dispatched>>
  BY <1>5 DEF Replays, LooksUp, Scans, LooksForLink, FailReads, Raises, Crash, Restart, dbVars
<1>6. ASSUME \/ Creates(p) \/ Registers(p) \/ AddsLink(p) \/ RecordsReceipt(p)
             \/ Completes(p) /\ ~Holds(p)
      PROVE  UNCHANGED <<queue, requests, deliveries, dispatched>>
  BY <1>6 DEF Creates, Registers, AddsLink, RecordsReceipt, Completes, Bystanders
<1>7. QED
  BY <1>1, <1>2, <1>3, <1>4, <1>5, <1>6 DEF WorkerStep

LEMMA OriginType ==
  ASSUME InShape
  PROVE  /\ requests \in [Requests -> Nat] /\ deliveries \in [Keys -> Nat]
         /\ dispatched \in [Schedules -> Nat]
         /\ \A w \in Items : w \in Nat \ {0} /\ KeyOf[queue[w].asks] \in Keys
<1>1. \A w \in Items : w \in Nat \ {0} /\ KeyOf[queue[w].asks] \in Keys
  BY KeyOfRow
<1>2. QED
  BY <1>1 DEF InShape, InTypeOK

(* What was asked for is in the row, and its origin.                       *)
LEMMA RowInserted ==
  ASSUME InShape, NEW c \in Commands, NEW o \in Requests \cup Keys,
         queue' = Append(queue, NewItem(c, o))
  PROVE  /\ Items' = Items \cup {Len(queue) + 1}
         /\ Len(queue) + 1 \notin Items /\ Len(queue) + 1 \in Nat \ {0}
         /\ queue'[Len(queue) + 1].asks = c /\ queue'[Len(queue) + 1].origin = o
         /\ \A v \in Items : queue'[v] = queue[v]
<1> DEFINE row == NewItem(c, o)
<1>1. row \in Row /\ row.asks = c /\ row.origin = o
  BY NewItemIsRow
<1>2. queue' = Append(queue, row)
  OBVIOUS
<1> HIDE DEF row
<1>3. /\ Items' = Items \cup {Len(queue) + 1} /\ Len(queue) + 1 \notin Items /\ Len(queue) \in Nat
      /\ queue'[Len(queue) + 1] = row /\ \A v \in Items : queue'[v] = queue[v]
  BY <1>1, <1>2, RowAppended, QueueType
<1>4. Len(queue) + 1 \in Nat \ {0}
  BY <1>3
<1>5. queue'[Len(queue) + 1].asks = c /\ queue'[Len(queue) + 1].origin = o
  BY <1>1, <1>3
<1>6. QED
  BY <1>3, <1>4, <1>5

LEMMA SubmitInsertsOrigins ==
  ASSUME InShape, OriginInv, NEW g \in Gateways, SubmitInserts(g)
  PROVE  OriginInv'
<1> DEFINE r == asking[g][1]
           c == asking[g][2]
           n == Len(queue) + 1
<1>1. r \in Requests /\ c \in Commands /\ KeyOf[c] \in Keys /\ UNCHANGED dispatched
  BY IntakeAssumption DEF InShape, SubmitInserts, Keys
<1>2. CASE UNCHANGED <<queue, requests, deliveries>>
  <2>1. SameRows
    BY <1>1, <1>2 DEF SameRows, Items
  <2>2. QED
    BY <2>1, SameOrigins
<1>3. CASE /\ ~Known(r, c) /\ queue' = Append(queue, NewItem(c, r))
           /\ requests' = [requests EXCEPT ![r] = n]
           /\ deliveries' = IF KindOf[c] = "DELIVERY"
                              THEN [deliveries EXCEPT ![KeyOf[c]] = n] ELSE deliveries
  <2>1. /\ Items' = Items \cup {n} /\ n \notin Items /\ n \in Nat \ {0}
        /\ queue'[n].asks = c /\ queue'[n].origin = r
        /\ \A v \in Items : queue'[v] = queue[v]
    BY <1>1, <1>3, RowInserted
  <2>2. requests[r] = 0 /\ requests'[r] = n /\ \A q \in Requests \ {r} : requests'[q] = requests[q]
    BY <1>1, <1>3, OriginType DEF Known
  <2>3. KindOf[c] = "DELIVERY" => deliveries[KeyOf[c]] = 0 /\ deliveries'[KeyOf[c]] = n
    BY <1>1, <1>3, OriginType DEF Known
  <2>4. \A k \in Keys : deliveries[k] # 0 => deliveries'[k] = deliveries[k]
    <3>1. CASE KindOf[c] = "DELIVERY"
      BY <1>1, <1>3, <2>3, <3>1, OriginType
    <3>2. CASE KindOf[c] # "DELIVERY"
      BY <1>3, <3>2
    <3>3. QED
      BY <3>1, <3>2
  <2>5. ASSUME NEW w \in Items PROVE Origin(w)'
    <3>1. w # 0 /\ KeyOf[queue[w].asks] \in Keys /\ Origin(w) /\ queue'[w] = queue[w]
      BY <2>1, OriginType DEF OriginInv
    <3>2. ASSUME queue[w].origin \in Requests, requests[queue[w].origin] = w
          PROVE  requests'[queue[w].origin] = w
      BY <2>2, <3>1, <3>2
    <3>3. QED
      BY <1>1, <2>4, <3>1, <3>2 DEF Origin
  <2>6. \A w \in Items' : Origin(w)'
    <3>1. ASSUME NEW w \in Items', w = n PROVE Origin(w)'
      BY <1>1, <2>1, <2>2, <2>3, <3>1 DEF Origin
    <3>2. QED
      BY <2>1, <2>5, <3>1
  <2>7. \A q \in Requests : requests'[q] # 0 =>
          requests'[q] \in Items' /\ queue'[requests'[q]].origin = q
    BY <2>1, <2>2 DEF OriginInv
  <2>8. \A d \in Schedules : dispatched'[d] # 0 =>
          dispatched'[d] \in Items' /\ queue'[dispatched'[d]].origin = KeyOf[d]
    BY <1>1, <2>1 DEF OriginInv
  <2>9. QED
    BY <2>6, <2>7, <2>8 DEF OriginInv
<1>4. QED
  BY <1>2, <1>3 DEF SubmitInserts

LEMMA DispatchOrigins ==
  ASSUME InShape, OriginInv, NEW p \in Workers, NEW c \in Schedules, Dispatch(p, c)
  PROVE  OriginInv'
<1> DEFINE n == Len(queue) + 1
<1>1. c \in Commands /\ KeyOf[c] \in Keys /\ KindOf[c] # "DELIVERY"
        /\ UNCHANGED <<requests, deliveries>>
  BY IntakeAssumption DEF Keys, Dispatch
<1>2. /\ Items' = Items \cup {n} /\ n \notin Items /\ n \in Nat \ {0}
      /\ queue'[n].asks = c /\ queue'[n].origin = KeyOf[c]
      /\ \A v \in Items : queue'[v] = queue[v]
  BY <1>1, RowInserted DEF Dispatch
<1>3. /\ dispatched[c] = 0 /\ dispatched'[c] = n
      /\ \A d \in Schedules \ {c} : dispatched'[d] = dispatched[d]
  BY OriginType DEF Dispatch
<1>4. ASSUME NEW w \in Items PROVE Origin(w)'
  <2>1. w # 0 /\ Origin(w) /\ queue'[w] = queue[w]
    BY <1>2, OriginType DEF OriginInv
  <2>2. ASSUME NEW d \in Schedules, dispatched[d] = w PROVE dispatched'[d] = w
    BY <1>3, <2>1, <2>2
  <2>3. QED
    BY <1>1, <2>1, <2>2 DEF Origin
<1>5. ASSUME NEW w \in Items', w = n PROVE Origin(w)'
  BY <1>1, <1>2, <1>3, <1>5 DEF Origin
<1>6. \A w \in Items' : Origin(w)'
  BY <1>2, <1>4, <1>5
<1>7. \A q \in Requests : requests'[q] # 0 =>
        requests'[q] \in Items' /\ queue'[requests'[q]].origin = q
  BY <1>1, <1>2 DEF OriginInv
<1>8. \A d \in Schedules : dispatched'[d] # 0 =>
        dispatched'[d] \in Items' /\ queue'[dispatched'[d]].origin = KeyOf[d]
  BY <1>2, <1>3 DEF OriginInv
<1>9. QED
  BY <1>6, <1>7, <1>8 DEF OriginInv

LEMMA OriginInvKept ==
  ASSUME InShape, OriginInv, [InNext]_inVars
  PROVE  OriginInv'
<1>1. ASSUME \/ \E g \in Gateways : \/ \E call \in Calls : SubmitLooksUp(g, call[1], call[2])
                                    \/ SubmitLost(g)
             \/ UNCHANGED inVars
      PROVE  SameRows
  BY <1>1 DEF SubmitLooksUp, SubmitLost, inVars, dbVars, SameRows, Items
<1>2. ASSUME NEW w \in 1..MaxItems, FallsDue(w) PROVE SameRows
  <2>1. queue \in Seq(Row) /\ w \in Items /\ queue[w] \in Row
    BY <1>2, QueueType, KeyOfRow DEF FallsDue
  <2> DEFINE row == [queue[w] EXCEPT !.due = TRUE]
  <2>2. row \in Row /\ row.asks = queue[w].asks /\ row.origin = queue[w].origin
    BY <2>1 DEF Row
  <2>3. queue' = [queue EXCEPT ![w] = row] /\ UNCHANGED <<requests, deliveries, dispatched>>
    BY <1>2 DEF FallsDue
  <2> HIDE DEF row
  <2>4. QED
    BY <2>1, <2>2, <2>3, RowChanged DEF AsksKept, SameRows
<1>3. ASSUME NEW p \in Workers, WorkerStep(p) \/ Raises(p) \/ Crash(p) \/ Restart(p)
      PROVE  SameRows
  BY <1>3, WorkerStepSameRows
<1>4. ASSUME NEW g \in Gateways, SubmitInserts(g) PROVE OriginInv'
  BY <1>4, SubmitInsertsOrigins
<1>5. ASSUME NEW p \in Workers, NEW c \in Schedules, Dispatch(p, c) PROVE OriginInv'
  BY <1>5, DispatchOrigins
<1>6. QED
  BY <1>1, <1>2, <1>3, <1>4, <1>5, SameOrigins DEF InNext

LEMMA OriginsAreUnique == ASSUME InShape, OriginInv PROVE OneItemPerRequest
<1>1. ASSUME NEW v \in Items, NEW w \in Items, queue[v].origin = queue[w].origin
      PROVE  v = w
  <2>1. Origin(v) /\ Origin(w)
    BY DEF OriginInv
  <2>2. CASE queue[v].origin \in Requests
    <3>1. \A c \in Schedules : KeyOf[c] \notin Requests
      BY IntakeAssumption DEF Keys
    <3>2. QED
      BY <1>1, <2>1, <2>2, <3>1 DEF Origin
  <2>3. CASE queue[v].origin \notin Requests
    BY <1>1, <2>1, <2>3, IntakeAssumption DEF Origin
  <2>4. QED
    BY <2>2, <2>3
<1>2. ASSUME NEW v \in Items, NEW w \in Items, KindOf[queue[v].asks] = "DELIVERY",
             KeyOf[queue[v].asks] = KeyOf[queue[w].asks]
      PROVE  v = w
  <2>1. KindOf[queue[w].asks] = "DELIVERY"
    BY <1>2, KeyOfRow, IntakeAssumption
  <2>2. QED
    BY <1>2, <2>1 DEF OriginInv, Origin
<1>3. QED
  BY <1>1, <1>2 DEF OneItemPerRequest, OriginInv

(* However many gateways and schedulers look up and insert at once, no two  *)
(* items share a request id, a delivery id or a period.                    *)
THEOREM OneItemForEachRequest == InSpec => []OneItemPerRequest
<1>1. InInit => OriginInv
  BY DEF InInit, OriginInv, Items
<1>2. InShape /\ OriginInv /\ [InNext]_inVars => OriginInv'
  BY OriginInvKept
<1>3. InShape /\ OriginInv => OneItemPerRequest
  BY OriginsAreUnique
<1>4. QED
  BY <1>1, <1>2, <1>3, IntakeTypeCorrect, PTL DEF InSpec

-----------------------------------------------------------------------------
(* A delivery's links.  How far the worker has come tells which of the two *)
(* the record in its hands has; it records nothing before both are there.  *)
BothLinked(r) == \A t \in {"DELIVERS", "EVIDENCE_FOR"} : <<r, t>> \in links

LinkedSoFar(p) ==
  /\ pc[p] \in {"replay", "look", "scan", "create", "register"} => step[p] = 1
  /\ pc[p] \in {"link", "linking"} /\ Kind(p) = "DELIVERY" =>
       /\ step[p] # 0
       /\ step[p] > 1 => <<found[p], "DELIVERS">> \in links
       /\ step[p] > 2 => <<found[p], "EVIDENCE_FOR">> \in links
  /\ pc[p] = "record" /\ Kind(p) = "DELIVERY" => BothLinked(found[p])

ReceiptLinked(w) ==
  KindOf[queue[w].asks] = "DELIVERY" /\ receipts[w] # 0 => BothLinked(receipts[w])

LinkInv ==
  /\ \A p \in Workers : LinkedSoFar(p)
  /\ \A w \in Items : ReceiptLinked(w)

LEMMA DeliveryLinks == LinkTypes("DELIVERY") = <<"DELIVERS", "EVIDENCE_FOR">>
BY DEF LinkTypes

(* Rows are added without a receipt; links are only added.                 *)
Adds == AsksKept /\ links \subseteq links' /\ \A w \in Items' \ Items : receipts'[w] = 0

LEMMA LinkedStays ==
  ASSUME InShape, Adds, NEW p \in Workers, LinkedSoFar(p),
         pc'[p] = pc[p], job'[p] = job[p], found'[p] = found[p], step'[p] = step[p]
  PROVE  LinkedSoFar(p)'
<1>1. CASE pc[p] \notin {"idle", "down"}
  <2>1. job[p] \in Items
    BY <1>1, AtHand
  <2>2. Kind(p)' = Kind(p)
    BY <2>1 DEF Kind, Asks, Adds, AsksKept
  <2>3. QED
    BY <2>2 DEF LinkedSoFar, BothLinked, Adds
<1>2. CASE pc[p] \in {"idle", "down"}
  BY <1>2 DEF LinkedSoFar
<1>3. QED
  BY <1>1, <1>2

LEMMA ReceiptsStayLinked ==
  ASSUME LinkInv, Adds, UNCHANGED receipts
  PROVE  \A w \in Items' : ReceiptLinked(w)'
<1>1. ASSUME NEW w \in Items PROVE ReceiptLinked(w)'
  BY <1>1 DEF LinkInv, ReceiptLinked, BothLinked, Adds, AsksKept
<1>2. ASSUME NEW w \in Items' \ Items PROVE ReceiptLinked(w)'
  BY <1>2 DEF ReceiptLinked, Adds
<1>3. QED
  BY <1>1, <1>2

(* One worker's step, if its own progress is right after it.               *)
LEMMA LinkStep ==
  ASSUME InShape, LinkInv, Adds, NEW p \in Workers, LinkedSoFar(p)',
         \A v \in Workers \ {p} : /\ pc'[v] = pc[v] /\ job'[v] = job[v]
                                  /\ found'[v] = found[v] /\ step'[v] = step[v],
         \A w \in Items' : ReceiptLinked(w)'
  PROVE  LinkInv'
<1>1. ASSUME NEW v \in Workers \ {p} PROVE LinkedSoFar(v)'
  BY <1>1, LinkedStays DEF LinkInv
<1>2. QED
  BY <1>1 DEF LinkInv

(* A step of no worker's.                                                  *)
LEMMA LinkBystander ==
  ASSUME InShape, LinkInv, Adds, UNCHANGED <<receipts, procVars>>
  PROVE  LinkInv'
<1>1. \A p \in Workers : LinkedSoFar(p)'
  BY LinkedStays DEF LinkInv, procVars
<1>2. QED
  BY <1>1, ReceiptsStayLinked DEF LinkInv

LEMMA QuietAdds ==
  ASSUME AnswerInv, queue' = queue, links \subseteq links'
  PROVE  Adds /\ Items' = Items
BY Quiet, RowsUnchanged DEF Adds

(* What a worker leaves behind when it only moves on.                      *)
LEMMA Others ==
  ASSUME AnswerInv, NEW p \in Workers,
         \/ UNCHANGED pc \/ \E x : pc' = [pc EXCEPT ![p] = x],
         \/ UNCHANGED job \/ \E x : job' = [job EXCEPT ![p] = x],
         \/ UNCHANGED found \/ \E x : found' = [found EXCEPT ![p] = x],
         \/ UNCHANGED step \/ \E x : step' = [step EXCEPT ![p] = x]
  PROVE  \A v \in Workers \ {p} : /\ pc'[v] = pc[v] /\ job'[v] = job[v]
                                  /\ found'[v] = found[v] /\ step'[v] = step[v]
BY Quiet
-----------------------------------------------------------------------------
LEMMA MovesOnLinked ==
  ASSUME AnswerInv, LinkInv, NEW p \in Workers,
         Replays(p) \/ LooksUp(p) \/ Scans(p) \/ Creates(p) \/ Registers(p) \/ Raises(p)
  PROVE  LinkInv'
<1>1. /\ UNCHANGED <<queue, job, step, links, receipts>>
      /\ \/ UNCHANGED found \/ \E x : found' = [found EXCEPT ![p] = x]
      /\ \E x : pc' = [pc EXCEPT ![p] = x]
  BY DEF Replays, LooksUp, Scans, Creates, Registers, Raises, Goto, dbVars, Bystanders
<1>2. Adds /\ Items' = Items /\ Kind(p)' = Kind(p)
  <2>1. Adds /\ Items' = Items
    <3>1. queue' = queue /\ links \subseteq links'
      BY <1>1
    <3>2. QED
      BY <3>1, QuietAdds
  <2>2. Kind(p)' = Kind(p)
    BY <1>1 DEF Kind, Asks
  <2>3. QED
    BY <2>1, <2>2
<1>3. LinkedSoFar(p)'
  <2>1. ASSUME pc'[p] \in {"look", "complete", "scan", "create", "register", "link", "fail"},
               step[p] = 1 \/ pc'[p] \in {"fail", "complete"}
        PROVE  LinkedSoFar(p)'
    BY <1>1, <1>2, <2>1 DEF LinkedSoFar
  <2>2. CASE Replays(p)
    BY <2>1, <2>2, Quiet DEF Replays, Goto, LinkInv, LinkedSoFar, At
  <2>3. CASE LooksUp(p)
    <3>1. CASE pc'[p] = "record" /\ Kind(p) # "DELIVERY"
      BY <1>1, <1>2, <3>1 DEF LinkedSoFar
    <3>2. \/ pc'[p] = "record" /\ Kind(p) # "DELIVERY"
          \/ pc'[p] \in {"scan", "create", "link", "fail"}
      BY <2>3, Quiet DEF LooksUp, Goto, AfterFound
    <3>3. step[p] = 1
      BY <2>3 DEF LooksUp, LinkInv, LinkedSoFar, At
    <3>4. QED
      BY <2>1, <3>1, <3>2, <3>3
  <2>4. CASE Scans(p)
    <3>1. pc'[p] \in {"create", "register", "fail"}
      BY <2>4, Quiet DEF Scans, Goto
    <3>2. step[p] = 1
      BY <2>4 DEF Scans, LinkInv, LinkedSoFar, At
    <3>3. QED
      BY <2>1, <3>1, <3>2
  <2>5. CASE Creates(p)
    BY <2>1, <2>5, Quiet DEF Creates, Goto, LinkInv, LinkedSoFar, At
  <2>6. CASE Registers(p)
    BY <2>1, <2>6, Quiet DEF Registers, Goto, LinkInv, LinkedSoFar, At
  <2>7. CASE Raises(p)
    BY <2>1, <2>7, Quiet DEF Raises, Goto
  <2>8. QED
    BY <2>2, <2>3, <2>4, <2>5, <2>6, <2>7
<1>4. \A w \in Items' : ReceiptLinked(w)'
  BY <1>1, <1>2, ReceiptsStayLinked
<1>5. QED
  BY <1>1, <1>2, <1>3, <1>4, Others, LinkStep DEF AnswerInv

LEMMA LooksForLinkLinked ==
  ASSUME AnswerInv, LinkInv, NEW p \in Workers, LooksForLink(p)
  PROVE  LinkInv'
<1>1. /\ UNCHANGED <<queue, job, found, links, receipts>>
      /\ \/ UNCHANGED pc \/ \E x : pc' = [pc EXCEPT ![p] = x]
      /\ \/ UNCHANGED step \/ \E x : step' = [step EXCEPT ![p] = x]
  BY DEF LooksForLink, Goto, dbVars
<1>2. Adds /\ Items' = Items /\ Kind(p)' = Kind(p)
  <2>1. Adds /\ Items' = Items
    <3>1. queue' = queue /\ links \subseteq links'
      BY <1>1
    <3>2. QED
      BY <3>1, QuietAdds
  <2>2. Kind(p)' = Kind(p)
    BY <1>1 DEF Kind, Asks
  <2>3. QED
    BY <2>1, <2>2
<1>3. CASE Kind(p) # "DELIVERY"
  <2>1. pc'[p] \in {"link", "linking", "record"}
    BY Quiet DEF LooksForLink, Goto, At
  <2>2. LinkedSoFar(p)'
    BY <1>2, <1>3, <2>1 DEF LinkedSoFar
  <2>3. QED
    BY <1>1, <1>2, <2>2, Others, LinkStep, ReceiptsStayLinked DEF AnswerInv
<1>4. CASE Kind(p) = "DELIVERY"
  <2>1. /\ pc[p] = "link" /\ step[p] \in Nat \ {0}
        /\ step[p] > 1 => <<found[p], "DELIVERS">> \in links
        /\ step[p] > 2 => <<found[p], "EVIDENCE_FOR">> \in links
    BY <1>4, Quiet DEF LooksForLink, LinkInv, LinkedSoFar, At
  <2>2. Len(LinkTypes(Kind(p))) = 2
    BY <1>4, DeliveryLinks
  <2>3. ASSUME step[p] > 2 PROVE LinkedSoFar(p)'
    <3>1. pc'[p] = "record" /\ BothLinked(found[p])
      BY <2>1, <2>2, <2>3, Quiet DEF LooksForLink, Goto, BothLinked
    <3>2. QED
      BY <1>1, <3>1 DEF LinkedSoFar, BothLinked
  <2>4. ASSUME step[p] <= 2, Link(p) \in links PROVE LinkedSoFar(p)'
    <3>1. pc'[p] = "link" /\ step'[p] = step[p] + 1
      BY <2>1, <2>2, <2>4, Quiet DEF LooksForLink
    <3>2. \/ step[p] = 1 /\ Link(p) = <<found[p], "DELIVERS">>
          \/ step[p] = 2 /\ Link(p) = <<found[p], "EVIDENCE_FOR">>
      BY <1>4, <2>1, <2>4, DeliveryLinks DEF Link
    <3>3. QED
      BY <1>1, <2>1, <2>4, <3>1, <3>2 DEF LinkedSoFar
  <2>5. ASSUME step[p] <= 2, Link(p) \notin links PROVE LinkedSoFar(p)'
    <3>1. pc'[p] = "linking" /\ step' = step
      BY <2>1, <2>2, <2>5, Quiet DEF LooksForLink, Goto
    <3>2. QED
      BY <1>1, <2>1, <3>1 DEF LinkedSoFar
  <2>6. LinkedSoFar(p)'
    BY <2>1, <2>3, <2>4, <2>5
  <2>7. QED
    BY <1>1, <1>2, <2>6, Others, LinkStep, ReceiptsStayLinked DEF AnswerInv
<1>5. QED
  BY <1>3, <1>4

LEMMA AddsLinkLinked ==
  ASSUME AnswerInv, LinkInv, NEW p \in Workers, AddsLink(p)
  PROVE  LinkInv'
<1>1. /\ UNCHANGED <<queue, job, found, receipts>> /\ links \subseteq links'
      /\ \E x : pc' = [pc EXCEPT ![p] = x]
      /\ \/ UNCHANGED step \/ \E x : step' = [step EXCEPT ![p] = x]
  BY DEF AddsLink, Goto
<1>2. Adds /\ Items' = Items /\ Kind(p)' = Kind(p)
  <2>1. Adds /\ Items' = Items
    <3>1. queue' = queue /\ links \subseteq links'
      BY <1>1
    <3>2. QED
      BY <3>1, QuietAdds
  <2>2. Kind(p)' = Kind(p)
    BY <1>1 DEF Kind, Asks
  <2>3. QED
    BY <2>1, <2>2
<1>3. LinkedSoFar(p)'
  <2>1. CASE Link(p) \in links
    <3>1. pc'[p] = "fail"
      BY <2>1, Quiet DEF AddsLink, Goto
    <3>2. QED
      BY <3>1 DEF LinkedSoFar
  <2>2. CASE Link(p) \notin links /\ Kind(p) # "DELIVERY"
    <3>1. pc'[p] = "link"
      BY <2>2, Quiet DEF AddsLink, Goto
    <3>2. QED
      BY <1>2, <2>2, <3>1 DEF LinkedSoFar
  <2>3. CASE Link(p) \notin links /\ Kind(p) = "DELIVERY"
    <3>1. pc'[p] = "link" /\ step'[p] = step[p] + 1 /\ links' = links \cup {Link(p)}
      BY <2>3, Quiet DEF AddsLink, Goto
    <3>2. /\ step[p] \in Nat \ {0}
          /\ step[p] > 1 => <<found[p], "DELIVERS">> \in links
          /\ step[p] > 2 => <<found[p], "EVIDENCE_FOR">> \in links
      BY <2>3, Quiet DEF AddsLink, LinkInv, LinkedSoFar, At
    <3>3. /\ step[p] = 1 => Link(p) = <<found[p], "DELIVERS">>
          /\ step[p] = 2 => Link(p) = <<found[p], "EVIDENCE_FOR">>
      BY <2>3, DeliveryLinks DEF Link
    <3>4. /\ step'[p] # 0
          /\ <<found[p], "DELIVERS">> \in links'
          /\ step'[p] > 2 => <<found[p], "EVIDENCE_FOR">> \in links'
      BY <3>1, <3>2, <3>3
    <3>5. QED
      BY <1>1, <3>1, <3>4 DEF LinkedSoFar
  <2>4. QED
    BY <2>1, <2>2, <2>3
<1>4. QED
  BY <1>1, <1>2, <1>3, Others, LinkStep, ReceiptsStayLinked DEF AnswerInv

LEMMA ReceiptIsLinked ==
  ASSUME AnswerInv, LinkInv, NEW p \in Workers, RecordsReceipt(p)
  PROVE  LinkInv'
<1>1. /\ UNCHANGED <<queue, job, found, step, links>> /\ pc' = [pc EXCEPT ![p] = "complete"]
  BY DEF RecordsReceipt, Goto
<1>2. AsksKept /\ Adds /\ Items' = Items
  <2>1. AsksKept /\ Items' = Items
    BY <1>1, Quiet, RowsUnchanged
  <2>2. QED
    BY <1>1, <2>1 DEF Adds
<1>3. LinkedSoFar(p)'
  BY <1>1, Quiet DEF LinkedSoFar
<1>4. job[p] \in Items /\ job[p] \in 1..MaxItems
  BY AtHand DEF AnswerInv, RecordsReceipt, At
<1>5. Kind(p) = "DELIVERY" => BothLinked(found[p])
  BY DEF RecordsReceipt, At, LinkInv, LinkedSoFar
<1>6. ASSUME NEW w \in Items PROVE ReceiptLinked(w)'
  <2>1. w \in 1..MaxItems /\ ReceiptLinked(w)
    BY <1>6, KeyOfRow DEF AnswerInv, LinkInv
  <2>2. \/ receipts'[w] = receipts[w]
        \/ w = job[p] /\ receipts'[w] = found[p]
    <3>1. receipts \in [1..MaxItems -> Nat]
      BY Quiet
    <3>2. CASE receipts[job[p]] = 0
      BY <1>4, <2>1, <3>1, <3>2 DEF RecordsReceipt
    <3>3. CASE receipts[job[p]] # 0
      BY <1>4, <2>1, <3>1, <3>3 DEF RecordsReceipt
    <3>4. QED
      BY <3>2, <3>3
  <2>3. CASE receipts'[w] = receipts[w]
    BY <1>1, <2>1, <2>3 DEF ReceiptLinked, BothLinked
  <2>4. CASE w = job[p] /\ receipts'[w] = found[p]
    BY <1>1, <1>5, <2>4 DEF ReceiptLinked, BothLinked, Kind, Asks
  <2>5. QED
    BY <2>2, <2>3, <2>4
<1>7. QED
  BY <1>1, <1>2, <1>3, <1>6, Others, LinkStep DEF AnswerInv

(* No receipt is there before the row it is for.                           *)
LEMMA NewRowsHaveNoReceipt ==
  ASSUME AnswerInv, InShape', AsksKept, UNCHANGED receipts
  PROVE  \A w \in Items' \ Items : receipts'[w] = 0
<1>1. Busy' \in SUBSET Gateways
  BY DEF Busy
<1>2. Cardinality(Busy') \in Nat
  BY <1>1, IntakeAssumption, FS_Subset, FS_CardinalityType
<1>3. Len(queue') + Cardinality(Busy') <= MaxItems /\ queue' \in Seq(Row) /\ MaxItems \in Nat
  BY IntakeAssumption DEF InShape, AsksKept
<1>4. Len(queue') <= MaxItems
  BY <1>2, <1>3
<1>5. Items' \subseteq 1..MaxItems
  BY <1>3, <1>4 DEF Items
<1>6. QED
  BY <1>5 DEF AnswerInv, Answered

(* A step that adds no link and no receipt, and takes nobody further.      *)
LEMMA EndsLinked ==
  ASSUME AnswerInv, InShape', SameRows, LinkInv, NEW p \in Workers,
         UNCHANGED <<links, receipts>>,
         pc'[p] \notin {"look", "scan", "create", "register", "link", "linking", "record"},
         pc'[p] = "replay" => step'[p] = 1,
         \A v \in Workers \ {p} : /\ pc'[v] = pc[v] /\ job'[v] = job[v]
                                  /\ found'[v] = found[v] /\ step'[v] = step[v]
  PROVE  LinkInv'
<1>1. Adds
  BY DEF Adds, SameRows, AsksKept, InShape, InTypeOK, Row
<1>2. LinkedSoFar(p)'
  BY DEF LinkedSoFar
<1>3. \A w \in Items' : ReceiptLinked(w)'
  BY <1>1, ReceiptsStayLinked
<1>4. QED
  BY <1>1, <1>2, <1>3, LinkStep DEF AnswerInv

LEMMA EndsOfRunLinked ==
  ASSUME AnswerInv, InShape', LinkInv, NEW p \in Workers,
         \/ \E w \in 1..MaxItems : Claims(p, w)
         \/ Completes(p) \/ FailReads(p) \/ FailWrites(p) \/ Crash(p) \/ Restart(p)
  PROVE  LinkInv'
<1>1. SameRows
  BY WorkerStepSameRows DEF WorkerStep, AnswerInv
<1>2. UNCHANGED <<links, receipts>>
  BY DEF Claims, Completes, FailReads, FailWrites, Crash, Restart, dbVars
<1>3. /\ pc'[p] \in {"replay", "idle", "down", "fail", "failing", "burying"}
      /\ pc'[p] = "replay" => step'[p] = 1
  <2>1. ASSUME NEW w \in 1..MaxItems, Claims(p, w) PROVE pc'[p] = "replay" /\ step'[p] = 1
    BY <2>1, Quiet DEF Claims, Goto
  <2>2. ASSUME Completes(p) PROVE pc'[p] \in {"idle", "fail"}
    BY <2>2, Quiet DEF Completes, Goto, Ends
  <2>3. ASSUME FailReads(p) PROVE pc'[p] \in {"down", "failing", "burying"}
    BY <2>3, Quiet DEF FailReads, Goto, Ends
  <2>4. ASSUME FailWrites(p) PROVE pc'[p] = "idle"
    BY <2>4, Quiet DEF FailWrites, Goto, Ends
  <2>5. ASSUME Crash(p) PROVE pc'[p] = "down"
    BY <2>5, Quiet DEF Crash, Goto, Ends
  <2>6. ASSUME Restart(p) PROVE pc'[p] = "idle"
    BY <2>6, Quiet DEF Restart, Goto
  <2>7. QED
    BY <2>1, <2>2, <2>3, <2>4, <2>5, <2>6
<1>4. /\ \/ UNCHANGED job \/ \E x : job' = [job EXCEPT ![p] = x]
      /\ \/ UNCHANGED found \/ \E x : found' = [found EXCEPT ![p] = x]
      /\ \/ UNCHANGED step \/ \E x : step' = [step EXCEPT ![p] = x]
      /\ \E x : pc' = [pc EXCEPT ![p] = x]
  BY DEF Claims, Completes, FailReads, FailWrites, Crash, Restart, Goto, Ends
<1>5. \A v \in Workers \ {p} : /\ pc'[v] = pc[v] /\ job'[v] = job[v]
                               /\ found'[v] = found[v] /\ step'[v] = step[v]
  BY <1>4, Others
<1>6. QED
  BY <1>1, <1>2, <1>3, <1>5, EndsLinked

LEMMA LinkInvKept ==
  ASSUME AnswerInv, AnswerInv', LinkInv, [InNext]_inVars
  PROVE  LinkInv'
<1>1. ASSUME AsksKept, UNCHANGED <<links, receipts, procVars>>
      PROVE  LinkInv'
  <2>1. InShape'
    BY DEF AnswerInv
  <2>2. Adds
    BY <1>1, <2>1, NewRowsHaveNoReceipt DEF Adds
  <2>3. QED
    BY <1>1, <2>2, LinkBystander DEF AnswerInv
<1>2. ASSUME NEW g \in Gateways, SubmitInserts(g) PROVE LinkInv'
  BY <1>1, <1>2, SubmitInsertsShape DEF SubmitInserts, AnswerInv
<1>3. ASSUME NEW p \in Workers, NEW c \in Schedules, Dispatch(p, c) PROVE LinkInv'
  BY <1>1, <1>3, DispatchShape DEF Dispatch, AnswerInv
<1>4. ASSUME \/ \E g \in Gateways : \/ \E call \in Calls : SubmitLooksUp(g, call[1], call[2])
                                    \/ SubmitLost(g)
             \/ UNCHANGED inVars
      PROVE  LinkInv'
  <2>1. UNCHANGED <<queue, links, receipts, procVars>>
    BY <1>4 DEF SubmitLooksUp, SubmitLost, inVars, dbVars
  <2>2. QED
    BY <1>1, <2>1, Quiet, RowsUnchanged
<1>5. ASSUME NEW w \in 1..MaxItems, FallsDue(w) PROVE LinkInv'
  <2>1. queue \in Seq(Row) /\ w \in Items /\ queue[w] \in Row
    BY <1>5, QueueType, KeyOfRow DEF FallsDue, AnswerInv
  <2> DEFINE row == [queue[w] EXCEPT !.due = TRUE]
  <2>2. row \in Row /\ row.asks = queue[w].asks /\ row.origin = queue[w].origin
    BY <2>1 DEF Row
  <2>3. queue' = [queue EXCEPT ![w] = row] /\ UNCHANGED <<links, receipts, procVars>>
    BY <1>5 DEF FallsDue
  <2> HIDE DEF row
  <2>4. AsksKept
    BY <2>1, <2>2, <2>3, RowChanged
  <2>5. QED
    BY <1>1, <2>3, <2>4
<1>6. ASSUME NEW p \in Workers, WorkerStep(p) \/ Raises(p) \/ Crash(p) \/ Restart(p)
      PROVE  LinkInv'
  <2>1. InShape'
    BY DEF AnswerInv
  <2>2. CASE Replays(p) \/ LooksUp(p) \/ Scans(p) \/ Creates(p) \/ Registers(p) \/ Raises(p)
    BY <2>2, MovesOnLinked
  <2>3. CASE LooksForLink(p) \/ AddsLink(p) \/ RecordsReceipt(p)
    BY <2>3, LooksForLinkLinked, AddsLinkLinked, ReceiptIsLinked
  <2>4. CASE \/ \E w \in 1..MaxItems : Claims(p, w)
             \/ Completes(p) \/ FailReads(p) \/ FailWrites(p) \/ Crash(p) \/ Restart(p)
    BY <2>1, <2>4, EndsOfRunLinked
  <2>5. QED
    BY <1>6, <2>2, <2>3, <2>4 DEF WorkerStep
<1>7. QED
  BY <1>2, <1>3, <1>4, <1>5, <1>6 DEF InNext

LEMMA LinkInvAtInit == ASSUME InInit PROVE LinkInv
BY DEF InInit, LinkInv, LinkedSoFar, Items

-----------------------------------------------------------------------------
(* One record of a delivery.  As long as no lease has lapsed under a living *)
(* worker, each busy one holds its item alone; a delivery has one item, so *)
(* at most one worker is about to create its record, and it has looked.    *)
Idle(p) == pc[p] \in {"idle", "down"}

Owned(p) ==
  ~Idle(p) => /\ queue[job[p]].status = "RUNNING" /\ queue[job[p]].holder = {p}
              /\ ~queue[job[p]].due

HasNoRecord(p) ==
  pc[p] = "create" /\ Kind(p) = "DELIVERY" =>
    \A r \in DOMAIN records : KeyOf[records[r]] # Key(p)

OneRecord ==
  \A r, s \in DOMAIN records :
    KindOf[records[r]] = "DELIVERY" /\ KeyOf[records[r]] = KeyOf[records[s]] => r = s

RecordInv ==
  lapses = 0 => OneRecord /\ \A p \in Workers : Owned(p) /\ HasNoRecord(p)

LEMMA OwnersDiffer ==
  ASSUME NEW p \in Workers, NEW q \in Workers, Owned(p), Owned(q), ~Idle(p), ~Idle(q),
         job[p] = job[q]
  PROVE  p = q
BY DEF Owned

(* A worker that stays on its item, whose row nobody writes.               *)
LEMMA StaysOwned ==
  ASSUME NEW p \in Workers, Owned(p), ~Idle(p)' => ~Idle(p) /\ job'[p] = job[p],
         ~Idle(p)' => queue'[job[p]] = queue[job[p]]
  PROVE  Owned(p)'
BY DEF Owned

(* The row of one worker's item is written: the others have another.       *)
LEMMA OthersStayOwned ==
  ASSUME InShape, NEW p \in Workers, NEW w \in Items, NEW row,
         queue' = [queue EXCEPT ![w] = row],
         \A q \in Workers : Owned(q),
         \A q \in Workers \ {p} : pc'[q] = pc[q] /\ job'[q] = job[q],
         queue[w].due \/ (~Idle(p) /\ job[p] = w)
  PROVE  \A q \in Workers \ {p} : Owned(q)'
<1>1. ASSUME NEW q \in Workers \ {p}, ~Idle(q) PROVE queue'[job[q]] = queue[job[q]]
  <2>1. job[q] # w
    BY <1>1, OwnersDiffer DEF Owned
  <2>2. job[q] \in Items
    BY <1>1, AtHand DEF Idle
  <2>3. QED
    BY <2>1, <2>2, QueueType
<1>2. QED
  BY <1>1, StaysOwned DEF Idle

LEMMA OwnedAfterClaim ==
  ASSUME AnswerInv, \A q \in Workers : Owned(q), NEW p \in Workers, NEW w \in 1..MaxItems,
         Claims(p, w)
  PROVE  \A q \in Workers : Owned(q)'
<1> DEFINE row == [asks |-> queue[w].asks, origin |-> queue[w].origin, status |-> "RUNNING",
                   holder |-> {p}, due |-> FALSE, attempts |-> queue[w].attempts + 1,
                   answer |-> queue[w].answer]
<1>1. w \in Items /\ queue[w].due /\ queue' = [queue EXCEPT ![w] = row]
  BY DEF Claims, Updates
<1>2. row.status = "RUNNING" /\ row.holder = {p} /\ ~row.due
  OBVIOUS
<1> HIDE DEF row
<1>3. job'[p] = w /\ \A q \in Workers \ {p} : pc'[q] = pc[q] /\ job'[q] = job[q]
  BY Quiet DEF Claims, Goto
<1>4. queue'[w] = row
  BY <1>1, Quiet DEF Items
<1>5. Owned(p)'
  BY <1>2, <1>3, <1>4 DEF Owned
<1>6. \A q \in Workers \ {p} : Owned(q)'
  BY <1>1, <1>3, OthersStayOwned DEF AnswerInv
<1>7. QED
  BY <1>5, <1>6

LEMMA OwnedAfterEnd ==
  ASSUME AnswerInv, \A q \in Workers : Owned(q), NEW p \in Workers,
         (Completes(p) /\ Holds(p)) \/ FailWrites(p)
  PROVE  \A q \in Workers : Owned(q)'
<1>1. \E row : queue' = [queue EXCEPT ![job[p]] = row]
  BY DEF Completes, FailWrites, Updates
<1>2. ~Idle(p) /\ job[p] \in Items
  BY AtHand DEF Completes, FailWrites, At, Idle, AnswerInv
<1>3. Idle(p)' /\ \A q \in Workers \ {p} : pc'[q] = pc[q] /\ job'[q] = job[q]
  BY Quiet DEF Completes, FailWrites, Ends, Goto, Idle
<1>4. \A q \in Workers \ {p} : Owned(q)'
  BY <1>1, <1>2, <1>3, OthersStayOwned DEF AnswerInv
<1>5. QED
  BY <1>3, <1>4 DEF Owned

(* No row is written, and nobody starts.                                   *)
LEMMA OwnedWhileQuiet ==
  ASSUME AnswerInv, \A q \in Workers : Owned(q), NEW p \in Workers, UNCHANGED queue,
         \E place : pc' = [pc EXCEPT ![p] = place] /\ (Idle(p) => place \in {"idle", "down"}),
         \/ job' = job
         \/ job' = [job EXCEPT ![p] = 0] /\ pc'[p] = "down"
  PROVE  \A q \in Workers : Owned(q)'
<1>1. ASSUME NEW q \in Workers PROVE ~Idle(q)' => ~Idle(q) /\ job'[q] = job[q]
  BY Quiet DEF Idle
<1>2. QED
  BY <1>1, StaysOwned

LEMMA OwnedKept ==
  ASSUME AnswerInv, \A q \in Workers : Owned(q), [InNext]_inVars
  PROVE  lapses' = 0 => \A q \in Workers : Owned(q)'
<1>1. ASSUME UNCHANGED procVars, \A w \in Items : queue'[w] = queue[w]
      PROVE  \A q \in Workers : Owned(q)'
  <2>1. ASSUME NEW q \in Workers PROVE Owned(q)'
    <3>1. ~Idle(q)' => ~Idle(q) /\ job'[q] = job[q] /\ job[q] \in Items
      BY <1>1, AtHand DEF AnswerInv, procVars, Idle
    <3>2. QED
      BY <1>1, <3>1, StaysOwned
  <2>2. QED
    BY <2>1
<1>2. ASSUME NEW g \in Gateways, SubmitInserts(g) PROVE \A q \in Workers : Owned(q)'
  <2>1. \A w \in Items : queue'[w] = queue[w]
    <3>1. asking[g][1] \in Requests /\ asking[g][2] \in Commands
      BY <1>2, IntakeAssumption DEF AnswerInv, InShape, SubmitInserts
    <3>2. QED
      BY <1>2, <3>1, RowInserted DEF SubmitInserts, AnswerInv
  <2>2. QED
    BY <1>1, <1>2, <2>1 DEF SubmitInserts
<1>3. ASSUME NEW p \in Workers, NEW c \in Schedules, Dispatch(p, c)
      PROVE  \A q \in Workers : Owned(q)'
  <2>1. \A w \in Items : queue'[w] = queue[w]
    <3>1. c \in Commands /\ KeyOf[c] \in Keys
      BY IntakeAssumption DEF Keys
    <3>2. QED
      BY <1>3, <3>1, RowInserted DEF Dispatch, AnswerInv
  <2>2. QED
    BY <1>1, <1>3, <2>1 DEF Dispatch
<1>4. ASSUME \/ \E g \in Gateways : \/ \E call \in Calls : SubmitLooksUp(g, call[1], call[2])
                                    \/ SubmitLost(g)
             \/ UNCHANGED inVars
      PROVE  \A q \in Workers : Owned(q)'
  BY <1>1, <1>4 DEF SubmitLooksUp, SubmitLost, inVars, dbVars
<1>5. ASSUME NEW p \in Workers,
             \/ Replays(p) \/ LooksUp(p) \/ Scans(p) \/ Creates(p) \/ Registers(p)
             \/ AddsLink(p) \/ RecordsReceipt(p) \/ Raises(p) \/ Restart(p)
      PROVE  \A q \in Workers : Owned(q)'
  <2>1. UNCHANGED <<queue, job>> /\ \E place : pc' = [pc EXCEPT ![p] = place]
    BY <1>5 DEF Replays, LooksUp, Scans, Creates, Registers, AddsLink, RecordsReceipt, Raises,
                Restart, Goto, dbVars
  <2>2. Idle(p) => pc'[p] \in {"idle", "down"}
    BY <1>5, Quiet DEF Replays, LooksUp, Scans, Creates, Registers, AddsLink, RecordsReceipt,
                       Raises, Restart, Goto, Idle, At, InHandler
  <2>3. QED
    <3>1. PICK place : pc' = [pc EXCEPT ![p] = place]
      BY <2>1
    <3>2. pc'[p] = place
      BY <3>1, Quiet
    <3>3. QED
      BY <2>1, <2>2, <3>1, <3>2, OwnedWhileQuiet
<1>6. ASSUME NEW p \in Workers, LooksForLink(p) PROVE \A q \in Workers : Owned(q)'
  <2>1. UNCHANGED <<queue, job>> /\ pc[p] = "link"
    BY <1>6 DEF LooksForLink, dbVars, At
  <2>2. \/ UNCHANGED pc
        \/ \E place : pc' = [pc EXCEPT ![p] = place]
    BY <1>6 DEF LooksForLink, Goto
  <2>3. \A q \in Workers : ~Idle(q)' => ~Idle(q)
    BY <2>1, <2>2, Quiet DEF Idle
  <2>4. QED
    BY <2>1, <2>3, StaysOwned
<1>7. ASSUME NEW p \in Workers, \/ Completes(p) /\ ~Holds(p)
                                \/ FailReads(p) \/ Crash(p)
      PROVE  \A q \in Workers : Owned(q)'
  <2>1. /\ UNCHANGED queue /\ \E place : pc' = [pc EXCEPT ![p] = place]
        /\ \/ job' = job
           \/ job' = [job EXCEPT ![p] = 0] /\ pc'[p] = "down"
    BY <1>7, Quiet DEF Completes, FailReads, Crash, Ends, Goto, dbVars
  <2>2. Idle(p) => pc'[p] \in {"idle", "down"}
    BY <1>7, Quiet DEF Completes, FailReads, Crash, Ends, Goto, Idle, At
  <2>3. QED
    <3>1. PICK place : pc' = [pc EXCEPT ![p] = place]
      BY <2>1
    <3>2. pc'[p] = place
      BY <3>1, Quiet
    <3>3. QED
      BY <2>1, <2>2, <3>1, <3>2, OwnedWhileQuiet
<1>8. ASSUME NEW p \in Workers, \/ \E w \in 1..MaxItems : Claims(p, w)
                                \/ Completes(p) /\ Holds(p)
                                \/ FailWrites(p)
      PROVE  \A q \in Workers : Owned(q)'
  BY <1>8, OwnedAfterClaim, OwnedAfterEnd
<1>9. ASSUME NEW w \in 1..MaxItems, FallsDue(w), lapses' = 0
      PROVE  \A q \in Workers : Owned(q)'
  <2>1. w \in Items /\ UNCHANGED procVars /\ \A v \in Items \ {w} : queue'[v] = queue[v]
    BY <1>9, Quiet DEF FallsDue
  <2>2. \A q \in Workers : job[q] = w => Idle(q)
    <3>1. lapses \in Nat
      BY Quiet
    <3>2. QED
      BY <1>9, <3>1 DEF FallsDue, Idle
  <2>3. ASSUME NEW q \in Workers PROVE Owned(q)'
    <3>1. ~Idle(q)' => ~Idle(q) /\ job'[q] = job[q] /\ job[q] \in Items \ {w}
      BY <2>1, <2>2, AtHand DEF AnswerInv, procVars, Idle
    <3>2. QED
      BY <2>1, <3>1, StaysOwned
  <2>4. QED
    BY <2>3
<1>10. QED
  BY <1>2, <1>3, <1>4, <1>5, <1>6, <1>7, <1>8, <1>9 DEF InNext, WorkerStep

(* A worker that is about to create, and was: nothing was created since.   *)
LEMMA StillHasNoRecord ==
  ASSUME InShape, AsksKept, NEW p \in Workers, HasNoRecord(p), records' = records,
         pc'[p] = "create" => pc[p] = "create" /\ job'[p] = job[p]
  PROVE  HasNoRecord(p)'
<1>1. SUFFICES ASSUME pc'[p] = "create" PROVE HasNoRecord(p)'
  BY DEF HasNoRecord
<1>2. pc[p] = "create" /\ job'[p] = job[p] /\ job[p] \in Items
  BY <1>1, AtHand
<1>3. Asks(p)' = Asks(p)
  BY <1>2 DEF Asks, AsksKept
<1>4. Key(p)' = Key(p) /\ Kind(p)' = Kind(p)
  BY <1>3 DEF Key, Kind
<1>5. QED
  BY <1>2, <1>4 DEF HasNoRecord

LEMMA NoRecordAfterScan ==
  ASSUME AnswerInv, NEW p \in Workers, Scans(p) \/ LooksUp(p)
  PROVE  HasNoRecord(p)'
<1>1. /\ UNCHANGED <<queue, job, records>>
      /\ Kind(p)' = Kind(p) /\ Key(p)' = Key(p)
  BY DEF Scans, LooksUp, dbVars, Kind, Key, Asks
<1>2. ASSUME Scans(p), pc'[p] = "create"
      PROVE  \A r \in DOMAIN records : KeyOf[records[r]] # Key(p)
  BY <1>2, Quiet DEF Scans, Goto
<1>3. ASSUME LooksUp(p), pc'[p] = "create" PROVE Kind(p) # "DELIVERY"
  BY <1>3, Quiet DEF LooksUp, Goto, AfterFound
<1>4. QED
  BY <1>1, <1>2, <1>3 DEF HasNoRecord

(* The record that is created is the first of its delivery, and nobody     *)
(* else is about to create another.                                        *)
LEMMA RecordAfterCreate ==
  ASSUME AnswerInv, OriginInv, OneRecord, \A q \in Workers : Owned(q) /\ HasNoRecord(q),
         NEW p \in Workers, Creates(p)
  PROVE  OneRecord' /\ \A q \in Workers : HasNoRecord(q)'
<1> DEFINE n == Len(records) + 1
           c == Asks(p)
<1>1. /\ records' = Append(records, c) /\ UNCHANGED <<queue, job>> /\ pc[p] = "create"
      /\ pc'[p] # "create" /\ \A q \in Workers \ {p} : pc'[q] = pc[q]
  BY Quiet DEF Creates, Goto, At
<1>2. /\ job[p] \in Items /\ c \in Commands
  BY <1>1, AtHand DEF AnswerInv
<1>3. /\ DOMAIN records' = DOMAIN records \cup {n} /\ n \notin DOMAIN records /\ records'[n] = c
      /\ \A r \in DOMAIN records : records'[r] = records[r] /\ records[r] \in Commands
  <2>1. records \in Seq(Commands)
    BY Quiet
  <2> HIDE DEF c
  <2>2. QED
    BY <1>1, <1>2, <2>1
<1>4. KindOf[c] = "DELIVERY" => \A r \in DOMAIN records : KeyOf[records[r]] # KeyOf[c]
  BY <1>1 DEF HasNoRecord, Kind, Key
<1>5. \A r \in DOMAIN records : KeyOf[records[r]] = KeyOf[c] => KindOf[records[r]] = KindOf[c]
  BY <1>2, <1>3, IntakeAssumption
<1>6. OneRecord'
  <2>1. ASSUME NEW r \in DOMAIN records', NEW s \in DOMAIN records',
               KindOf[records'[r]] = "DELIVERY", KeyOf[records'[r]] = KeyOf[records'[s]]
        PROVE  r = s
    <3>1. CASE r # n /\ s # n
      BY <1>3, <2>1, <3>1 DEF OneRecord
    <3>2. CASE r = n /\ s # n
      BY <1>3, <1>4, <2>1, <3>2
    <3>3. CASE r # n /\ s = n
      BY <1>3, <1>4, <1>5, <2>1, <3>3
    <3>4. QED
      BY <3>1, <3>2, <3>3
  <2>2. QED
    BY <2>1 DEF OneRecord
<1>7. ASSUME NEW q \in Workers PROVE HasNoRecord(q)'
  <2>1. SUFFICES ASSUME pc'[q] = "create", Kind(q)' = "DELIVERY"
                 PROVE  \A r \in DOMAIN records' : KeyOf[records'[r]] # Key(q)'
    BY DEF HasNoRecord
  <2>2. q # p /\ pc[q] = "create"
    BY <1>1, <2>1
  <2>3. Kind(q)' = Kind(q) /\ Key(q)' = Key(q)
    BY <1>1 DEF Kind, Key, Asks
  <2>4. \A r \in DOMAIN records : KeyOf[records[r]] # Key(q)
    BY <2>1, <2>2, <2>3 DEF HasNoRecord
  <2>5. ASSUME KeyOf[c] = Key(q) PROVE FALSE
    <3>1. job[q] \in Items
      BY <2>2, AtHand DEF AnswerInv
    <3>2. job[p] = job[q]
      BY <1>2, <2>1, <2>3, <2>5, <3>1, OriginsAreUnique
      DEF AnswerInv, OneItemPerRequest, Kind, Key, Asks
    <3>3. ~Idle(p) /\ ~Idle(q) /\ Owned(p) /\ Owned(q)
      BY <1>1, <2>2 DEF Idle
    <3>4. QED
      BY <2>2, <3>2, <3>3, OwnersDiffer
  <2>6. QED
    BY <1>3, <2>3, <2>4, <2>5
<1>8. QED
  BY <1>6, <1>7

(* Every other step leaves the records as they are, and sends nobody to    *)
(* create one.                                                             *)
Creating(p) == pc[p] = "create"

LEMMA OthersDoNotCreate ==
  ASSUME AnswerInv, NEW p \in Workers, WorkerStep(p) \/ Raises(p) \/ Crash(p) \/ Restart(p),
         ~Creates(p), ~Scans(p), ~LooksUp(p)
  PROVE  /\ records' = records
         /\ \A q \in Workers : Creating(q)' => Creating(q) /\ job'[q] = job[q]
<1>1. ASSUME NEW w \in 1..MaxItems, Claims(p, w)
      PROVE  /\ records' = records /\ pc'[p] # "create"
             /\ \A q \in Workers \ {p} : pc'[q] = pc[q] /\ job'[q] = job[q]
  BY <1>1, Quiet DEF Claims, Goto
<1>2. ASSUME \/ Replays(p) \/ Registers(p) \/ AddsLink(p) \/ RecordsReceipt(p)
             \/ Raises(p) \/ Restart(p)
      PROVE  /\ records' = records /\ pc'[p] # "create" /\ job' = job
             /\ \A q \in Workers \ {p} : pc'[q] = pc[q]
  BY <1>2, Quiet DEF Replays, Registers, AddsLink, RecordsReceipt, Raises, Restart, Goto, dbVars
<1>3. ASSUME LooksForLink(p)
      PROVE  /\ records' = records /\ pc'[p] # "create" /\ job' = job
             /\ \A q \in Workers \ {p} : pc'[q] = pc[q]
  BY <1>3, Quiet DEF LooksForLink, Goto, dbVars, At
<1>4. ASSUME Completes(p) \/ FailReads(p) \/ FailWrites(p) \/ Crash(p)
      PROVE  /\ records' = records /\ pc'[p] # "create"
             /\ \A q \in Workers \ {p} : pc'[q] = pc[q] /\ job'[q] = job[q]
  BY <1>4, Quiet DEF Completes, FailReads, FailWrites, Crash, Ends, Goto, dbVars
<1>5. QED
  BY <1>1, <1>2, <1>3, <1>4 DEF WorkerStep, Creating

LEMMA RecordInvKept ==
  ASSUME AnswerInv, AnswerInv', OriginInv, RecordInv, [InNext]_inVars
  PROVE  RecordInv'
<1>1. lapses \in Nat /\ (lapses' = 0 => lapses = 0)
  <2>1. lapses \in Nat
    BY Quiet
  <2>2. lapses' = lapses \/ lapses' = lapses + 1
    BY DEF InNext, WorkerStep, SubmitLooksUp, SubmitInserts, SubmitLost, Dispatch, Claims, Replays,
           LooksUp, Scans, Creates, Registers, LooksForLink, AddsLink, RecordsReceipt, Completes,
           FailReads, FailWrites, Raises, Crash, Restart, FallsDue, Bystanders, inVars
  <2>3. QED
    BY <2>1, <2>2
<1>2. SUFFICES ASSUME lapses' = 0, OneRecord, \A q \in Workers : Owned(q) /\ HasNoRecord(q)
               PROVE  OneRecord' /\ \A q \in Workers : HasNoRecord(q)'
  BY <1>1, OwnedKept DEF RecordInv
<1>3. ASSUME records' = records, AsksKept,
             \A q \in Workers : Creating(q)' => Creating(q) /\ job'[q] = job[q]
      PROVE  OneRecord' /\ \A q \in Workers : HasNoRecord(q)'
  <2>1. \A q \in Workers : HasNoRecord(q)'
    BY <1>2, <1>3, StillHasNoRecord DEF AnswerInv, Creating
  <2>2. OneRecord'
    BY <1>2, <1>3 DEF OneRecord
  <2>3. QED
    BY <2>1, <2>2
<1>4. ASSUME NEW p \in Workers, WorkerStep(p) \/ Raises(p) \/ Crash(p) \/ Restart(p)
      PROVE  OneRecord' /\ \A q \in Workers : HasNoRecord(q)'
  <2>1. SameRows
    BY <1>4, WorkerStepSameRows DEF AnswerInv
  <2>2. AsksKept
    BY <2>1 DEF SameRows, AsksKept, AnswerInv, InShape, InTypeOK, Row
  <2>3. CASE Creates(p)
    BY <1>2, <2>3, RecordAfterCreate
  <2>4. CASE Scans(p) \/ LooksUp(p)
    <3>1. /\ records' = records /\ job' = job /\ \A q \in Workers \ {p} : pc'[q] = pc[q]
      BY <2>4, Quiet DEF Scans, LooksUp, Goto, dbVars
    <3>2. HasNoRecord(p)'
      BY <2>4, NoRecordAfterScan
    <3>3. \A q \in Workers \ {p} : HasNoRecord(q)'
      BY <1>2, <2>2, <3>1, StillHasNoRecord DEF AnswerInv
    <3>4. OneRecord'
      BY <1>2, <3>1 DEF OneRecord
    <3>5. QED
      BY <3>2, <3>3, <3>4
  <2>5. CASE ~Creates(p) /\ ~Scans(p) /\ ~LooksUp(p)
    BY <1>3, <1>4, <2>2, <2>5, OthersDoNotCreate
  <2>6. QED
    BY <2>3, <2>4, <2>5
<1>5. ASSUME UNCHANGED <<records, procVars>>, AsksKept
      PROVE  OneRecord' /\ \A q \in Workers : HasNoRecord(q)'
  BY <1>3, <1>5 DEF procVars, Creating
<1>6. ASSUME NEW g \in Gateways, SubmitInserts(g)
      PROVE  OneRecord' /\ \A q \in Workers : HasNoRecord(q)'
  BY <1>5, <1>6, SubmitInsertsShape DEF SubmitInserts, AnswerInv
<1>7. ASSUME NEW p \in Workers, NEW c \in Schedules, Dispatch(p, c)
      PROVE  OneRecord' /\ \A q \in Workers : HasNoRecord(q)'
  BY <1>5, <1>7, DispatchShape DEF Dispatch, AnswerInv
<1>8. ASSUME \/ \E g \in Gateways : \/ \E call \in Calls : SubmitLooksUp(g, call[1], call[2])
                                    \/ SubmitLost(g)
             \/ UNCHANGED inVars
      PROVE  OneRecord' /\ \A q \in Workers : HasNoRecord(q)'
  <2>1. UNCHANGED <<queue, records, procVars>>
    BY <1>8 DEF SubmitLooksUp, SubmitLost, inVars, dbVars
  <2>2. QED
    BY <1>5, <2>1, Quiet, RowsUnchanged
<1>9. ASSUME NEW w \in 1..MaxItems, FallsDue(w)
      PROVE  OneRecord' /\ \A q \in Workers : HasNoRecord(q)'
  <2>1. queue \in Seq(Row) /\ w \in Items /\ queue[w] \in Row
    BY <1>9, QueueType, KeyOfRow DEF FallsDue, AnswerInv
  <2> DEFINE row == [queue[w] EXCEPT !.due = TRUE]
  <2>2. row \in Row /\ row.asks = queue[w].asks /\ row.origin = queue[w].origin
    BY <2>1 DEF Row
  <2>3. queue' = [queue EXCEPT ![w] = row] /\ UNCHANGED <<records, procVars>>
    BY <1>9 DEF FallsDue
  <2> HIDE DEF row
  <2>4. AsksKept
    BY <2>1, <2>2, <2>3, RowChanged
  <2>5. QED
    BY <1>5, <2>3, <2>4
<1>10. QED
  BY <1>4, <1>6, <1>7, <1>8, <1>9 DEF InNext

(* A coding delivery that is receipted has both its links, wherever the    *)
(* attempts before were cut off; and while no lease has lapsed under a     *)
(* living worker there is one record of it.                                *)
THEOREM DeliveriesAreWhole == InSpec => []DeliveredWhole
<1>1. InInit => AnswerInv /\ OriginInv /\ LinkInv /\ RecordInv
  <2>1. ASSUME InInit PROVE OriginInv /\ RecordInv
    BY <2>1 DEF InInit, OriginInv, Items, RecordInv, OneRecord, Owned, HasNoRecord, Idle
  <2>2. QED
    BY <2>1, AnswerInvAtInit, LinkInvAtInit
<1>2. AnswerInv /\ [InNext]_inVars => AnswerInv'
  BY AnswerInvKept
<1>3. AnswerInv /\ OriginInv /\ [InNext]_inVars => OriginInv'
  BY OriginInvKept DEF AnswerInv
<1>4. AnswerInv /\ AnswerInv' /\ LinkInv /\ [InNext]_inVars => LinkInv'
  BY LinkInvKept
<1>5. AnswerInv /\ AnswerInv' /\ OriginInv /\ RecordInv /\ [InNext]_inVars => RecordInv'
  BY RecordInvKept
<1>6. LinkInv /\ RecordInv => DeliveredWhole
  BY DEF LinkInv, ReceiptLinked, BothLinked, RecordInv, OneRecord, DeliveredWhole
<1>7. QED
  BY <1>1, <1>2, <1>3, <1>4, <1>5, <1>6, PTL DEF InSpec
=============================================================================
