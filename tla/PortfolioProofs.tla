--------------------------- MODULE PortfolioProofs ---------------------------
(* What holds of the Chief of Staff's projects for any plans, scores, work *)
(* items, workers, cut-offs and lapsed leases.                             *)
EXTENDS Portfolio, FiniteSetTheorems, TLAPS

(* The job a worker is at decides where in it it can be.                   *)
JobFits ==
  \A p \in Workers :
    /\ pc[p] = "idle" => changed[p] = {}
    /\ changed[p] # {} => job[p] \in ReviewJobs \cup MaintainJobs
    /\ pc[p] # "idle" => job[p] \in Jobs
    /\ pc[p] = "record" => job[p] \in CreateJobs \cup RecordJobs
    /\ pc[p] \in {"part", "activate"} => job[p] \in CreateJobs
    /\ pc[p] \in {"rank", "judge"} => job[p] \in ReviewJobs \cup MaintainJobs
    /\ pc[p] = "evaluate" => job[p] \in EvaluateJobs
    /\ pc[p] \in {"judge", "govern"} => left[p] \subseteq ranked[p]

PfShape == PfTypeOK /\ JobFits /\ IsFiniteSet(decisions)

-----------------------------------------------------------------------------
LEMMA ShapeAtInit == PfInit => PfShape
BY PortfolioAssumption, FS_EmptySet DEF PfInit, PfShape, PfTypeOK, JobFits, Lives, Places

LifeType == [Ids -> [state : Lives,
                     reason : {"none", "created", "planned", "fit", "capacity", "evidence"},
                     limit : Nat]]

LEMMA TransitionType ==
  ASSUME PfTypeOK, NEW i \in Ids, NEW s \in Lives,
         NEW r \in {"created", "planned", "fit", "capacity", "evidence"}, NEW l \in Nat,
         Transition(i, s, r, l)
  PROVE  life' \in LifeType
BY DEF PfTypeOK, LifeType, Transition

LEMMA TransitionRow ==
  ASSUME PfTypeOK, NEW i \in Ids, NEW s, NEW r, NEW l, Transition(i, s, r, l)
  PROVE  /\ life'[i].state = s /\ life'[i].reason = r /\ life'[i].limit = l
         /\ \A k \in Ids \ {i} : life'[k] = life[k]
BY DEF PfTypeOK, Transition

LEMMA EndsShape ==
  ASSUME PfShape, NEW p \in Workers, Ends(p), UNCHANGED <<plan, owner, life, decisions, governs>>,
         receipts' \subseteq Jobs, cutOff' \subseteq (ReviewJobs \cup MaintainJobs) \X Ids,
         cuts' \in Nat, lapses' \in Nat
  PROVE  PfShape'
BY DEF PfShape, PfTypeOK, JobFits, Ends, Goto, Places

LEMMA StartsShape ==
  ASSUME PfShape, NEW p \in Workers, NEW j \in Jobs, Starts(p, j)
  PROVE  PfShape'
<1> USE DEF PfShape, PfTypeOK, JobFits, Starts, Goto, dbVars, localVars
<1>1. j \in CreateJobs \cup RecordJobs \cup ReviewJobs \cup MaintainJobs \cup EvaluateJobs
  BY PortfolioAssumption
<1>2. lapses' \in Nat
  OBVIOUS
<1>3. CASE j \in CreateJobs \cup RecordJobs
  BY <1>2, <1>3 DEF Places, At
<1>4. CASE j \in ReviewJobs \cup MaintainJobs
  BY <1>2, <1>4 DEF Places, At, CreateJobs, RecordJobs, ReviewJobs, MaintainJobs
<1>5. CASE j \in EvaluateJobs
  BY <1>2, <1>5 DEF Places, At, CreateJobs, RecordJobs, ReviewJobs, MaintainJobs, EvaluateJobs
<1>6. QED
  BY <1>1, <1>3, <1>4, <1>5

LEMMA CreateShape ==
  ASSUME PfShape, NEW p \in Workers, Records(p) \/ AddsPart(p) \/ Activates(p)
  PROVE  PfShape'
<1> USE PortfolioAssumption
<1> USE DEF PfShape, PfTypeOK, JobFits, Goto, At, Places, dbVars, counters, LifeType
<1>1. CASE Records(p)
  <2>1. PICK i \in Ids \ Projects : 
          /\ plan'  = [plan EXCEPT ![i] = job[p].plan]
          /\ owner' = [owner EXCEPT ![i] = IF job[p] \in CreateJobs THEN p ELSE NoOne]
          /\ mine'  = [mine EXCEPT ![p] = i]
          /\ left'  = [left EXCEPT ![p] = IF job[p] \in CreateJobs
                                            THEN 1..Parts[job[p].plan] ELSE {}]
          /\ Transition(i, "INCUBATOR", "created", 0)
    BY <1>1 DEF Records
  <2>2. job[p].plan \in Plans /\ i \in Nat
    BY <1>1 DEF Records
  <2>3. life' \in LifeType
    BY <2>1, TransitionType DEF Lives
  <2>4. left' \in [Workers -> SUBSET Nat]
    BY <2>1, <2>2
  <2>5. plan' \in [Ids -> Plans \cup {NoPlan}] /\ owner' \in [Ids -> Workers \cup {NoOne}]
    BY <2>1, <2>2
  <2>6. mine' \in [Workers -> Nat]
    BY <2>1, <2>2
  <2>7. JobFits'
    BY <1>1 DEF Records
  <2>8. QED
    BY <1>1, <2>3, <2>4, <2>5, <2>6, <2>7 DEF Records
<1>2. CASE AddsPart(p)
  BY <1>2 DEF AddsPart
<1>3. CASE Activates(p)
  <2>1. life' \in LifeType
    <3>1. Transition(mine[p], "ACTIVE", "planned", 0)
      BY <1>3 DEF Activates
    <3>2. QED
      BY <3>1 DEF Transition, LifeType, Lives
  <2>2. QED
    BY <1>3, <2>1 DEF Activates, localVars
<1>4. QED
  BY <1>1, <1>2, <1>3

LEMMA ReviewShape ==
  ASSUME PfShape, NEW p \in Workers, Refuses(p) \/ Ranks(p) \/ Judges(p)
  PROVE  PfShape'
<1>1. CASE Refuses(p)
  BY <1>1, EndsShape DEF Refuses, PfShape, PfTypeOK, dbVars, counters
<1>2. CASE Ranks(p)
  <2> DEFINE S == IF job[p] \in ReviewJobs THEN job[p].ids ELSE Live \cap Measured
  <2>1. S \subseteq Ids
    BY PortfolioAssumption DEF Live, Projects
  <2>2. S \in SUBSET Nat
    BY <2>1, PortfolioAssumption
  <2>3. /\ ranked' = [ranked EXCEPT ![p] = S] /\ left' = [left EXCEPT ![p] = S]
        /\ Goto(p, IF S = {} THEN "receipt" ELSE "judge") /\ pc[p] = "rank"
        /\ UNCHANGED <<dbVars, job, mine, changed, cutOff, counters>>
    BY <1>2 DEF Ranks, At
  <2> HIDE DEF S
  <2>4. QED
    BY <2>1, <2>2, <2>3
    DEF PfShape, PfTypeOK, JobFits, Goto, Places, dbVars, counters
<1>3. CASE Judges(p)
  <2>1. PICK i \in left[p] :
          /\ left' = [left EXCEPT ![p] = @ \ {i}]
          /\ IF Verdict(p, i) # "prioritize" /\ AgentOwned(p, i)
               THEN /\ Transition(i, "PAUSED", Verdict(p, i), LimitOf(p, i))
                    /\ changed' = [changed EXCEPT ![p] = @ \cup {i}]
               ELSE UNCHANGED <<life, changed>>
    BY <1>3 DEF Judges
  <2>2. i \in Ids
    BY <1>3 DEF Judges, PfShape, PfTypeOK, JobFits, At
  <2>3. life' \in LifeType /\ changed' \in [Workers -> SUBSET Ids]
    <3>1. CASE Verdict(p, i) # "prioritize" /\ AgentOwned(p, i)
      <4>1. LimitOf(p, i) \in Nat
        BY <1>3, PortfolioAssumption DEF Judges, PfShape, JobFits, At, LimitOf
      <4>2. QED
        BY <2>1, <2>2, <3>1, <4>1, TransitionType DEF PfShape, PfTypeOK, Verdict, Lives
    <3>2. CASE ~(Verdict(p, i) # "prioritize" /\ AgentOwned(p, i))
      BY <2>1, <3>2 DEF PfShape, PfTypeOK, LifeType
    <3>3. QED
      BY <3>1, <3>2
  <2>4. pc' \in [Workers -> Places] /\ left' \in [Workers -> SUBSET Nat]
    BY <1>3, <2>1 DEF Judges, PfShape, PfTypeOK, Goto, Places
  <2>5. JobFits'
    BY <1>3, <2>1 DEF Judges, PfShape, PfTypeOK, JobFits, Goto, At, Places
  <2>6. QED
    BY <1>3, <2>3, <2>4, <2>5 DEF Judges, PfShape, PfTypeOK, counters, LifeType
<1>4. QED
  BY <1>1, <1>2, <1>3

LEMMA DecideShape ==
  ASSUME PfShape, NEW p \in Workers,
         Decides(p) \/ Governs(p) \/ Evaluates(p) \/ StoresReceipt(p) \/ IsCutOff(p)
  PROVE  PfShape'
<1>1. CASE Decides(p)
  <2> DEFINE n == Cardinality(decisions) + 1
             d == [number |-> n, ranked |-> ranked[p], paused |-> changed[p]]
  <2>1. n \in Nat /\ IsFiniteSet(decisions \cup {d})
    <3> HIDE DEF d
    <3>1. IsFiniteSet(decisions)
      BY DEF PfShape
    <3>2. QED
      BY <3>1, FS_CardinalityType, FS_AddElement
  <2>2. d \in [number : Nat, ranked : SUBSET Ids, paused : SUBSET Ids]
    <3> HIDE DEF n
    <3>1. QED  BY <2>1 DEF PfShape, PfTypeOK
  <2>3. ranked[p] \in SUBSET Ids /\ ranked[p] \in SUBSET Nat
    BY PortfolioAssumption DEF PfShape, PfTypeOK
  <2>4. decisions' = decisions \cup {d} /\ mine' = [mine EXCEPT ![p] = n]
    BY <1>1 DEF Decides
  <2> HIDE DEF d, n
  <2>5. mine' \in [Workers -> Nat] /\ left' \in [Workers -> SUBSET Nat]
    BY <1>1, <2>1, <2>3, <2>4 DEF Decides, PfShape, PfTypeOK
  <2>6. decisions' \subseteq [number : Nat, ranked : SUBSET Ids, paused : SUBSET Ids]
    BY <2>2, <2>4 DEF PfShape, PfTypeOK
  <2>7. JobFits'
    BY <1>1, <2>3 DEF Decides, PfShape, PfTypeOK, JobFits, Goto, At
  <2>8. QED
    BY <1>1, <2>1, <2>4, <2>5, <2>6, <2>7
    DEF Decides, PfShape, PfTypeOK, Goto, Places, counters
<1>2. CASE Governs(p)
  <2>1. PICK i \in left[p] : /\ governs' = governs \cup {<<mine[p], i>>}
                             /\ left' = [left EXCEPT ![p] = @ \ {i}]
    BY <1>2 DEF Governs
  <2>2. i \in Ids
    BY <1>2 DEF Governs, PfShape, PfTypeOK, JobFits, At
  <2>3. QED
    BY <1>2, <2>1, <2>2 DEF Governs, PfShape, PfTypeOK, JobFits, Goto, At, Places, counters
<1>3. CASE Evaluates(p)
  <2>1. job[p].id \in Ids /\ job[p].verdict \in {"KILLED", "PAUSED", "ACTIVE"}
    BY <1>3, PortfolioAssumption DEF Evaluates, PfShape, JobFits, At
  <2>2. life' \in LifeType
    BY <1>3, <2>1, TransitionType DEF Evaluates, PfShape, Lives
  <2>3. QED
    BY <1>3, <2>1, <2>2
    DEF Evaluates, PfShape, PfTypeOK, JobFits, Goto, At, Places, counters, LifeType
<1>4. CASE StoresReceipt(p)
  <2>1. receipts' \subseteq Jobs
    BY <1>4 DEF StoresReceipt, PfShape, PfTypeOK, JobFits, At
  <2>2. QED
    BY <1>4, <2>1, EndsShape DEF StoresReceipt, PfShape, PfTypeOK, counters
<1>5. CASE IsCutOff(p)
  <2>1. cutOff' \subseteq (ReviewJobs \cup MaintainJobs) \X Ids /\ cuts' \in Nat
    BY <1>5 DEF IsCutOff, PfShape, PfTypeOK, JobFits
  <2>2. QED
    BY <1>5, <2>1, EndsShape DEF IsCutOff, PfShape, PfTypeOK, dbVars
<1>6. QED
  BY <1>1, <1>2, <1>3, <1>4, <1>5

LEMMA ShapeAtStep ==
  ASSUME PfShape, [PfNext]_pfVars
  PROVE  PfShape'
<1>1. CASE UNCHANGED pfVars
  BY <1>1
  DEF pfVars, dbVars, localVars, counters, PfShape, PfTypeOK, JobFits
<1>2. QED
  BY <1>1, StartsShape, CreateShape, ReviewShape, DecideShape DEF PfNext

(* Types of the projects' rows, the decisions and the workers' places.     *)
THEOREM PortfolioTypeCorrect == PfSpec => []PfTypeOK
<1>1. PfShape => PfTypeOK
  BY DEF PfShape
<1>2. QED
  BY <1>1, ShapeAtInit, ShapeAtStep, PTL DEF PfSpec

LEMMA ShapeHolds == PfSpec => []PfShape
BY ShapeAtInit, ShapeAtStep, PTL DEF PfSpec

-----------------------------------------------------------------------------
(* What no other worker may touch: the project that create_project is still *)
(* completing carries its worker's id, and each handler that pauses or     *)
(* kills asks for that.                                                    *)
Untouched ==
  /\ \A i \in Ids : plan[i] = NoPlan => life[i].state = "none" /\ owner[i] = NoOne
  /\ \A p \in Workers : pc[p] \in {"part", "activate"} =>
       mine[p] \in Projects /\ owner[mine[p]] = p /\ life[mine[p]].state = "INCUBATOR"

PauseKept ==
  \A i \in Ids : life[i].state \in {"PAUSED", "KILLED"} =>
    life'[i].state \in {"PAUSED", "KILLED"} \/ life'[i].reason = "evidence"

LEMMA UntouchedAtStep ==
  ASSUME PfShape, Untouched, [PfNext]_pfVars
  PROVE  Untouched' /\ PauseKept
<1> USE DEF PfShape, PfTypeOK, JobFits, Untouched, PauseKept, Projects, Goto, At
<1>1. CASE UNCHANGED <<plan, owner, life, mine>> /\ \A q \in Workers :
             pc'[q] \in {"part", "activate"} => pc[q] \in {"part", "activate"}
  BY <1>1
<1>2. ASSUME NEW p \in Workers, NEW j \in Jobs, Starts(p, j) PROVE Untouched' /\ PauseKept
  <2>1. pc'[p] \in {"record", "rank", "evaluate"}
    <3>1. j \in CreateJobs \cup RecordJobs \cup ReviewJobs \cup MaintainJobs \cup EvaluateJobs
      BY PortfolioAssumption
    <3>2. CASE j \in CreateJobs \cup RecordJobs
      BY <1>2, <3>2 DEF Starts, CreateJobs, RecordJobs, ReviewJobs, MaintainJobs, EvaluateJobs
    <3>3. CASE j \in ReviewJobs \cup MaintainJobs
      BY <1>2, <3>3 DEF Starts, CreateJobs, RecordJobs, ReviewJobs, MaintainJobs, EvaluateJobs
    <3>4. CASE j \in EvaluateJobs
      BY <1>2, <3>4 DEF Starts, CreateJobs, RecordJobs, ReviewJobs, MaintainJobs, EvaluateJobs
    <3>5. QED
      BY <3>1, <3>2, <3>3, <3>4
  <2>2. \A q \in Workers : q # p => pc'[q] = pc[q]
    BY <1>2 DEF Starts
  <2>3. UNCHANGED <<plan, owner, life, mine>>
    BY <1>2 DEF Starts, dbVars, localVars
  <2>4. QED
    BY <1>1, <2>1, <2>2, <2>3
<1>3. ASSUME NEW p \in Workers, Records(p) PROVE Untouched' /\ PauseKept
  <2>1. PICK i \in Ids \ Projects :
          /\ plan'  = [plan EXCEPT ![i] = job[p].plan]
          /\ owner' = [owner EXCEPT ![i] = IF job[p] \in CreateJobs THEN p ELSE NoOne]
          /\ mine'  = [mine EXCEPT ![p] = i]
          /\ Transition(i, "INCUBATOR", "created", 0)
    BY <1>3 DEF Records
  <2>2. job[p].plan # NoPlan
    BY <1>3, PortfolioAssumption DEF Records
  <2>3. job[p] \in CreateJobs \/ pc'[p] = "receipt"
    BY <1>3 DEF Records
  <2>4. pc' = [pc EXCEPT ![p] = pc'[p]]
    BY <1>3 DEF Records
  <2>5. PauseKept
    BY <2>1 DEF Transition
  <2>6. \A k \in Ids : plan'[k] = NoPlan => life'[k].state = "none" /\ owner'[k] = NoOne
    BY <2>1, <2>2 DEF Transition
  <2>7. ASSUME NEW q \in Workers, pc'[q] \in {"part", "activate"}
        PROVE  mine'[q] \in Projects' /\ owner'[mine'[q]] = q
                 /\ life'[mine'[q]].state = "INCUBATOR"
    <3>1. CASE q = p
      BY <2>1, <2>2, <2>3, <2>7, <3>1 DEF Transition
    <3>2. CASE q # p
      BY <2>1, <2>2, <2>4, <2>7, <3>2 DEF Transition
    <3>3. QED
      BY <3>1, <3>2
  <2>8. QED
    BY <2>5, <2>6, <2>7
<1>4. ASSUME NEW p \in Workers, AddsPart(p) PROVE Untouched' /\ PauseKept
  BY <1>1, <1>4 DEF AddsPart, dbVars
<1>5. ASSUME NEW p \in Workers, Activates(p) PROVE Untouched' /\ PauseKept
  BY <1>5 DEF Activates, Transition, localVars
<1>6. ASSUME NEW p \in Workers, Refuses(p) \/ StoresReceipt(p) \/ IsCutOff(p)
      PROVE  Untouched' /\ PauseKept
  BY <1>6 DEF Refuses, StoresReceipt, IsCutOff, Ends, dbVars
<1>7. ASSUME NEW p \in Workers, Ranks(p) \/ Decides(p) \/ Governs(p)
      PROVE  Untouched' /\ PauseKept
  BY <1>7 DEF Ranks, Decides, Governs, dbVars
<1>8. ASSUME NEW p \in Workers, Judges(p) PROVE Untouched' /\ PauseKept
  <2>1. /\ UNCHANGED <<plan, owner, mine>> /\ pc[p] = "judge"
        /\ \A q \in Workers : pc'[q] \in {"part", "activate"} => pc[q] = pc'[q] /\ q # p
    BY <1>8 DEF Judges
  <2>2. CASE UNCHANGED life
    BY <2>1, <2>2
  <2>3. ASSUME NEW i \in Ids, owner[i] = p, plan[i] # NoPlan,
               Transition(i, "PAUSED", Verdict(p, i), LimitOf(p, i))
        PROVE  Untouched' /\ PauseKept
    BY <2>1, <2>3 DEF Transition
  <2>4. \/ UNCHANGED life
        \/ \E i \in Ids : /\ owner[i] = p /\ plan[i] # NoPlan
                         /\ Transition(i, "PAUSED", Verdict(p, i), LimitOf(p, i))
    BY <1>8, PortfolioAssumption DEF Judges, AgentOwned
  <2>5. QED
    BY <2>2, <2>3, <2>4
<1>9. ASSUME NEW p \in Workers, Evaluates(p) PROVE Untouched' /\ PauseKept
  <2>1. job[p].id \in Projects /\ owner[job[p].id] = p
    BY <1>9 DEF Evaluates, Acceptable, AgentOwned
  <2>2. QED
    BY <1>9, <2>1 DEF Evaluates, Transition
<1>10. CASE UNCHANGED pfVars
  BY <1>1, <1>10 DEF pfVars, dbVars, localVars
<1>11. QED
  BY <1>2, <1>3, <1>4, <1>5, <1>6, <1>7, <1>8, <1>9, <1>10 DEF PfNext

(* "Ownership checks ... agent-only pause/kill" (ACCEPTANCE_AUDIT.md): what *)
(* was paused or killed becomes live again only upon evidence, for any     *)
(* number of workers with ids of their own.                                *)
THEOREM PausedStaysPaused == PfSpec => PausesAreKept
<1>1. PfInit => Untouched
  BY DEF PfInit, Untouched
<1>2. PfShape /\ Untouched /\ [PfNext]_pfVars =>
        [\A i \in Ids : life[i].state \in {"PAUSED", "KILLED"} =>
           life'[i].state \in {"PAUSED", "KILLED"} \/ life'[i].reason = "evidence"]_pfVars
  BY UntouchedAtStep DEF PauseKept
<1>3. PfShape /\ Untouched /\ [PfNext]_pfVars => Untouched'
  BY UntouchedAtStep
<1>4. QED
  BY <1>1, <1>2, <1>3, ShapeHolds, PTL DEF PfSpec, PausesAreKept

-----------------------------------------------------------------------------
(* A review ranks what is a project, and goes on being one.                *)
Caused ==
  /\ PausedForCause
  /\ \A i \in Ids : plan[i] = NoPlan => life[i].reason = "none"
  /\ \A p \in Workers : pc[p] = "judge" => ranked[p] \subseteq Projects

Rivals(i) == {k \in Projects : Better(k, i)}

LEMMA RivalsRemain ==
  ASSUME PfShape, NEW i \in Projects, NEW c \in Nat, Cardinality(Rivals(i)) >= c,
         plan'[i] = plan[i], \A k \in Projects : k \in Projects' /\ plan'[k] = plan[k]
  PROVE  Cardinality(Rivals(i)') >= c
<1>1. Rivals(i) \subseteq Rivals(i)'
  BY DEF Rivals, Better
<1>2. IsFiniteSet(Rivals(i)')
  BY PortfolioAssumption, FS_Subset DEF Rivals, Projects
<1> DEFINE R == Rivals(i)
           S == Rivals(i)'
<1>3. IsFiniteSet(R) /\ Cardinality(R) <= Cardinality(S)
  <2> HIDE DEF R, S
  <2>1. R \in SUBSET S /\ IsFiniteSet(S)
    BY <1>1, <1>2 DEF R, S
  <2>2. QED
    BY <2>1, FS_Subset
<1>4. Cardinality(R) \in Nat /\ Cardinality(S) \in Nat
  BY <1>2, <1>3, FS_CardinalityType
<1>5. QED
  BY <1>3, <1>4

Unjudged(i) == i \in Projects /\ life[i].reason \notin {"fit", "capacity"}

(* Nothing but a review pauses for its fit or for capacity.                *)
LEMMA CausedUnlessJudged ==
  ASSUME PfShape, Caused,
         \A i \in Projects : i \in Projects' /\ plan'[i] = plan[i],
         \A i \in Ids : life'[i] = life[i] \/ Unjudged(i)',
         \A p \in Workers : pc'[p] = "judge" => ranked'[p] \subseteq Projects'
  PROVE  Caused'
<1>1. \A i \in Ids : plan'[i] = NoPlan => life'[i].reason = "none"
  BY DEF Caused, Projects, Unjudged
<1>2. ASSUME NEW i \in Ids, life'[i].reason \in {"fit", "capacity"}
      PROVE  /\ life'[i].reason = "fit" => Fit[plan'[i]] < life'[i].limit
             /\ life'[i].reason = "capacity" =>
                  Cardinality(Rivals(i)') >= life'[i].limit
  <2>1. life'[i] = life[i] /\ i \in Projects /\ plan'[i] = plan[i]
    BY <1>2 DEF Caused, Projects, Unjudged
  <2>2. CASE life[i].reason = "fit"
    BY <2>1, <2>2 DEF Caused, PausedForCause
  <2>3. CASE life[i].reason = "capacity"
    <3>1. Cardinality(Rivals(i)) >= life[i].limit
      BY <2>1, <2>3 DEF Caused, PausedForCause, Rivals
    <3>2. life[i].limit \in Nat
      BY DEF PfShape, PfTypeOK
    <3>3. Cardinality(Rivals(i)') >= life[i].limit
      BY <2>1, <3>1, <3>2, RivalsRemain
    <3>4. QED
      BY <2>1, <2>3, <3>3
  <2>4. QED
    BY <1>2, <2>1, <2>2, <2>3
<1>3. PausedForCause'
  BY <1>2 DEF PausedForCause, Rivals
<1>4. QED
  BY <1>1, <1>3 DEF Caused

(* A verdict is right when it is passed: those ranked above are projects.  *)
LEMMA VerdictHasCause ==
  ASSUME PfShape, Caused, NEW p \in Workers, pc[p] = "judge", NEW i \in ranked[p]
  PROVE  /\ Verdict(p, i) = "fit" => Fit[plan[i]] < LimitOf(p, i)
         /\ Verdict(p, i) = "capacity" => Cardinality(Rivals(i)) >= LimitOf(p, i)
<1> DEFINE above == {k \in ranked[p] : Better(k, i)}
           R     == Rivals(i)
           c     == job[p].cap
<1>1. Verdict(p, i) = "fit" => Fit[plan[i]] < LimitOf(p, i)
  BY DEF Verdict, LimitOf
<1>2. c \in Nat
  BY PortfolioAssumption DEF PfShape, JobFits
<1>3. above \subseteq R /\ IsFiniteSet(R)
  <2>1. above \subseteq R /\ R \subseteq Ids
    BY DEF Caused, Rivals, Projects
  <2> HIDE DEF R
  <2>2. QED
    BY <2>1, PortfolioAssumption, FS_Subset
<1>4. Cardinality(above) \in Nat /\ Cardinality(R) \in Nat /\ Cardinality(above) <= Cardinality(R)
  <2> HIDE DEF above, R
  <2>1. above \in SUBSET R
    BY <1>3
  <2>2. QED
    BY <1>3, <2>1, FS_Subset, FS_CardinalityType
<1>5. Verdict(p, i) = "capacity" => 1 + Cardinality(above) > c
  BY DEF Verdict, Position
<1>6. Verdict(p, i) = "capacity" => Cardinality(R) >= c
  <2> HIDE DEF above, R, c
  <2>1. QED  BY <1>2, <1>4, <1>5
<1>7. QED
  BY <1>1, <1>6 DEF LimitOf

LEMMA CausedAtStep ==
  ASSUME PfShape, Untouched, Caused, [PfNext]_pfVars
  PROVE  Caused'
<1>0. PfTypeOK
  BY DEF PfShape
<1>1. ASSUME UNCHANGED <<plan, life>>,
             \A q \in Workers : pc'[q] = "judge" => pc[q] = "judge" /\ ranked'[q] = ranked[q]
      PROVE  Caused'
  <2>1. \A i \in Projects : i \in Projects' /\ plan'[i] = plan[i]
    BY <1>1 DEF Projects
  <2>2. \A q \in Workers : pc'[q] = "judge" => ranked'[q] \subseteq Projects'
    BY <1>0, <1>1 DEF Caused, PfTypeOK, Projects, Goto, At
  <2>3. QED
    BY <1>1, <2>1, <2>2, CausedUnlessJudged
<1>2. ASSUME NEW p \in Workers, NEW j \in Jobs, Starts(p, j) PROVE Caused'
  <2>1. pc'[p] # "judge"
    <3>1. j \in CreateJobs \cup RecordJobs \cup ReviewJobs \cup MaintainJobs \cup EvaluateJobs
      BY PortfolioAssumption DEF Projects
    <3>2. CASE j \in CreateJobs \cup RecordJobs
      BY <1>0, <1>2, <3>2 DEF Starts, CreateJobs, RecordJobs, ReviewJobs, MaintainJobs, EvaluateJobs, PfTypeOK, Projects, Goto, At
    <3>3. CASE j \in ReviewJobs \cup MaintainJobs
      BY <1>0, <1>2, <3>3 DEF Starts, CreateJobs, RecordJobs, ReviewJobs, MaintainJobs, EvaluateJobs, PfTypeOK, Projects, Goto, At
    <3>4. CASE j \in EvaluateJobs
      BY <1>0, <1>2, <3>4 DEF Starts, CreateJobs, RecordJobs, ReviewJobs, MaintainJobs, EvaluateJobs, PfTypeOK, Projects, Goto, At
    <3>5. QED
      BY <3>1, <3>2, <3>3, <3>4 DEF Projects
  <2>2. \A q \in Workers : q # p => pc'[q] = pc[q]
    BY <1>0, <1>2 DEF Starts, PfTypeOK, Projects, Goto, At
  <2>3. UNCHANGED <<plan, life, ranked>>
    BY <1>0, <1>2 DEF Starts, dbVars, localVars, PfTypeOK, Projects, Goto, At
  <2>4. QED
    BY <1>1, <2>1, <2>2, <2>3 DEF Projects
<1>3. ASSUME NEW p \in Workers, Records(p) PROVE Caused'
  <2>1. PICK i \in Ids \ Projects : /\ plan' = [plan EXCEPT ![i] = job[p].plan]
                                    /\ Transition(i, "INCUBATOR", "created", 0)
    BY <1>0, <1>3 DEF Records, PfTypeOK, Projects, Goto, At
  <2>2. job[p].plan # NoPlan
    BY <1>3, PortfolioAssumption DEF Records, PfShape, JobFits, At, CreateJobs, RecordJobs
  <2>3. \A k \in Projects : k \in Projects' /\ plan'[k] = plan[k]
    BY <2>1 DEF Projects
  <2>4. \A k \in Ids : life'[k] = life[k] \/ Unjudged(k)'
    <3>1. i \in Projects'
      BY <1>0, <2>1, <2>2 DEF Projects, PfTypeOK
    <3>2. QED
      BY <1>0, <2>1, <3>1, TransitionRow DEF Unjudged
  <2>5. \A q \in Workers : pc'[q] = "judge" => ranked'[q] \subseteq Projects'
    BY <1>0, <1>3, <2>3 DEF Records, Caused, PfTypeOK, Projects, Goto, At
  <2>6. QED
    BY <2>3, <2>4, <2>5, CausedUnlessJudged
<1>4. ASSUME NEW p \in Workers, AddsPart(p) PROVE Caused'
  BY <1>0, <1>1, <1>4 DEF AddsPart, dbVars, PfTypeOK, Projects, Goto, At
<1>5. ASSUME NEW p \in Workers, Activates(p) PROVE Caused'
  <2>1. \A k \in Ids : life'[k] = life[k] \/ Unjudged(k)'
    BY <1>5, <1>0, TransitionRow DEF Activates, Untouched, Projects, At, Unjudged
  <2>2. \A q \in Workers : pc'[q] = "judge" => ranked'[q] \subseteq Projects'
    BY <1>0, <1>5 DEF Activates, localVars, Caused, PfTypeOK, Projects, Goto, At
  <2>3. QED
    <3>1. \A k \in Projects : k \in Projects' /\ plan'[k] = plan[k]
      BY <1>5 DEF Activates, Projects
    <3>2. QED
      BY <2>1, <2>2, <3>1, CausedUnlessJudged
<1>6. ASSUME NEW p \in Workers, Refuses(p) \/ StoresReceipt(p) \/ IsCutOff(p) PROVE Caused'
  BY <1>0, <1>1, <1>6 DEF Refuses, StoresReceipt, IsCutOff, Ends, dbVars, PfTypeOK, Projects, Goto, At
<1>7. ASSUME NEW p \in Workers, Ranks(p) PROVE Caused'
  <2> DEFINE S == IF job[p] \in ReviewJobs THEN job[p].ids ELSE Live \cap Measured
  <2>1. S \subseteq Projects
    BY <1>0, <1>7 DEF Ranks, Acceptable, Live, Measured, PfTypeOK, Projects, Goto, At
  <2>2. ranked' = [ranked EXCEPT ![p] = S] /\ UNCHANGED <<plan, life>>
          /\ \A q \in Workers : q # p => pc'[q] = pc[q]
    BY <1>0, <1>7 DEF Ranks, dbVars, PfTypeOK, Projects, Goto, At
  <2> HIDE DEF S
  <2>3. \A q \in Workers : pc'[q] = "judge" => ranked'[q] \subseteq Projects'
    BY <1>0, <2>1, <2>2 DEF Caused, PfTypeOK, Projects, Goto, At
  <2>4. \A k \in Projects : k \in Projects' /\ plan'[k] = plan[k]
    BY <2>2 DEF Projects
  <2>5. \A k \in Ids : life'[k] = life[k]
    BY <2>2 DEF Projects
  <2>6. QED
    BY <2>3, <2>4, <2>5, CausedUnlessJudged
<1>8. ASSUME NEW p \in Workers, Decides(p) \/ Governs(p) PROVE Caused'
  BY <1>0, <1>1, <1>8 DEF Decides, Governs, dbVars, PfTypeOK, Projects, Goto, At
<1>9. ASSUME NEW p \in Workers, Judges(p) PROVE Caused'
  <2>1. /\ UNCHANGED <<plan, ranked>> /\ pc[p] = "judge"
        /\ \A q \in Workers : pc'[q] = "judge" => pc[q] = "judge"
    BY <1>0, <1>9 DEF Judges, PfTypeOK, Projects, Goto, At
  <2>2. CASE UNCHANGED life
    BY <1>1, <2>1, <2>2 DEF Projects
  <2>3. ASSUME NEW i \in ranked[p], Verdict(p, i) \in {"fit", "capacity"},
               Transition(i, "PAUSED", Verdict(p, i), LimitOf(p, i))
        PROVE  Caused'
    <3>1. i \in Projects
      BY <1>0, <2>1, <2>3 DEF Caused, PfTypeOK, Projects, Goto, At
    <3>2. \A k \in Ids : Rivals(k)' = Rivals(k)
      BY <1>0, <2>1 DEF Rivals, Better, PfTypeOK, Projects, Goto, At
    <3>3. /\ life'[i].reason = Verdict(p, i) /\ life'[i].limit = LimitOf(p, i)
          /\ \A k \in Ids \ {i} : life'[k] = life[k]
      BY <1>0, <2>3, <3>1 DEF Transition, PfTypeOK, Projects, Goto, At
    <3>4. /\ Verdict(p, i) = "fit" => Fit[plan[i]] < LimitOf(p, i)
          /\ Verdict(p, i) = "capacity" => Cardinality(Rivals(i)) >= LimitOf(p, i)
      BY <2>1, <2>3, VerdictHasCause
    <3>5. ASSUME NEW k \in Ids
          PROVE  /\ life'[k].reason = "fit" => Fit[plan'[k]] < life'[k].limit
                 /\ life'[k].reason = "capacity" =>
                      Cardinality(Rivals(k)') >= life'[k].limit
      <4>1. CASE k = i
        BY <2>1, <3>2, <3>3, <3>4, <4>1 DEF Projects
      <4>2. CASE k # i
        BY <1>0, <2>1, <3>2, <3>3, <4>2 DEF Caused, PausedForCause, Rivals, PfTypeOK, Projects, Goto, At
      <4>3. QED
        BY <4>1, <4>2 DEF Projects
    <3>6. PausedForCause'
      BY <1>0, <3>5 DEF PausedForCause, Rivals, PfTypeOK, Projects, Goto, At
    <3>7. QED
      BY <1>0, <2>1, <3>1, <3>3, <3>6 DEF Caused, PfTypeOK, Projects, Goto, At
  <2>4. \/ UNCHANGED life
        \/ \E i \in ranked[p] : /\ Verdict(p, i) \in {"fit", "capacity"}
                               /\ Transition(i, "PAUSED", Verdict(p, i), LimitOf(p, i))
    BY <1>9 DEF Judges, Verdict, PfShape, JobFits, At
  <2>5. QED
    BY <2>2, <2>3, <2>4 DEF Projects
<1>10. ASSUME NEW p \in Workers, Evaluates(p) PROVE Caused'
  <2>1. job[p].id \in Projects
    BY <1>10 DEF Evaluates, Acceptable, PfShape, JobFits, At
  <2>2. \A k \in Ids : life'[k] = life[k] \/ Unjudged(k)'
    BY <1>10, <2>1, <1>0, TransitionRow DEF Evaluates, Projects, At, Unjudged
  <2>3. \A q \in Workers : pc'[q] = "judge" => ranked'[q] \subseteq Projects'
    BY <1>0, <1>10 DEF Evaluates, Caused, PfTypeOK, Projects, Goto, At
  <2>4. QED
    <3>1. \A k \in Projects : k \in Projects' /\ plan'[k] = plan[k]
      BY <1>10 DEF Evaluates, Projects
    <3>2. QED
      BY <2>2, <2>3, <3>1, CausedUnlessJudged
<1>11. CASE UNCHANGED pfVars
  BY <1>0, <1>1, <1>11 DEF pfVars, dbVars, localVars, PfTypeOK, Projects, Goto, At
<1>12. QED
  BY <1>2, <1>3, <1>4, <1>5, <1>6, <1>7, <1>8, <1>9, <1>10, <1>11 DEF PfNext

(* A project is paused only for a fit below the threshold of the review    *)
(* that paused it, or because as many better ones exist as that review had *)
(* room for, whatever the other reviews' limits are.                       *)
THEOREM PausedOnlyForCause == PfSpec => []PausedForCause
<1>1. PfInit => Untouched /\ Caused
  BY DEF PfInit, Untouched, Caused, PausedForCause
<1>2. PfShape /\ Untouched /\ Caused /\ [PfNext]_pfVars => Untouched' /\ Caused'
  BY UntouchedAtStep, CausedAtStep
<1>3. Caused => PausedForCause
  BY DEF Caused
<1>4. QED
  BY <1>1, <1>2, <1>3, ShapeHolds, PTL DEF PfSpec
-----------------------------------------------------------------------------
(* What a review ranks and pauses it carries to its decision, and from     *)
(* there to the links of that decision; a repetition ranks the same again. *)
Carries(p) ==
  /\ pc[p] \in {"record", "part", "activate", "rank", "evaluate"} => changed[p] = {}
  /\ changed[p] \subseteq ranked[p]
  /\ pc[p] \in {"judge", "decide", "govern", "receipt"} /\ job[p] \in ReviewJobs =>
       ranked[p] = job[p].ids
  /\ pc[p] = "govern" => \A i \in ranked[p] : i \in left[p] \/ <<mine[p], i>> \in governs
  /\ pc[p] = "receipt" /\ job[p] \in ReviewJobs \cup MaintainJobs =>
       \A i \in ranked[p] : <<mine[p], i>> \in governs
  /\ \/ pc[p] = "govern"
     \/ pc[p] = "receipt" /\ job[p] \in ReviewJobs \cup MaintainJobs /\ ranked[p] # {}
     => \E d \in decisions :
          d.number = mine[p] /\ d.ranked = ranked[p] /\ d.paused = changed[p]

RankedBy(j, i) == \E d \in decisions : d.ranked = j.ids /\ <<d.number, i>> \in governs

Listed(i) ==
  \/ ListedAsPaused(i)
  \/ \E p \in Workers : i \in changed[p]
  \/ \E j \in ReviewJobs \cup MaintainJobs : <<j, i>> \in cutOff

Carried ==
  /\ \A i \in Ids : life[i].reason \in {"fit", "capacity"} => Listed(i)
  /\ \A j \in ReviewJobs, i \in Ids : <<j, i>> \in cutOff => i \in j.ids
  /\ \A j \in ReviewJobs \cap receipts : \A i \in j.ids : RankedBy(j, i)
  /\ \A p \in Workers : Carries(p)

LEMMA CarriedIsGoverned ==
  ASSUME Carried
  PROVE  PausesAreGoverned
<1>1. ASSUME NEW i \in Ids, NEW j \in ReviewJobs, <<j, i>> \in cutOff
      PROVE  Undecided(i) \/ RankedAgain(i)
  BY <1>1 DEF Carried, Undecided, RankedAgain, RankedBy, ReviewJobs
<1>2. \A i \in Ids : Listed(i) => \/ ListedAsPaused(i) \/ Undecided(i) \/ RankedAgain(i)
                                \/ \E j \in MaintainJobs : <<j, i>> \in cutOff
  BY <1>1 DEF Listed, Undecided
<1>3. QED
  BY <1>2 DEF Carried, PausesAreGoverned

(* Decisions and their links stay; only who ends a job forgets what it     *)
(* paused.                                                                 *)
LEMMA ListedRemains ==
  ASSUME NEW i, Listed(i), decisions \subseteq decisions', governs \subseteq governs',
         cutOff \subseteq cutOff',
         \A p \in Workers : i \in changed[p] => Listed(i)'
  PROVE  Listed(i)'
<1>1. ListedAsPaused(i) => ListedAsPaused(i)'
  BY DEF ListedAsPaused
<1>2. QED
  BY <1>1 DEF Listed

LEMMA GovernedUnlessJudged ==
  ASSUME Carried, decisions \subseteq decisions', governs \subseteq governs',
         cutOff \subseteq cutOff',
         \A p \in Workers : \A i \in Ids : i \in changed[p] => Listed(i)',
         \A i \in Ids : life'[i] = life[i] \/ life'[i].reason \notin {"fit", "capacity"}
                        \/ Listed(i)'
  PROVE  \A i \in Ids : life'[i].reason \in {"fit", "capacity"} => Listed(i)'
<1>1. SUFFICES ASSUME NEW i \in Ids, life'[i].reason \in {"fit", "capacity"}
               PROVE  Listed(i)'
  OBVIOUS
<1>2. CASE life'[i] = life[i]
  <2>1. Listed(i)
    BY <1>1, <1>2 DEF Carried
  <2>2. QED
    BY <2>1, ListedRemains
<1>3. CASE life'[i] # life[i]
  BY <1>1, <1>3
<1>4. QED
  BY <1>2, <1>3

LEMMA CarriesElsewhere ==
  ASSUME NEW q \in Workers, Carries(q), decisions \subseteq decisions', governs \subseteq governs',
         pc'[q] = pc[q], mine'[q] = mine[q], ranked'[q] = ranked[q], left'[q] = left[q],
         changed'[q] = changed[q], job'[q] = job[q]
  PROVE  Carries(q)'
BY DEF Carries

(* The actions after which every worker still has what it paused.          *)
LEMMA GovernedIfKept ==
  ASSUME PfShape, Carried, decisions \subseteq decisions', governs \subseteq governs',
         cutOff' = cutOff, receipts' = receipts,
         \A q \in Workers : changed[q] \subseteq changed'[q],
         \A i \in Ids : life'[i] = life[i] \/ life'[i].reason \notin {"fit", "capacity"}
                        \/ Listed(i)'
  PROVE  /\ \A i \in Ids : life'[i].reason \in {"fit", "capacity"} => Listed(i)'
         /\ \A j \in ReviewJobs, i \in Ids : <<j, i>> \in cutOff' => i \in j.ids
         /\ \A j \in ReviewJobs \cap receipts' : \A i \in j.ids : RankedBy(j, i)'
<1>1. \A q \in Workers : \A i \in Ids : i \in changed[q] => Listed(i)'
  BY DEF Listed
<1>2. \A j \in ReviewJobs : \A i \in j.ids : RankedBy(j, i) => RankedBy(j, i)'
  BY DEF RankedBy
<1>3. QED
  BY <1>1, <1>2, GovernedUnlessJudged DEF Carried

LEMMA CarriedAtReview ==
  ASSUME PfShape, Carried, NEW p \in Workers, Ranks(p) \/ Judges(p)
  PROVE  Carried'
<1>1. /\ UNCHANGED <<decisions, governs, receipts, job, mine, cutOff>>
      /\ pc[p] \in {"rank", "judge"}
      /\ \A q \in Workers \ {p} : /\ pc'[q] = pc[q] /\ ranked'[q] = ranked[q]
                                  /\ left'[q] = left[q] /\ changed'[q] = changed[q]
  BY DEF Ranks, Judges, PfShape, PfTypeOK, At, Goto, dbVars
<1>2. \A q \in Workers \ {p} : Carries(q)'
  BY <1>1, CarriesElsewhere DEF Carried
<1>3. CASE Ranks(p)
  <2>1. /\ changed[p] = {} /\ UNCHANGED <<changed, life>>
        /\ pc'[p] = IF ranked'[p] = {} THEN "receipt" ELSE "judge"
        /\ job[p] \in ReviewJobs => ranked'[p] = job[p].ids
    BY <1>3 DEF Ranks, Carried, Carries, PfShape, PfTypeOK, At, Goto, dbVars
  <2>2. Carries(p)'
    BY <1>1, <2>1 DEF Carries
  <2>3. QED
    BY <1>1, <1>2, <2>1, <2>2, GovernedIfKept DEF Carried
<1>4. CASE Judges(p)
  <2>1. PICK i \in left[p] :
          IF Verdict(p, i) # "prioritize" /\ AgentOwned(p, i)
            THEN /\ Transition(i, "PAUSED", Verdict(p, i), LimitOf(p, i))
                 /\ changed' = [changed EXCEPT ![p] = @ \cup {i}]
            ELSE UNCHANGED <<life, changed>>
    BY <1>4 DEF Judges
  <2>2. /\ pc'[p] \in {"decide", "judge"} /\ ranked'[p] = ranked[p]
        /\ i \in ranked[p] /\ i \in Ids
    BY <1>4 DEF Judges, PfShape, PfTypeOK, JobFits, At, Goto
  <2>3. \/ UNCHANGED <<life, changed>>
        \/ /\ changed'[p] = changed[p] \cup {i}
           /\ \A k \in Ids \ {i} : life'[k] = life[k]
    BY <2>1, <2>2, TransitionRow DEF PfShape, PfTypeOK
  <2>4. Carries(p)'
    BY <1>1, <1>4, <2>2, <2>3 DEF Carried, Carries, Judges, At
  <2>5. \A k \in Ids : life'[k] = life[k] \/ Listed(k)'
    BY <2>2, <2>3 DEF Listed
  <2>6. \A q \in Workers : changed[q] \subseteq changed'[q]
    BY <1>1, <2>3
  <2>7. QED
    BY <1>1, <1>2, <2>4, <2>5, <2>6, GovernedIfKept DEF Carried
<1>5. QED
  BY <1>3, <1>4

LEMMA CarriedAtDecision ==
  ASSUME PfShape, Carried, NEW p \in Workers, Decides(p) \/ Governs(p)
  PROVE  Carried'
<1>1. /\ UNCHANGED <<life, receipts, job, ranked, changed, cutOff>>
      /\ decisions \subseteq decisions' /\ governs \subseteq governs'
      /\ \A q \in Workers \ {p} : /\ pc'[q] = pc[q] /\ mine'[q] = mine[q]
                                  /\ left'[q] = left[q]
  BY DEF Decides, Governs, PfShape, PfTypeOK, At, Goto, dbVars
<1>2. \A q \in Workers \ {p} : Carries(q)'
  BY <1>1, CarriesElsewhere DEF Carried
<1>3. ASSUME Carries(p)' PROVE Carried'
  BY <1>1, <1>2, <1>3, GovernedIfKept DEF Carried
<1>4. CASE Decides(p)
  <2> DEFINE n == Cardinality(decisions) + 1
             d == [number |-> n, ranked |-> ranked[p], paused |-> changed[p]]
  <2>1. /\ d \in decisions' /\ mine'[p] = n /\ left'[p] = ranked[p] /\ pc'[p] = "govern"
        /\ pc[p] = "decide"
    BY <1>4 DEF Decides, PfShape, PfTypeOK, At, Goto
  <2>2. d.number = n /\ d.ranked = ranked[p] /\ d.paused = changed[p]
    OBVIOUS
  <2> HIDE DEF d, n
  <2>3. Carries(p)'
    BY <1>1, <2>1, <2>2 DEF Carried, Carries
  <2>4. QED
    BY <1>3, <2>3
<1>5. CASE Governs(p)
  <2>1. PICK i \in left[p] : /\ governs' = governs \cup {<<mine[p], i>>}
                             /\ left' = [left EXCEPT ![p] = @ \ {i}]
    BY <1>5 DEF Governs
  <2>2. /\ pc[p] = "govern" /\ UNCHANGED <<decisions, mine>> /\ left'[p] = left[p] \ {i}
        /\ pc'[p] = IF Cardinality(left[p]) = 1 THEN "receipt" ELSE "govern"
    BY <1>5, <2>1 DEF Governs, PfShape, PfTypeOK, At, Goto
  <2>3. \A k \in ranked[p] : k \in left'[p] \/ <<mine[p], k>> \in governs'
    BY <2>1, <2>2 DEF Carried, Carries
  <2>4. pc'[p] = "receipt" => left'[p] = {}
    <3>1. left[p] \in SUBSET Ids
      BY <2>2 DEF PfShape, PfTypeOK, JobFits
    <3>2. IsFiniteSet(left[p])
      BY <3>1, PortfolioAssumption, FS_Subset
    <3>3. Cardinality(left[p]) = 1 => \E x : left[p] = {x}
      BY <3>2, FS_Singleton
    <3>4. QED
      BY <2>1, <2>2, <3>3
  <2>5. Carries(p)'
    BY <1>1, <2>2, <2>3, <2>4 DEF Carried, Carries
  <2>6. QED
    BY <1>3, <2>5
<1>6. QED
  BY <1>4, <1>5

LEMMA CarriedAtCreation ==
  ASSUME PfShape, Untouched, Carried, NEW p \in Workers,
         Records(p) \/ AddsPart(p) \/ Activates(p) \/ Evaluates(p)
  PROVE  Carried'
<1>1. /\ UNCHANGED <<decisions, governs, receipts, job, changed, cutOff>>
      /\ pc[p] \in {"record", "part", "activate", "evaluate"}
      /\ \A q \in Workers \ {p} : /\ pc'[q] = pc[q] /\ ranked'[q] = ranked[q]
                                  /\ left'[q] = left[q] /\ mine'[q] = mine[q]
  BY DEF Records, AddsPart, Activates, Evaluates, PfShape, PfTypeOK, At, Goto, dbVars, localVars
<1>2. \A q \in Workers \ {p} : Carries(q)'
  BY <1>1, CarriesElsewhere DEF Carried
<1>3. Carries(p)'
  <2>1. changed'[p] = {}
    BY <1>1 DEF Carried, Carries
  <2>2. /\ job[p] \notin ReviewJobs \cup MaintainJobs
        /\ pc'[p] \in {"part", "activate", "receipt", "decide"}
    BY DEF Records, AddsPart, Activates, Evaluates, PfShape, PfTypeOK, JobFits, At, Goto,
           CreateJobs, RecordJobs, ReviewJobs, MaintainJobs, EvaluateJobs
  <2>3. QED
    BY <1>1, <2>1, <2>2 DEF Carries
<1>4. \A i \in Ids : life'[i] = life[i] \/ life'[i].reason \notin {"fit", "capacity"}
  <2>1. CASE Records(p)
    BY <2>1, TransitionRow DEF Records, PfShape
  <2>2. CASE AddsPart(p)
    BY <2>2 DEF AddsPart, dbVars
  <2>3. CASE Activates(p)
    BY <2>3, TransitionRow DEF Activates, Untouched, PfShape, Projects, At
  <2>4. CASE Evaluates(p)
    BY <2>4, TransitionRow DEF Evaluates, Acceptable, PfShape, JobFits, Projects, At
  <2>5. QED
    BY <2>1, <2>2, <2>3, <2>4
<1>5. QED
  BY <1>1, <1>2, <1>3, <1>4, GovernedIfKept DEF Carried

LEMMA CarriedAtStart ==
  ASSUME PfShape, Carried, NEW p \in Workers, NEW j \in Jobs, Starts(p, j)
  PROVE  Carried'
<1>1. /\ UNCHANGED <<decisions, governs, receipts, changed, cutOff, life, ranked, left, mine>>
      /\ changed[p] = {}
      /\ \A q \in Workers \ {p} : pc'[q] = pc[q] /\ job'[q] = job[q]
  BY DEF Starts, PfShape, PfTypeOK, JobFits, At, Goto, dbVars, localVars
<1>2. \A q \in Workers \ {p} : Carries(q)'
  BY <1>1, CarriesElsewhere DEF Carried
<1>3. Carries(p)'
  <2>1. j \in CreateJobs \cup RecordJobs \cup ReviewJobs \cup MaintainJobs \cup EvaluateJobs
    BY PortfolioAssumption
  <2>2. pc'[p] \in {"record", "rank", "evaluate"}
    <3>1. CASE j \in CreateJobs \cup RecordJobs
      BY <3>1 DEF Starts, PfShape, PfTypeOK, Goto
    <3>2. CASE j \in ReviewJobs \cup MaintainJobs
      BY <3>2 DEF Starts, PfShape, PfTypeOK, Goto, CreateJobs, RecordJobs, ReviewJobs,
                  MaintainJobs
    <3>3. CASE j \in EvaluateJobs
      BY <3>3 DEF Starts, PfShape, PfTypeOK, Goto, CreateJobs, RecordJobs, ReviewJobs,
                  MaintainJobs, EvaluateJobs
    <3>4. QED
      BY <2>1, <3>1, <3>2, <3>3
  <2>3. QED
    BY <1>1, <2>2 DEF Carries
<1>4. QED
  BY <1>1, <1>2, <1>3, GovernedIfKept DEF Carried

(* A job ends with its pauses governed, or cut off; a refused one had none. *)
LEMMA CarriedAtEnd ==
  ASSUME PfShape, Carried, NEW p \in Workers,
         Refuses(p) \/ StoresReceipt(p) \/ IsCutOff(p)
  PROVE  Carried'
<1>1. /\ UNCHANGED <<decisions, governs, life>>
      /\ \A q \in Workers \ {p} : /\ pc'[q] = pc[q] /\ mine'[q] = mine[q]
                                  /\ ranked'[q] = ranked[q] /\ left'[q] = left[q]
                                  /\ changed'[q] = changed[q] /\ job'[q] = job[q]
      /\ pc'[p] = "idle" /\ changed'[p] = {}
  BY DEF Refuses, StoresReceipt, IsCutOff, Ends, PfShape, PfTypeOK, Goto, dbVars
<1>2. \A q \in Workers \ {p} : Carries(q)'
  BY <1>1, CarriesElsewhere DEF Carried
<1>3. Carries(p)'
  BY <1>1 DEF Carries
<1>4. ASSUME Refuses(p) \/ StoresReceipt(p),
             \A j \in ReviewJobs \cap receipts' : \A i \in j.ids : RankedBy(j, i)',
             \A i \in Ids : i \in changed[p] => Listed(i)'
      PROVE  Carried'
  <2>1. cutOff' = cutOff
    BY <1>4 DEF Refuses, StoresReceipt
  <2>2. \A q \in Workers : \A i \in Ids : i \in changed[q] => Listed(i)'
    BY <1>1, <1>4 DEF Listed
  <2>3. \A i \in Ids : life'[i].reason \in {"fit", "capacity"} => Listed(i)'
    BY <1>1, <1>4, <2>1, <2>2, GovernedUnlessJudged
  <2>4. QED
    BY <1>2, <1>3, <1>4, <2>1, <2>3 DEF Carried
<1>5. CASE Refuses(p)
  <2>1. changed[p] = {} /\ receipts' = receipts
    BY <1>5 DEF Refuses, Carried, Carries, At, dbVars
  <2>2. QED
    BY <1>1, <1>4, <1>5, <2>1 DEF Carried, RankedBy
<1>6. CASE StoresReceipt(p)
  <2>1. pc[p] = "receipt" /\ receipts' = receipts \cup {job[p]}
    BY <1>6 DEF StoresReceipt, At
  <2>2. ASSUME NEW j \in ReviewJobs, j \in receipts', NEW i \in j.ids
        PROVE  RankedBy(j, i)'
    <3>1. CASE j = job[p]
      <4>1. i \in ranked[p] /\ ranked[p] = j.ids
        BY <2>1, <2>2, <3>1 DEF Carried, Carries
      <4>2. <<mine[p], i>> \in governs
        BY <2>1, <3>1, <4>1 DEF Carried, Carries
      <4>3. \E d \in decisions : d.number = mine[p] /\ d.ranked = ranked[p]
        BY <2>1, <3>1, <4>1 DEF Carried, Carries
      <4>4. RankedBy(j, i)'
        BY <1>1, <4>1, <4>2, <4>3 DEF RankedBy
      <4>5. QED
        BY <4>4
    <3>2. CASE j # job[p]
      BY <1>1, <2>1, <2>2, <3>2 DEF Carried, RankedBy
    <3>3. QED
      BY <3>1, <3>2
  <2>3. ASSUME NEW i \in Ids, i \in changed[p] PROVE Listed(i)'
    <3>1. job[p] \in ReviewJobs \cup MaintainJobs /\ i \in ranked[p]
      BY <2>3 DEF PfShape, JobFits, Carried, Carries
    <3>2. <<mine[p], i>> \in governs
      BY <2>1, <3>1 DEF Carried, Carries
    <3>3. \E d \in decisions : d.number = mine[p] /\ d.paused = changed[p]
      BY <2>1, <3>1 DEF Carried, Carries
    <3>4. ListedAsPaused(i)'
      BY <1>1, <2>3, <3>2, <3>3 DEF ListedAsPaused
    <3>5. QED
      BY <3>4 DEF Listed
  <2>4. QED
    BY <1>4, <1>6, <2>2, <2>3
<1>7. CASE IsCutOff(p)
  <2>1. /\ cutOff' = cutOff \cup {job[p]} \X changed[p]
        /\ receipts' = receipts /\ pc[p] \in Places \ {"idle"}
    BY <1>7 DEF IsCutOff, dbVars, At, PfShape, PfTypeOK
  <2>2. ASSUME NEW j \in ReviewJobs, NEW i \in Ids, <<j, i>> \in cutOff'
        PROVE  i \in j.ids
    <3>1. CASE <<j, i>> \in cutOff
      BY <3>1 DEF Carried
    <3>2. CASE j = job[p] /\ i \in changed[p]
      <4>1. pc[p] \in {"judge", "decide", "govern", "receipt"}
        BY <2>1, <3>2 DEF Places, Carried, Carries
      <4>2. QED
        BY <3>2, <4>1 DEF Carried, Carries
    <3>3. QED
      BY <2>1, <2>2, <3>1, <3>2
  <2>3. ASSUME NEW q \in Workers, NEW i \in Ids, i \in changed[q] PROVE Listed(i)'
    <3>1. CASE q = p
      BY <2>1, <2>3, <3>1 DEF PfShape, JobFits, Listed
    <3>2. CASE q # p
      BY <1>1, <2>3, <3>2 DEF Listed
    <3>3. QED
      BY <3>1, <3>2
  <2>4. \A i \in Ids : life'[i].reason \in {"fit", "capacity"} => Listed(i)'
    BY <1>1, <2>1, <2>3, GovernedUnlessJudged
  <2>5. QED
    BY <1>1, <1>2, <1>3, <2>1, <2>2, <2>4 DEF Carried, RankedBy
<1>8. QED
  BY <1>5, <1>6, <1>7

LEMMA CarriedAtStep ==
  ASSUME PfShape, Untouched, Carried, [PfNext]_pfVars
  PROVE  Carried'
<1>1. CASE UNCHANGED pfVars
  BY <1>1 DEF pfVars, dbVars, localVars, Carried, Carries, Listed, ListedAsPaused, RankedBy
<1>2. QED
  BY <1>1, CarriedAtStart, CarriedAtCreation, CarriedAtReview, CarriedAtDecision, CarriedAtEnd
  DEF PfNext

(* Each project a review has paused is listed in a decision that governs   *)
(* it once the review has ended; if an attempt was cut off, the decision   *)
(* of the repetition ranks and governs it before the receipt is stored.    *)
THEOREM EveryPauseHasItsDecision == PfSpec => []PausesAreGoverned
<1>1. PfInit => Untouched /\ Carried
  BY DEF PfInit, Untouched, Carried, Carries
<1>2. PfShape /\ Untouched /\ Carried /\ [PfNext]_pfVars => Untouched' /\ Carried'
  BY UntouchedAtStep, CarriedAtStep
<1>3. Carried => PausesAreGoverned
  BY CarriedIsGoverned
<1>4. QED
  BY <1>1, <1>2, <1>3, ShapeHolds, PTL DEF PfSpec
=============================================================================
