------------------------------ MODULE Portfolio ------------------------------
(***************************************************************************)
(* The Chief of Staff's projects (sean_os/chief_of_staff.py): what the     *)
(* registered handlers do to a project's lifecycle, one commit at a time,  *)
(*                                                                         *)
(*   create:           record -> part ... part -> activate -> receipt      *)
(*   review, maintain: rank -> judge ... judge -> decide -> govern ...     *)
(*                     -> receipt                                          *)
(*   evaluate:         transition -> decide -> govern -> receipt           *)
(*                                                                         *)
(* while several workers run them, die, or take over an item whose lease   *)
(* ran out.  How items are queued and claimed is Intake's and WorkQueue's; *)
(* here an item is a job that is begun again until its receipt is stored.  *)
(* The portfolio metrics of a project are those it was created with:       *)
(* UPDATE_RECORD, which may change them, is not modelled.                  *)
(***************************************************************************)
EXTENDS Naturals, FiniteSets

CONSTANTS
  Workers,     \* the worker ids, which are the agents' ids
  Ids,         \* record ids of projects: a subset of Nat, for their order
  Plans,       \* what may become a project
  Score,       \* portfolio score of each plan
  Fit,         \* strategic_fit of each plan
  Unmeasured,  \* plans without portfolio_metrics
  Parts,       \* commits between the record of a plan and its activation
  Jobs,        \* work items: a set of records, see below
  NoPlan, NoJob, NoOne,
  MaxCuts,     \* bound: handlers cut off by a crash or an exception
  MaxLapses    \* bound: leases that lapse under a live worker

(* Work items by action type.  CHIEF_EVALUATE_PROJECT is registered, but   *)
(* nothing in scripts/ enqueues it.                                        *)
CreateJobs   == {j \in Jobs : j.does = "create"}     \* plan
RecordJobs   == {j \in Jobs : j.does = "record"}     \* plan; CREATE_IAC_RECORD
ReviewJobs   == {j \in Jobs : j.does = "review"}     \* ids, cap, threshold
MaintainJobs == {j \in Jobs : j.does = "maintain"}   \* cap, threshold
EvaluateJobs == {j \in Jobs : j.does = "evaluate"}   \* id, verdict

ASSUME PortfolioAssumption ==
  /\ Ids \subseteq Nat /\ IsFiniteSet(Ids)
  /\ {Score, Fit, Parts} \subseteq [Plans -> Nat] /\ Unmeasured \subseteq Plans
  /\ NoPlan \notin Plans /\ NoJob \notin Jobs /\ NoOne \notin Workers
  /\ Jobs = CreateJobs \cup RecordJobs \cup ReviewJobs \cup MaintainJobs \cup EvaluateJobs
  /\ \A j \in CreateJobs \cup RecordJobs : j.plan \in Plans
  /\ \A j \in ReviewJobs : j.ids \subseteq Ids
  /\ \A j \in ReviewJobs \cup MaintainJobs : j.cap \in Nat \ {0} /\ j.threshold \in Nat
  /\ \A j \in EvaluateJobs : j.id \in Ids /\ j.verdict \in {"KILLED", "PAUSED", "ACTIVE"}
  /\ {MaxCuts, MaxLapses} \subseteq Nat

VARIABLES
  plan,      \* records: the plan of each project, or NoPlan
  owner,     \* created_by_agent, or NoOne
  life,      \* project_state: state, and the reason with the limit it names
  decisions, \* DECISION records: whose, what was ranked, what was paused
  governs,   \* GOVERNS relationships <<decision, project>>
  receipts,  \* jobs with a receipt in action_executions
  pc, job,   \* each worker's place and job
  mine,      \* the project or decision in its hands
  ranked, left, changed,  \* review: all, yet to judge or govern, paused
  cutOff,    \* history: <<job, project>> of an attempt that got no further
  cuts, lapses

dbVars    == <<plan, owner, life, decisions, governs, receipts>>
localVars == <<mine, ranked, left, changed>>
counters  == <<cuts, lapses>>
pfVars    == <<dbVars, pc, job, localVars, cutOff, counters>>

Projects == {i \in Ids : plan[i] # NoPlan}
Lives    == {"none", "INCUBATOR", "ACTIVE", "PAUSED", "KILLED"}
Places   == {"idle", "record", "part", "activate", "rank", "judge", "decide", "govern",
             "evaluate", "receipt"}

PfInit ==
  /\ plan  = [i \in Ids |-> NoPlan] /\ owner = [i \in Ids |-> NoOne]
  /\ life  = [i \in Ids |-> [state |-> "none", reason |-> "none", limit |-> 0]]
  /\ decisions = {} /\ governs = {} /\ receipts = {}
  /\ pc   = [p \in Workers |-> "idle"] /\ job = [p \in Workers |-> NoJob]
  /\ mine = [p \in Workers |-> 0]
  /\ ranked = [p \in Workers |-> {}] /\ left = [p \in Workers |-> {}]
  /\ changed = [p \in Workers |-> {}] /\ cutOff = {}
  /\ cuts = 0 /\ lapses = 0

At(p, place)   == pc[p] = place
Goto(p, place) == pc' = [pc EXCEPT ![p] = place]
Ends(p) ==
  /\ Goto(p, "idle") /\ job' = [job EXCEPT ![p] = NoJob]
  /\ mine' = [mine EXCEPT ![p] = 0]
  /\ ranked' = [ranked EXCEPT ![p] = {}] /\ left' = [left EXCEPT ![p] = {}]
  /\ changed' = [changed EXCEPT ![p] = {}]

(* transition_project: an update of the row, whatever its state is.        *)
Transition(i, state, reason, limit) ==
  life' = [life EXCEPT ![i] = [state |-> state, reason |-> reason, limit |-> limit]]

-----------------------------------------------------------------------------
(* claim_work and ActionRegistry.execute: a job with a receipt is not begun *)
(* again; one that somebody is still at, only after its lease ran out.     *)
Starts(p, j) ==
  /\ At(p, "idle") /\ j \notin receipts
  /\ IF \E q \in Workers : job[q] = j
       THEN lapses < MaxLapses /\ lapses' = lapses + 1
       ELSE UNCHANGED lapses
  /\ job' = [job EXCEPT ![p] = j]
  /\ Goto(p, CASE j \in CreateJobs \cup RecordJobs -> "record"
               [] j \in ReviewJobs \cup MaintainJobs -> "rank"
               [] j \in EvaluateJobs -> "evaluate")
  /\ UNCHANGED <<dbVars, localVars, cutOff, cuts>>

(* create_record of a PROJECT: its id is new, its state INCUBATOR.  Only a *)
(* project that create_project makes names its agent.                      *)
Records(p) ==
  LET made == job[p] \in CreateJobs IN
  /\ At(p, "record")
  /\ \E i \in Ids \ Projects :
       /\ plan'  = [plan EXCEPT ![i] = job[p].plan]
       /\ owner' = [owner EXCEPT ![i] = IF made THEN p ELSE NoOne]
       /\ mine'  = [mine EXCEPT ![p] = i]
       /\ left'  = [left EXCEPT ![p] = IF made THEN 1..Parts[job[p].plan] ELSE {}]
       /\ Transition(i, "INCUBATOR", "created", 0)
  /\ Goto(p, IF made THEN "part" ELSE "receipt")
  /\ UNCHANGED <<decisions, governs, receipts, job, ranked, changed, cutOff, counters>>

(* The link to the goal, and each task with its link: a commit each.       *)
AddsPart(p) ==
  /\ At(p, "part")
  /\ \/ \E n \in left[p] : left' = [left EXCEPT ![p] = @ \ {n}] /\ UNCHANGED pc
     \/ left[p] = {} /\ Goto(p, "activate") /\ UNCHANGED left
  /\ UNCHANGED <<dbVars, job, mine, ranked, changed, cutOff, counters>>

Activates(p) ==
  /\ At(p, "activate")
  /\ Transition(mine[p], "ACTIVE", "planned", 0)
  /\ Goto(p, "receipt")
  /\ UNCHANGED <<plan, owner, decisions, governs, receipts, job, localVars, cutOff, counters>>

-----------------------------------------------------------------------------
(* review_portfolio, and maintain_portfolio around it.                     *)

Measured == {i \in Projects : plan[i] \notin Unmeasured}
Live     == {i \in Projects : life[i].state \in {"ACTIVE", "INCUBATOR"}}

Better(i, k) ==
  \/ Score[plan[i]] > Score[plan[k]]
  \/ Score[plan[i]] = Score[plan[k]] /\ i < k

PositionBug(i, S) == 2 + Cardinality({k \in S : Better(k, i)})   \* counts from 2
Position(i, S)    == 1 + Cardinality({k \in S : Better(k, i)})

AgentOwnedBug(p, i) == owner[i] # NoOne     \* any agent's
AgentOwned(p, i)    == owner[i] = p

(* A review needs every project it names, with its metrics, an evaluation  *)
(* one that this agent has made; else the handler raises.                  *)
Acceptable(p) ==
  /\ job[p] \in ReviewJobs => job[p].ids # {} /\ job[p].ids \subseteq Measured
  /\ job[p] \in EvaluateJobs => job[p].id \in Projects /\ AgentOwned(p, job[p].id)

Refuses(p) ==
  /\ At(p, "rank") \/ At(p, "evaluate")
  /\ ~Acceptable(p)
  /\ Ends(p)
  /\ UNCHANGED <<dbVars, cutOff, counters>>

RanksBug(p) ==                              \* a review leaves out what is not live
  LET S == IF job[p] \in ReviewJobs THEN job[p].ids \cap Live ELSE Live \cap Measured IN
  /\ At(p, "rank") /\ Acceptable(p)
  /\ ranked' = [ranked EXCEPT ![p] = S] /\ left' = [left EXCEPT ![p] = S]
  /\ Goto(p, IF S = {} THEN "receipt" ELSE "judge")
  /\ UNCHANGED <<dbVars, job, mine, changed, cutOff, counters>>

(* A maintenance takes the live projects, leaves out those without metrics *)
(* and makes no decision if there are none.                                *)
Ranks(p) ==
  LET S == IF job[p] \in ReviewJobs THEN job[p].ids ELSE Live \cap Measured IN
  /\ At(p, "rank") /\ Acceptable(p)
  /\ ranked' = [ranked EXCEPT ![p] = S] /\ left' = [left EXCEPT ![p] = S]
  /\ Goto(p, IF S = {} THEN "receipt" ELSE "judge")
  /\ UNCHANGED <<dbVars, job, mine, changed, cutOff, counters>>

(* Each review brings its own threshold and capacity.                      *)
Verdict(p, i) ==
  IF Fit[plan[i]] < job[p].threshold THEN "fit"
  ELSE IF Position(i, ranked[p]) > job[p].cap THEN "capacity"
  ELSE "prioritize"

LimitOf(p, i) == IF Verdict(p, i) = "fit" THEN job[p].threshold ELSE job[p].cap

Judges(p) ==
  /\ At(p, "judge")
  /\ \E i \in left[p] :
       /\ \A k \in left[p] \ {i} : Better(i, k)
       /\ left' = [left EXCEPT ![p] = @ \ {i}]
       /\ IF Verdict(p, i) # "prioritize" /\ AgentOwned(p, i)
            THEN /\ Transition(i, "PAUSED", Verdict(p, i), LimitOf(p, i))
                 /\ changed' = [changed EXCEPT ![p] = @ \cup {i}]
            ELSE UNCHANGED <<life, changed>>
  /\ Goto(p, IF Cardinality(left[p]) = 1 THEN "decide" ELSE "judge")
  /\ UNCHANGED <<plan, owner, decisions, governs, receipts, job, mine, ranked, cutOff, counters>>

(* create_record of the DECISION, then link_records for each project.      *)
Decides(p) ==
  LET n == Cardinality(decisions) + 1 IN
  /\ At(p, "decide")
  /\ decisions' = decisions \cup {[number |-> n, ranked |-> ranked[p], paused |-> changed[p]]}
  /\ mine' = [mine EXCEPT ![p] = n] /\ left' = [left EXCEPT ![p] = ranked[p]]
  /\ Goto(p, "govern")
  /\ UNCHANGED <<plan, owner, life, governs, receipts, job, ranked, changed, cutOff, counters>>

Governs(p) ==
  /\ At(p, "govern")
  /\ \E i \in left[p] :
       /\ \A k \in left[p] \ {i} : Better(i, k)
       /\ governs' = governs \cup {<<mine[p], i>>}
       /\ left' = [left EXCEPT ![p] = @ \ {i}]
  /\ Goto(p, IF Cardinality(left[p]) = 1 THEN "receipt" ELSE "govern")
  /\ UNCHANGED <<plan, owner, life, decisions, receipts, job, mine, ranked, changed,
                 cutOff, counters>>

-----------------------------------------------------------------------------
(* evaluate_project: the transition, then a decision of its own.           *)
Evaluates(p) ==
  LET i == job[p].id IN
  /\ At(p, "evaluate") /\ Acceptable(p)
  /\ Transition(i, job[p].verdict, "evidence", 0)
  /\ ranked' = [ranked EXCEPT ![p] = {i}]
  /\ Goto(p, "decide")
  /\ UNCHANGED <<plan, owner, decisions, governs, receipts, job, mine, left, changed,
                 cutOff, counters>>

StoresReceipt(p) ==
  /\ At(p, "receipt")
  /\ receipts' = receipts \cup {job[p]}
  /\ Ends(p)
  /\ UNCHANGED <<plan, owner, life, decisions, governs, cutOff, counters>>

(* The handler raises half way (the store is locked), or its process dies  *)
(* and is restarted under the same id.                                     *)
IsCutOff(p) ==
  /\ ~At(p, "idle") /\ cuts < MaxCuts
  /\ cuts' = cuts + 1
  /\ cutOff' = cutOff \cup {job[p]} \X changed[p]
  /\ Ends(p)
  /\ UNCHANGED <<dbVars, lapses>>

PfNext == \E p \in Workers :
  \/ \E j \in Jobs : Starts(p, j)
  \/ Records(p) \/ AddsPart(p) \/ Activates(p)
  \/ Refuses(p) \/ Ranks(p) \/ Judges(p) \/ Decides(p) \/ Governs(p)
  \/ Evaluates(p) \/ StoresReceipt(p) \/ IsCutOff(p)

PfSpec == PfInit /\ [][PfNext]_pfVars

-----------------------------------------------------------------------------
(* Properties.                                                             *)

PfTypeOK ==
  /\ plan \in [Ids -> Plans \cup {NoPlan}] /\ owner \in [Ids -> Workers \cup {NoOne}]
  /\ life \in [Ids -> [state : Lives,
                       reason : {"none", "created", "planned", "fit", "capacity", "evidence"},
                       limit : Nat]]
  /\ decisions \subseteq [number : Nat, ranked : SUBSET Ids, paused : SUBSET Ids]
  /\ governs \subseteq Nat \X Ids
  /\ receipts \subseteq Jobs
  /\ pc \in [Workers -> Places] /\ job \in [Workers -> Jobs \cup {NoJob}]
  /\ mine \in [Workers -> Nat]
  /\ ranked \in [Workers -> SUBSET Ids] /\ changed \in [Workers -> SUBSET Ids]
  /\ left \in [Workers -> SUBSET Nat]
  /\ cutOff \subseteq (ReviewJobs \cup MaintainJobs) \X Ids
  /\ cuts \in Nat /\ lapses \in Nat

(* A project is paused for its fit only if that is below the threshold of  *)
(* the review that paused it, and for capacity only if as many better ones *)
(* exist as that review had room for; that is so although reviews differ   *)
(* in both, rank what they read before, name their own projects and are    *)
(* cut off and repeated, and interrupted creations leave copies.           *)
PausedForCause ==
  \A i \in Ids :
    /\ life[i].reason = "fit" => Fit[plan[i]] < life[i].limit
    /\ life[i].reason = "capacity" =>
         Cardinality({k \in Projects : Better(k, i)}) >= life[i].limit

(* "Ownership checks ... agent-only pause/kill" (ACCEPTANCE_AUDIT.md): what *)
(* a review has paused no other handler makes live again except upon       *)
(* evidence, although transition_project looks at no state and a project   *)
(* is ranked while another worker is still creating it.                    *)
PausesAreKept ==
  [][\A i \in Ids : life[i].state \in {"PAUSED", "KILLED"} =>
       life'[i].state \in {"PAUSED", "KILLED"} \/ life'[i].reason = "evidence"]_pfVars

(* A pause nobody is about to decide on: what its attempt or, for a job    *)
(* that was cut off, the repetition up to its receipt has not yet linked.  *)
Undecided(i) ==
  \/ \E p \in Workers : i \in changed[p]
  \/ \E j \in Jobs \ receipts : <<j, i>> \in cutOff

ListedAsPaused(i) == \E d \in decisions : i \in d.paused /\ <<d.number, i>> \in governs

(* The decision a repeated review makes ranks the same projects again.     *)
RankedAgain(i) ==
  \E j \in ReviewJobs, d \in decisions :
    <<j, i>> \in cutOff /\ d.ranked = j.ids /\ <<d.number, i>> \in governs

(* "evidence decisions ... report-visible lifecycle and decision" (the     *)
(* same row): a project that is paused by a review is listed in a decision *)
(* which governs it once the review has ended; if the attempt that paused  *)
(* it was cut off, the repetition's decision ranks and governs it, whoever *)
(* made it.  A maintenance that was cut off is exempt: repeated, it takes  *)
(* what is live and so leaves out what it has paused itself.               *)
PausesAreGoverned ==
  \A i \in Ids : life[i].reason \in {"fit", "capacity"} =>
    \/ ListedAsPaused(i) \/ Undecided(i) \/ RankedAgain(i)
    \/ \E j \in MaintainJobs : <<j, i>> \in cutOff

(* The same without the exemption, which the code does not keep.           *)
EveryPauseGoverned ==
  \A i \in Ids : life[i].reason \in {"fit", "capacity"} =>
    ListedAsPaused(i) \/ Undecided(i) \/ RankedAgain(i)
=============================================================================
