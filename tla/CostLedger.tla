----------------------------- MODULE CostLedger -----------------------------
(***************************************************************************)
(* What the cost ledger promises, without queue, leases or workers: the    *)
(* money of an item is held in one period before the item runs, and is     *)
(* then either given back or spent in that same period; what is spent is   *)
(* spent for good and never held again; nothing new is held unless all of  *)
(* the period's commitments fit under its cap.  WorkQueue implements this. *)
(***************************************************************************)
EXTENDS Integers, FiniteSets, Totals

CONSTANTS Items, Periods, Cost, Limits

VARIABLES
  entry,   \* per item: free, held in a period, or spent in a period
  cap      \* per period: the limit, -1 before one is set

Free       == [kind |-> "free", in |-> 0]
Held(m)    == [kind |-> "held", in |-> m]
Spent(m)   == [kind |-> "spent", in |-> m]

Committed(m) ==
  Total([w \in Items |-> IF entry[w].in = m THEN Cost[w] ELSE 0])

CLInit ==
  /\ entry = [w \in Items |-> Free]
  /\ cap   = [m \in Periods |-> -1]

Hold(w, m) ==
  /\ entry[w] = Free /\ Cost[w] > 0
  /\ Committed(m) + Cost[w] <= cap[m]
  /\ entry' = [entry EXCEPT ![w] = Held(m)]
  /\ UNCHANGED cap

GiveBack(w, m) ==
  /\ entry[w] = Held(m)
  /\ entry' = [entry EXCEPT ![w] = Free]
  /\ UNCHANGED cap

Spend(w, m) ==
  /\ entry[w] = Held(m)
  /\ entry' = [entry EXCEPT ![w] = Spent(m)]
  /\ UNCHANGED cap

SetCap(m) ==
  /\ \E units \in Limits : cap' = [cap EXCEPT ![m] = units]
  /\ UNCHANGED entry

CLNext ==
  \E m \in Periods :
    SetCap(m) \/ \E w \in Items : Hold(w, m) \/ GiveBack(w, m) \/ Spend(w, m)

CLSpec == CLInit /\ [][CLNext]_<<entry, cap>>
=============================================================================
