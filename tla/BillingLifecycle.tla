-------------------------- MODULE BillingLifecycle --------------------------
(***************************************************************************)
(* The life of a billing period as its users see it: a status and a ledger *)
(* of what each statement bills.  The ledger is reworked while the period  *)
(* is open and never while it is closed, and the status moves along the    *)
(* router's status machine only.  Every operation is one step here.        *)
(***************************************************************************)
CONSTANTS Periods, Statements, Balances, Unused, Gone

VARIABLES status, ledger

Statuses ==
  {"draft", "review", "finalized", "delivered", "disputed", "corrected"}
Closed == {"finalized", "delivered", "corrected"}

Successors(st) ==
  CASE st = "draft"     -> {"review", "finalized"}
    [] st = "review"    -> {"draft", "finalized"}
    [] st = "finalized" -> {"delivered", "corrected", "disputed"}
    [] st = "delivered" -> {"disputed"}
    [] st = "disputed"  -> {"corrected"}
    [] st = "corrected" -> {}

Ledgers == UNION {[S -> Balances] : S \in SUBSET Statements}
Empty   == [s \in {} |-> 0]

Init == /\ status = [p \in Periods |-> Unused]
        /\ ledger = [p \in Periods |-> Empty]

Open(p) ==
  /\ status[p] = Unused
  /\ status' = [status EXCEPT ![p] = "draft"]
  /\ UNCHANGED ledger

Discard(p) ==
  /\ status[p] \in Statuses \ Closed
  /\ status' = [status EXCEPT ![p] = Gone]
  /\ ledger' = [ledger EXCEPT ![p] = Empty]

Rework(p) ==
  /\ status[p] \in Statuses \ Closed
  /\ \E l \in Ledgers : ledger' = [ledger EXCEPT ![p] = l]
  /\ UNCHANGED status

\* A period is finalized only when it bills something.
Advance(p) ==
  /\ status[p] \in Statuses
  /\ \E st \in Successors(status[p]) :
       /\ st = "finalized" => DOMAIN ledger[p] # {}
       /\ status' = [status EXCEPT ![p] = st]
  /\ UNCHANGED ledger

Next == \E p \in Periods : Open(p) \/ Discard(p) \/ Rework(p) \/ Advance(p)

Spec == Init /\ [][Next]_<<status, ledger>>
=============================================================================
