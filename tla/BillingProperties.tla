-------------------------- MODULE BillingProperties --------------------------
(***************************************************************************)
(* What the billing workflow promises: of its rows in every state, of what *)
(* a step may do to a period that is closed, and of what must follow.      *)
(***************************************************************************)
EXTENDS BillingWorkflow

LiveStatement(s) == stmt[s].period \in Periods
LiveItem(i)      == item[i].period \in Periods

TypeOK ==
  /\ status  \in [Periods -> Statuses \cup {Unused, Gone}]
  /\ stmt    \in [Statements -> StatementRow]
  /\ item    \in [Items -> [period : Periods \cup {Unused, Gone},
                            key : Keys \cup {Unused}]]
  /\ keys    \in SUBSET Keys
  /\ active  \in SUBSET Contracts
  /\ charges \in [Statements -> Nat]
  /\ job     \in [Workers -> Job]

(* A statement or cost item always belongs to a period that exists, and a  *)
(* cost item to a key that exists: deletes cascade, and a row created or   *)
(* moved by a request that was admitted before the delete is refused.      *)
RowsHaveParents ==
  /\ \A s \in Statements : LiveStatement(s) => PeriodExists(stmt[s].period)
  /\ \A i \in Items : LiveItem(i) => /\ PeriodExists(item[i].period)
                                     /\ item[i].key \in keys

(* However requests interleave, the hash stamped on a statement was        *)
(* computed over a listing that contains that statement: finalize lists    *)
(* the statements it stamps before it lists those it hashes.               *)
StampCoversStatement ==
  \A s \in Statements : LiveStatement(s) /\ stmt[s].hash # NoHash
                          => s \in DOMAIN stmt[s].hash

(* A period never has two statements of one contract, however often it is  *)
(* billed again: generate creates none before all the old ones are gone.   *)
OneStatementPerContract ==
  \A s, t \in Statements :
    /\ LiveStatement(s) /\ LiveStatement(t)
    /\ stmt[s].period = stmt[t].period /\ stmt[s].contract = stmt[t].contract
    => s = t

Stamping(p) == \E w \in Workers : At(w, "finalize", "stamp") /\ job[w].period = p

(* Once finalize is through with a period, every statement of the period   *)
(* carries the hash of what the period's statements say now.               *)
FinalizedIsStamped ==
  \A p \in Periods : status[p] = "finalized" /\ ~Stamping(p)
    => \A s \in StatementsOf(p) : stmt[s].hash = Snapshot(p)

(* No step deletes, moves or recalculates a statement of a closed period.  *)
(* Rows that a move adds to a closed period are not spoken of.             *)
FrozenStatements ==
  [][\A s \in Statements :
       LiveStatement(s) /\ status[stmt[s].period] \in ImmutableStatuses
         => /\ stmt'[s].period   = stmt[s].period
            /\ stmt'[s].contract = stmt[s].contract
            /\ stmt'[s].balance  = stmt[s].balance]_vars

(* No step moves, changes or deletes a cost item of a closed period, but   *)
(* for the delete of its allocation key, which checks no period.           *)
FrozenItems ==
  [][\A i \in Items :
       LiveItem(i) /\ status[item[i].period] \in ImmutableStatuses
         => item'[i] = item[i] \/ item[i].key \notin keys']_vars

(* Tenants hear of a statement only when it is final: receivables are      *)
(* created, and deliveries recorded, while its period is closed.  Said for *)
(* clients that do not write the status "delivered" into a statement.      *)
IssuedWhenFinal ==
  [][\A s \in Statements :
       \/ charges'[s] # charges[s]
       \/ stmt[s].status # "delivered" /\ stmt'[s].status = "delivered"
       => LiveStatement(s) /\ status[stmt[s].period] \in {"finalized", "delivered"}
      ]_vars

(* A finalized period does not stay half stamped: every statement gets its *)
(* hash, or the period leaves the status.                                  *)
StampingCompletes ==
  \A p \in Periods :
    status[p] = "finalized"
      ~> \/ \A s \in StatementsOf(p) : stmt[s].hash # NoHash
         \/ status[p] # "finalized"

(* A request that was accepted is answered.                                *)
RequestsComplete ==
  \A w \in Workers : job[w].req # "idle" ~> job[w].req = "idle"
-----------------------------------------------------------------------------
(* The workflow as its users see it: see BillingLifecycle.                 *)
Lifecycle == INSTANCE BillingLifecycle WITH
  ledger <- [p \in Periods |-> Snapshot(p)], Balances <- Amounts
ImplementsLifecycle == Lifecycle!Spec
=============================================================================
