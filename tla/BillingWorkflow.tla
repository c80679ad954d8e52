--------------------------- MODULE BillingWorkflow ---------------------------
(***************************************************************************)
(* The billing-period workflow of backend/routers/billing.py: every        *)
(* endpoint that changes billing data, as the sequence of store calls it   *)
(* makes.                                                                  *)
(*                                                                         *)
(* FastAPI runs each `def` handler on a thread of its pool, and every call *)
(* of the SQL store commits by itself (repositories/billing_repo.py), so a *)
(* handler is a process: it reads the period, checks its status, and acts  *)
(* later, one committed store call at a time, on what it read.  A worker's *)
(* job record is the local state of the handler it is running.             *)
(*                                                                         *)
(* Abstractions.  A statement's content (costs, advances, line items) is   *)
(* its balance; a period's label and dates are left out; the snapshot hash *)
(* is the content it is computed from (SHA-256 is taken as injective);     *)
(* which contracts are active in a period is decided by the contracts and  *)
(* units routers, and is an input here (SetActive).  Row ids are UUIDs: a  *)
(* row that was deleted is Gone and its id is never used again.  Clients   *)
(* write no snapshot_hash and no status outside the declared ones, though  *)
(* the payload schemas would let them.                                     *)
(***************************************************************************)
EXTENDS Integers, FiniteSets

CONSTANTS
  Workers,      (* threads of the request pool                             *)
  Periods,      (* ids of billing periods                                  *)
  Statements,   (* ids of utility statements                               *)
  Items,        (* ids of cost items                                       *)
  Keys,         (* ids of allocation keys                                  *)
  Contracts,    (* contracts of the property                               *)
  Balances,     (* amounts a statement may close with                      *)
  Requests,     (* the endpoints the clients call                          *)
  PayloadStatuses, (* statuses a client writes into a period payload       *)
  StatementPayloads, (* and those it writes into a statement payload       *)
  Faults,       (* may a store call fail, or the process die               *)
  MaxCharges,   (* bound on the receivables created per statement          *)
  Unused,       (* the id names no row yet                                 *)
  Gone,         (* the row was deleted                                     *)
  NoHash        (* snapshot_hash IS NULL                                   *)

Statuses ==
  {"draft", "review", "finalized", "delivered", "disputed", "corrected"}

\* The status machine as the router declares it.
Transitions ==
  [draft     |-> {"review", "finalized"},
   review    |-> {"draft", "finalized"},
   finalized |-> {"delivered", "corrected", "disputed"},
   delivered |-> {"disputed"},
   disputed  |-> {"corrected"},
   corrected |-> {}]

ImmutableStatuses == {"finalized", "delivered", "corrected"}
MutableStatuses   == Statuses \ ImmutableStatuses

AllRequests ==
  {"edit_period", "delete_period", "submit_review", "revert_draft",
   "finalize", "generate", "dispute", "create_receivables", "revise",
   "add_item", "move_item", "delete_item", "delete_key",
   "patch_statement", "move_statement", "delete_statement", "mark_delivered",
   "set_active"}

Steps == {"check", "act", "contracts", "costs", "collect", "hash", "save", "stamp",
          "list", "purge", "create", "copy"}

StatementStatuses == {"draft", "finalized", "delivered"}
Amounts   == Balances \cup {0}
Snapshots == UNION {[S -> Amounts] : S \in SUBSET Statements}

ASSUME BillingAssumption ==
  /\ Requests \subseteq AllRequests
  /\ PayloadStatuses \subseteq Statuses
  /\ StatementPayloads \subseteq StatementStatuses
  /\ Balances \subseteq Int
  /\ Faults \in BOOLEAN
  /\ MaxCharges \in Nat
  /\ Unused # Gone
  /\ {Unused, Gone} \cap (Periods \cup Statements \cup Items) = {}
  /\ {Unused, Gone} \cap Statuses = {}
  /\ NoHash \notin Snapshots

VARIABLES
  status,      (* period id -> status, or Unused / Gone                    *)
  stmt,        (* statement id -> row                                      *)
  item,        (* cost item id -> row                                      *)
  keys,        (* the allocation keys that exist                           *)
  active,      (* the contracts a billing run finds active                 *)
  charges,     (* statement id -> number of receivables created for it     *)
  job          (* worker -> the request it is serving                      *)

vars == <<status, stmt, item, keys, active, charges, job>>
-----------------------------------------------------------------------------
(* Rows.  A row whose period is not a period id does not exist.            *)

StatementRow ==
  [period : Periods \cup {Unused, Gone}, contract : Contracts \cup {Unused},
   balance : Amounts, hash : Snapshots \cup {NoHash},
   status : StatementStatuses]

Blank(mark) == [period |-> mark, contract |-> Unused, balance |-> 0,
                hash |-> NoHash, status |-> "draft"]

PeriodExists(p)  == status[p] \in Statuses
StatementsOf(p)  == {s \in Statements : stmt[s].period = p}
ItemsOf(p)       == {i \in Items : item[i].period = p}

\* What the hash of a period covers: the content of the statements it lists.
Snapshot(p) == [s \in StatementsOf(p) |-> stmt[s].balance]

(* Jobs.  Only the fields a handler needs later are kept.                  *)
Job ==
  [req : AllRequests \cup {"idle"}, step : Steps,
   period : Periods \cup {Unused},                \* the period it works on
   row : Statements \cup Items \cup Periods \cup {Unused}, \* the row it read
   to : Statuses,                                 \* the status it will write
   todo : SUBSET Statements, open : SUBSET Statements, bare : SUBSET Statements,
   bill : SUBSET Contracts, copies : SUBSET (Items \X (Keys \cup {Unused})),
   snap : Snapshots \cup {NoHash}]

Idle == [req |-> "idle", step |-> "check", period |-> Unused, row |-> Unused,
         to |-> "draft", todo |-> {}, open |-> {}, bare |-> {}, bill |-> {},
         copies |-> {}, snap |-> NoHash]

Init ==
  /\ status  = [p \in Periods |-> Unused]
  /\ stmt    = [s \in Statements |-> Blank(Unused)]
  /\ item    = [i \in Items |-> [period |-> Unused, key |-> Unused]]
  /\ keys    = Keys
  /\ active  = Contracts
  /\ charges = [s \in Statements |-> 0]
  /\ job     = [w \in Workers |-> Idle]

At(w, req, step)  == job[w].req = req /\ job[w].step = step
Continue(w, next) == job' = [job EXCEPT ![w] = next]
Return(w)         == Continue(w, Idle)
rows              == <<status, stmt, item, keys, active, charges>>

(* Bounds: a request that creates rows is admitted while ids are left for  *)
(* it and for the requests like it that are being served.                  *)
Serving(req) == {w \in Workers : job[w].req = req}

RoomForStatements ==
  Cardinality({s \in Statements : stmt[s].period = Unused})
    >= Cardinality(Contracts) * (1 + Cardinality(Serving("generate")))
RoomForCharges ==
  \A s \in Statements :
    charges[s] + Cardinality(Serving("create_receivables")) < MaxCharges
RoomForCopies ==
  /\ \E q \in Periods : status[q] = Unused
  /\ 2 * Cardinality({i \in Items : item[i].period = Unused})
       >= Cardinality(Items)
-----------------------------------------------------------------------------
(* The first store call of a handler: read the period, check its status.   *)
Admit(w, req, from, p, next, to) ==
  /\ req \in Requests
  /\ job[w].req = "idle"
  /\ status[p] \in from
  /\ Continue(w, [Idle EXCEPT !.req = req, !.step = next,
                              !.period = p, !.to = to])
  /\ UNCHANGED rows

(* Variants of operations as a slip in the router would make them.  They   *)
(* are part of no behaviour: the checks of the properties use them.        *)
DeletePeriodUnchecked(w, p) ==
  Admit(w, "delete_period", Statuses, p, "act", "draft")
GenerateUnchecked(w, p) ==
  /\ RoomForStatements
  /\ Admit(w, "generate", Statuses, p, "contracts", "draft")
CreateReceivablesUnchecked(w, p) ==
  /\ RoomForCharges
  /\ Admit(w, "create_receivables", Statuses, p, "list", "draft")

\* A misspelt status: the statuses are plain strings in the code.
DisputeMisspelt(w, p) ==
  Admit(w, "dispute", {f \in Statuses : "disputed" \in Transitions[f]}, p,
        "act", "dispute")

\* PUT and PATCH of a period: any status may be in the payload.
EditPeriod(w, p) ==
  \E to \in PayloadStatuses :
    Admit(w, "edit_period", MutableStatuses, p, "act", to)

DeletePeriod(w, p) ==
  Admit(w, "delete_period", MutableStatuses, p, "act", "draft")
SubmitForReview(w, p) ==
  Admit(w, "submit_review", {"draft"}, p, "act", "review")
RevertToDraft(w, p) ==
  Admit(w, "revert_draft", {"review"}, p, "act", "draft")
Dispute(w, p) ==
  Admit(w, "dispute", {f \in Statuses : "disputed" \in Transitions[f]}, p,
        "act", "disputed")
Finalize(w, p) ==
  Admit(w, "finalize", {"draft", "review"}, p, "check", "finalized")
Generate(w, p) ==
  /\ RoomForStatements
  /\ Admit(w, "generate", MutableStatuses, p, "contracts", "draft")
CreateReceivables(w, p) ==
  /\ RoomForCharges
  /\ Admit(w, "create_receivables", {"finalized"}, p, "list", "draft")
Revise(w, p) ==
  /\ RoomForCopies
  /\ Admit(w, "revise", Statuses, p, "create", "draft")
AddItem(w, p) ==
  Admit(w, "add_item", MutableStatuses, p, "act", "draft")

(* Handlers that start from a row first read the row, to learn its period. *)
Load(w, req, row, p) ==
  /\ req \in Requests
  /\ job[w].req = "idle"
  /\ p \in Periods
  /\ Continue(w, [Idle EXCEPT !.req = req, !.row = row, !.period = p])
  /\ UNCHANGED rows

LoadStatement(w, s) ==
  \E req \in {"patch_statement", "move_statement", "delete_statement",
              "mark_delivered"} : Load(w, req, s, stmt[s].period)
LoadItem(w, i) ==
  \E req \in {"move_item", "delete_item"} : Load(w, req, i, item[i].period)

\* Variant: the period of the row need only exist.
CheckPeriodExists(w) ==
  /\ job[w].step = "check"
  /\ job[w].req \in {"patch_statement", "move_statement", "delete_statement",
                     "mark_delivered", "move_item", "delete_item"}
  /\ IF PeriodExists(job[w].period)
     THEN Continue(w, [job[w] EXCEPT !.step = "act"]) ELSE Return(w)
  /\ UNCHANGED rows

\* The second read: the period of the row must still allow the operation.
CheckPeriod(w) ==
  /\ job[w].step = "check"
  /\ job[w].req \in {"patch_statement", "move_statement", "delete_statement",
                     "mark_delivered", "move_item", "delete_item"}
  /\ LET allowed == IF job[w].req = "mark_delivered"
                    THEN {"finalized", "delivered"} ELSE MutableStatuses
     IN  IF status[job[w].period] \in allowed
         THEN Continue(w, [job[w] EXCEPT !.step = "act"])
         ELSE Return(w)
  /\ UNCHANGED rows
-----------------------------------------------------------------------------
(* Periods.                                                                *)

\* POST /periods is a single store call.
CreatePeriod(p) ==
  /\ status[p] = Unused
  /\ \E st \in PayloadStatuses : status' = [status EXCEPT ![p] = st]
  /\ UNCHANGED <<stmt, item, keys, active, charges, job>>

\* store.update_billing_period with the fields read earlier and a new status.
SaveStatus(w) ==
  /\ job[w].req \in {"edit_period", "submit_review", "revert_draft", "dispute"}
  /\ job[w].step = "act"
  /\ status' = IF PeriodExists(job[w].period)
               THEN [status EXCEPT ![job[w].period] = job[w].to] ELSE status
  /\ Return(w)
  /\ UNCHANGED <<stmt, item, keys, active, charges>>

\* Variant: the statements are not part of the cascade.
DropPeriodKeepsStatements(w) ==
  /\ At(w, "delete_period", "act")
  /\ status' = [status EXCEPT ![job[w].period] = Gone]
  /\ Return(w)
  /\ UNCHANGED <<stmt, item, keys, active, charges>>

\* The delete cascades to the period's cost items and statements.
DropPeriod(w) ==
  /\ At(w, "delete_period", "act")
  /\ LET p == job[w].period IN
       IF PeriodExists(p)
       THEN /\ status' = [status EXCEPT ![p] = Gone]
            /\ stmt' = [s \in Statements |->
                          IF stmt[s].period = p THEN Blank(Gone) ELSE stmt[s]]
            /\ item' = [i \in Items |->
                          IF item[i].period = p
                          THEN [period |-> Gone, key |-> Unused] ELSE item[i]]
       ELSE UNCHANGED <<status, stmt, item>>
  /\ Return(w)
  /\ UNCHANGED <<keys, active, charges>>
-----------------------------------------------------------------------------
(* Finalize: preflight, list, hash, save the period, stamp each statement. *)

\* The preflight reads the period again.
Preflight(w) ==
  /\ At(w, "finalize", "check")
  /\ IF PeriodExists(job[w].period)
     THEN Continue(w, [job[w] EXCEPT !.step = "contracts"])
     ELSE Return(w)
  /\ UNCHANGED rows

(* The preflight and generate list contracts, cost items and the data of   *)
(* the units, in this order, and one look that finds too little ends both  *)
(* of them: what the preflight goes on to read changes nothing.            *)
Calculates(w, step) ==
  job[w].req \in {"finalize", "generate"} /\ job[w].step = step

ListContracts(w) ==
  /\ Calculates(w, "contracts")
  /\ IF active # {}
     THEN Continue(w, [job[w] EXCEPT !.step = "costs", !.bill = active])
     ELSE Return(w)
  /\ UNCHANGED rows

ListCosts(w) ==
  /\ Calculates(w, "costs")
  /\ IF ItemsOf(job[w].period) # {}
     THEN Continue(w, [job[w] EXCEPT
            !.step = IF job[w].req = "finalize" THEN "collect" ELSE "list"])
     ELSE Return(w)
  /\ UNCHANGED rows

\* Areas, persons, meters, and keys that are gone by now.
Reject(w) ==
  /\ Calculates(w, "costs")
  /\ Return(w)
  /\ UNCHANGED rows

\* The list of statements is kept, with what each of them lacks.
Collect(w) ==
  /\ At(w, "finalize", "collect")
  /\ LET own == StatementsOf(job[w].period) IN
       IF own # {}
       THEN Continue(w, [job[w] EXCEPT
              !.step = "hash",
              !.todo = {s \in own : \/ stmt[s].status # "finalized"
                                    \/ stmt[s].hash = NoHash},
              !.open = {s \in own : stmt[s].status # "finalized"},
              !.bare = {s \in own : stmt[s].hash = NoHash}])
       ELSE Return(w)
  /\ UNCHANGED rows

\* _compute_snapshot_hash lists the statements a second time.
ComputeSnapshot(w) ==
  /\ At(w, "finalize", "hash")
  /\ Continue(w, [job[w] EXCEPT !.step = "save",
                                !.snap = Snapshot(job[w].period)])
  /\ UNCHANGED rows

SaveFinalized(w) ==
  /\ At(w, "finalize", "save")
  /\ IF PeriodExists(job[w].period)
     THEN /\ status' = [status EXCEPT ![job[w].period] = "finalized"]
          /\ IF job[w].todo = {} THEN Return(w)
             ELSE Continue(w, [job[w] EXCEPT !.step = "stamp"])
     ELSE Return(w) /\ UNCHANGED status
  /\ UNCHANGED <<stmt, item, keys, active, charges>>

\* Variant: the statements to stamp are listed again, after the hash.
StampRelisted(w) ==
  /\ At(w, "finalize", "stamp")
  /\ stmt' = [s \in Statements |->
                IF stmt[s].period = job[w].period /\ stmt[s].hash = NoHash
                THEN [stmt[s] EXCEPT !.status = "finalized", !.hash = job[w].snap]
                ELSE stmt[s]]
  /\ Return(w)
  /\ UNCHANGED <<status, item, keys, active, charges>>

\* Variant: the patch holds the status only.
StampStatusOnly(w) ==
  /\ At(w, "finalize", "stamp")
  /\ stmt' = [s \in Statements |->
                IF s \in job[w].todo /\ stmt[s].period \in Periods
                THEN [stmt[s] EXCEPT !.status = "finalized"] ELSE stmt[s]]
  /\ Return(w)
  /\ UNCHANGED <<status, item, keys, active, charges>>

\* Variant: the loop returns after its first statement.
StampFirstOnly(w) ==
  /\ At(w, "finalize", "stamp")
  /\ \E s \in job[w].todo :
       stmt' = [stmt EXCEPT ![s].status = "finalized", ![s].hash = job[w].snap]
  /\ Return(w)
  /\ UNCHANGED <<status, item, keys, active, charges>>

\* One patch per statement listed earlier; a missing one ends the request.
Stamp(w) ==
  /\ At(w, "finalize", "stamp")
  /\ \E s \in job[w].todo :
       IF stmt[s].period \in Periods
       THEN /\ stmt' = [stmt EXCEPT
                 ![s].status = IF s \in job[w].open THEN "finalized" ELSE @,
                 ![s].hash   = IF s \in job[w].bare THEN job[w].snap ELSE @]
            /\ IF job[w].todo = {s} THEN Return(w)
               ELSE Continue(w, [job[w] EXCEPT !.todo = @ \ {s}])
       ELSE Return(w) /\ UNCHANGED stmt
  /\ UNCHANGED <<status, item, keys, active, charges>>
-----------------------------------------------------------------------------
(* Generate: list what to calculate from, then the old statements, delete  *)
(* them, create new ones.                                                  *)

\* Variant: the statements of an earlier run are not looked for.
ListOldNone(w) ==
  /\ At(w, "generate", "list")
  /\ Continue(w, [job[w] EXCEPT !.step = "create"])
  /\ UNCHANGED rows

ListOld(w) ==
  /\ At(w, "generate", "list")
  /\ LET own == StatementsOf(job[w].period) IN
       Continue(w, [job[w] EXCEPT !.todo = own,
                                   !.step = IF own = {} THEN "create" ELSE "purge"])
  /\ UNCHANGED rows

\* Variant: the delete of a statement that is gone is tried again.
PurgeInsists(w) ==
  /\ At(w, "generate", "purge")
  /\ \E s \in job[w].todo :
       /\ stmt[s].period \in Periods
       /\ stmt' = [stmt EXCEPT ![s] = Blank(Gone)]
       /\ Continue(w, [job[w] EXCEPT
                    !.todo = @ \ {s},
                    !.step = IF job[w].todo = {s} THEN "create" ELSE @])
  /\ UNCHANGED <<status, item, keys, active, charges>>

Purge(w) ==
  /\ At(w, "generate", "purge")
  /\ \E s \in job[w].todo :
       IF stmt[s].period \in Periods
       THEN /\ stmt' = [stmt EXCEPT ![s] = Blank(Gone)]
            /\ Continue(w, [job[w] EXCEPT
                         !.todo = @ \ {s},
                         !.step = IF job[w].todo = {s} THEN "create" ELSE @])
       ELSE Return(w) /\ UNCHANGED stmt
  /\ UNCHANGED <<status, item, keys, active, charges>>

\* The balance is what BillingEngine.generate computed for the contract.
CreateStatement(w) ==
  /\ At(w, "generate", "create")
  /\ \E c \in job[w].bill, s \in Statements, b \in Balances :
       /\ stmt[s].period = Unused
       /\ IF PeriodExists(job[w].period)
          THEN /\ stmt' = [stmt EXCEPT ![s] =
                   [period |-> job[w].period, contract |-> c, balance |-> b,
                    hash |-> NoHash, status |-> "draft"]]
               /\ IF job[w].bill = {c} THEN Return(w)
                  ELSE Continue(w, [job[w] EXCEPT !.bill = @ \ {c}])
          ELSE Return(w) /\ UNCHANGED stmt
  /\ UNCHANGED <<status, item, keys, active, charges>>
-----------------------------------------------------------------------------
(* Statements.                                                             *)

PatchStatement(w) ==
  /\ At(w, "patch_statement", "act")
  /\ IF stmt[job[w].row].period \in Periods
     THEN \/ \E b \in Balances :
               stmt' = [stmt EXCEPT ![job[w].row].balance = b]
          \/ \E st \in StatementPayloads :
               stmt' = [stmt EXCEPT ![job[w].row].status = st]
     ELSE UNCHANGED stmt
  /\ Return(w)
  /\ UNCHANGED <<status, item, keys, active, charges>>

\* The same endpoint with another billing_period_id or contract_id; the
\* foreign keys hold.
MoveStatement(w) ==
  /\ At(w, "move_statement", "act")
  /\ \/ /\ stmt[job[w].row].period \in Periods
        /\ \E q \in Periods, c \in Contracts :
             /\ PeriodExists(q)
             /\ stmt' = [stmt EXCEPT ![job[w].row].period = q,
                                     ![job[w].row].contract = c]
     \/ UNCHANGED stmt
  /\ Return(w)
  /\ UNCHANGED <<status, item, keys, active, charges>>

DropStatement(w) ==
  /\ At(w, "delete_statement", "act")
  /\ stmt' = IF stmt[job[w].row].period \in Periods
             THEN [stmt EXCEPT ![job[w].row] = Blank(Gone)] ELSE stmt
  /\ Return(w)
  /\ UNCHANGED <<status, item, keys, active, charges>>

Deliver(w) ==
  /\ At(w, "mark_delivered", "act")
  /\ stmt' = IF stmt[job[w].row].period \in Periods
             THEN [stmt EXCEPT ![job[w].row].status = "delivered"] ELSE stmt
  /\ Return(w)
  /\ UNCHANGED <<status, item, keys, active, charges>>
-----------------------------------------------------------------------------
(* Receivables: one per statement whose balance is not zero.               *)

ListBalances(w) ==
  /\ At(w, "create_receivables", "list")
  /\ LET due == {s \in StatementsOf(job[w].period) : stmt[s].balance # 0} IN
       IF due = {} THEN Return(w)
       ELSE Continue(w, [job[w] EXCEPT !.step = "act", !.todo = due])
  /\ UNCHANGED rows

Charge(w) ==
  /\ At(w, "create_receivables", "act")
  /\ \E s \in job[w].todo :
       /\ charges' = [charges EXCEPT ![s] = @ + 1]
       /\ IF job[w].todo = {s} THEN Return(w)
          ELSE Continue(w, [job[w] EXCEPT !.todo = @ \ {s}])
  /\ UNCHANGED <<status, stmt, item, keys, active>>
-----------------------------------------------------------------------------
(* Cost items, allocation keys and revisions.                              *)

SaveItem(w) ==
  /\ At(w, "add_item", "act")
  /\ \/ /\ PeriodExists(job[w].period)
        /\ \E i \in Items, k \in keys :
             /\ item[i].period = Unused
             /\ item' = [item EXCEPT ![i] =
                           [period |-> job[w].period, key |-> k]]
     \/ UNCHANGED item
  /\ Return(w)
  /\ UNCHANGED <<status, stmt, keys, active, charges>>

\* PUT and PATCH may name another period or key; only the old period was
\* checked.
MoveItem(w) ==
  /\ At(w, "move_item", "act")
  /\ \/ /\ item[job[w].row].period \in Periods
        /\ \E q \in Periods, k \in keys :
             /\ PeriodExists(q)
             /\ item' = [item EXCEPT ![job[w].row] = [period |-> q, key |-> k]]
     \/ UNCHANGED item
  /\ Return(w)
  /\ UNCHANGED <<status, stmt, keys, active, charges>>

DropItem(w) ==
  /\ At(w, "delete_item", "act")
  /\ item' = IF item[job[w].row].period \in Periods
             THEN [item EXCEPT ![job[w].row] = [period |-> Gone, key |-> Unused]]
             ELSE item
  /\ Return(w)
  /\ UNCHANGED <<status, stmt, keys, active, charges>>

\* No status check: the items that use the key go with it.
DeleteKey(k) ==
  /\ "delete_key" \in Requests
  /\ k \in keys
  /\ keys' = keys \ {k}
  /\ item' = [i \in Items |-> IF item[i].key = k
                              THEN [period |-> Gone, key |-> Unused]
                              ELSE item[i]]
  /\ UNCHANGED <<status, stmt, active, charges, job>>

\* The new draft period.  The source is kept in row; its status, checked
\* nowhere, stays as it is.
CopyPeriod(w) ==
  /\ At(w, "revise", "create")
  /\ \E q \in Periods :
       /\ status[q] = Unused
       /\ status' = [status EXCEPT ![q] = "draft"]
       /\ Continue(w, [job[w] EXCEPT !.step = "list", !.period = q,
                                   !.row = job[w].period])
  /\ UNCHANGED <<stmt, item, keys, active, charges>>

ListCopies(w) ==
  /\ At(w, "revise", "list")
  /\ LET src == {<<i, item[i].key>> : i \in ItemsOf(job[w].row)} IN
       IF src = {} THEN Return(w)
       ELSE Continue(w, [job[w] EXCEPT !.step = "copy", !.copies = src])
  /\ UNCHANGED rows

CopyItem(w) ==
  /\ At(w, "revise", "copy")
  /\ \E src \in job[w].copies, i \in Items :
       /\ item[i].period = Unused
       /\ IF PeriodExists(job[w].period) /\ src[2] \in keys
          THEN /\ item' = [item EXCEPT ![i] =
                             [period |-> job[w].period, key |-> src[2]]]
               /\ IF job[w].copies = {src} THEN Return(w)
                  ELSE Continue(w, [job[w] EXCEPT !.copies = @ \ {src}])
          ELSE Return(w) /\ UNCHANGED item
  /\ UNCHANGED <<status, stmt, keys, active, charges>>
-----------------------------------------------------------------------------
(* Environment.                                                            *)

\* The contracts router ends a contract, or activates one again.
SetActive(c) ==
  /\ "set_active" \in Requests
  /\ active' = IF c \in active THEN active \ {c} ELSE active \cup {c}
  /\ UNCHANGED <<status, stmt, item, keys, charges, job>>

\* A store call raises, or the process dies: what was committed stays.
Fail(w) ==
  /\ Faults
  /\ job[w].req # "idle"
  /\ Return(w)
  /\ UNCHANGED rows
-----------------------------------------------------------------------------
Receive(w) ==
  \/ \E p \in Periods : \/ EditPeriod(w, p)     \/ DeletePeriod(w, p)
                        \/ SubmitForReview(w, p) \/ RevertToDraft(w, p)
                        \/ Dispute(w, p)         \/ Finalize(w, p)
                        \/ Generate(w, p)        \/ CreateReceivables(w, p)
                        \/ Revise(w, p)          \/ AddItem(w, p)
  \/ \E s \in Statements : LoadStatement(w, s)
  \/ \E i \in Items : LoadItem(w, i)

Serve(w) ==
  \/ CheckPeriod(w) \/ SaveStatus(w) \/ DropPeriod(w)
  \/ Preflight(w) \/ ListContracts(w) \/ ListCosts(w) \/ Reject(w)
  \/ Collect(w) \/ ComputeSnapshot(w) \/ SaveFinalized(w) \/ Stamp(w)
  \/ ListOld(w) \/ Purge(w) \/ CreateStatement(w)
  \/ PatchStatement(w) \/ MoveStatement(w) \/ DropStatement(w) \/ Deliver(w)
  \/ ListBalances(w) \/ Charge(w)
  \/ SaveItem(w) \/ MoveItem(w) \/ DropItem(w)
  \/ CopyPeriod(w) \/ ListCopies(w) \/ CopyItem(w)

Next ==
  \/ \E w \in Workers : Receive(w) \/ Serve(w) \/ Fail(w)
  \/ \E p \in Periods : CreatePeriod(p)
  \/ \E k \in Keys : DeleteKey(k)
  \/ \E c \in Contracts : SetActive(c)

Spec == Init /\ [][Next]_vars

\* A thread that runs a handler runs it to its end; nobody has to call one.
FairSpec == Spec /\ \A w \in Workers : WF_vars(Serve(w))
=============================================================================
