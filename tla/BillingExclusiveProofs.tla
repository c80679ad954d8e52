------------------------ MODULE BillingExclusiveProofs ------------------------
(***************************************************************************)
(* What the billing workflow promises as long as no two requests work on   *)
(* one period at the same time, for any number of workers, periods and     *)
(* rows: the condition a lock per period would establish.                  *)
(* Then also what a period bills, while clients neither move statements    *)
(* between periods nor write a status: one statement per contract, a       *)
(* complete stamp once it is finalized, and the life BillingLifecycle      *)
(* describes.                                                              *)
(***************************************************************************)
EXTENDS BillingProofs

\* No two handlers that are being served work on the same period.  Nothing in
\* the router sees to it; see the README.
Busy(w) == job[w].req # "idle"

OneRequestPerPeriod ==
  \A v, w \in Workers : Busy(v) /\ Busy(w) /\ job[v].period = job[w].period => v = w

-----------------------------------------------------------------------------
(* What a busy handler holds: the period's status still allows what it was *)
(* admitted for, and the rows it read are still rows of its period.        *)

EditRequests      == {"edit_period", "delete_period", "generate", "add_item"}
StatementRequests == {"patch_statement", "move_statement", "delete_statement"}
ItemRequests      == {"move_item", "delete_item"}

Admitted(j) ==
  /\ j.req \in EditRequests => status[j.period] \in MutableStatuses
  /\ j.req = "submit_review" => status[j.period] = "draft" /\ j.to = "review"
  /\ j.req = "revert_draft" => status[j.period] = "review" /\ j.to = "draft"
  /\ j.req = "dispute" => status[j.period] \in {"finalized", "delivered"} /\ j.to = "disputed"
  /\ j.req = "create_receivables" => status[j.period] = "finalized"
  /\ j.req = "finalize" =>
       status[j.period] \in IF j.step = "stamp" THEN {"finalized"} ELSE {"draft", "review"}
  /\ j.req \in StatementRequests \cup ItemRequests /\ j.step = "act"
       => status[j.period] \in MutableStatuses
  /\ j.req = "mark_delivered" /\ j.step = "act"
       => status[j.period] \in {"finalized", "delivered"}

\* The steps at which todo holds statements of the period.
Listed(j) == \/ j.req = "generate" /\ j.step = "purge"
             \/ j.req = "finalize" /\ j.step \in {"hash", "save", "stamp"}
             \/ j.req = "create_receivables" /\ j.step = "act"

Rowed(j) ==
  /\ j.req \in StatementRequests \cup {"mark_delivered"} =>
       j.row \in Statements /\ stmt[j.row].period = j.period
  /\ j.req \in ItemRequests => j.row \in Items /\ item[j.row].period \in {j.period, Gone}
  /\ Listed(j) => \A s \in j.todo : stmt[s].period = j.period
  /\ j.req = "finalize" /\ j.step \in {"hash", "save"} => StatementsOf(j.period) # {}

Held(j) == j.req # "idle" => j.period \in Periods /\ Admitted(j) /\ Rowed(j)
HeldInv == \A w \in Workers : Held(job[w])
-----------------------------------------------------------------------------
(* What a step of a handler may do to a statement.                         *)

Stamps(w, s) ==
  /\ At(w, "finalize", "stamp") /\ s \in job[w].todo
  /\ stmt'[s] = [stmt[s] EXCEPT
                   !.status = IF s \in job[w].open THEN "finalized" ELSE @,
                   !.hash   = IF s \in job[w].bare THEN job[w].snap ELSE @]
Delivers(w, s) ==
  /\ At(w, "mark_delivered", "act") /\ s = job[w].row
  /\ stmt'[s] = [stmt[s] EXCEPT !.status = "delivered"]
Creates(w, s) ==
  /\ At(w, "generate", "create") /\ stmt[s].period = Unused
  /\ \E c \in job[w].bill, b \in Balances :
       stmt'[s] = [period |-> job[w].period, contract |-> c, balance |-> b,
                   hash |-> NoHash, status |-> "draft"]
Removes(w, s) ==
  /\ \/ At(w, "delete_period", "act") \/ At(w, "generate", "purge")
     \/ At(w, "delete_statement", "act")
  /\ stmt[s].period = job[w].period
  /\ stmt'[s] = Blank(Gone)
Patches(w, s) ==
  /\ At(w, "patch_statement", "act") /\ s = job[w].row
  /\ \/ \E b \in Balances : stmt'[s] = [stmt[s] EXCEPT !.balance = b]
     \/ \E st \in StatementPayloads : stmt'[s] = [stmt[s] EXCEPT !.status = st]
Moves(w, s) ==
  /\ At(w, "move_statement", "act") /\ s = job[w].row
  /\ \E q \in Periods, c \in Contracts :
       stmt'[s] = [stmt[s] EXCEPT !.period = q, !.contract = c]

LEMMA RowSet ==
  ASSUME TypeOK, NEW s \in Statements, NEW t, NEW r,
         stmt' = stmt \/ stmt' = [stmt EXCEPT ![t] = r]
  PROVE  stmt'[s] = stmt[s] \/ (s = t /\ stmt'[s] = r)
<1>1. stmt \in [Statements -> StatementRow]
  BY DEF TypeOK
<1>2. CASE stmt' = stmt
  BY <1>2
<1>3. CASE stmt' = [stmt EXCEPT ![t] = r]
  BY <1>1, <1>3
<1> QED
  BY <1>2, <1>3

LEMMA StatementEffects ==
  ASSUME TypeOK, NEW w \in Workers, Held(job[w]), Serve(w), NEW s \in Statements
  PROVE  \/ stmt'[s] = stmt[s]
         \/ Stamps(w, s) \/ Delivers(w, s) \/ Creates(w, s) \/ Removes(w, s)
         \/ Patches(w, s) \/ Moves(w, s)
<1>1. CASE Stamp(w)
  <2> PICK t \in job[w].todo : Stamp(w)!2!(t)
    BY <1>1 DEF Stamp
  <2> DEFINE hash == IF t \in job[w].bare THEN job[w].snap ELSE stmt[t].hash
             st   == IF t \in job[w].open THEN "finalized" ELSE stmt[t].status
  <2>1. \/ stmt' = stmt
        \/ stmt' = [stmt EXCEPT ![t] = [stmt[t] EXCEPT !.status = st, !.hash = hash]]
    BY DEF TypeOK
  <2> HIDE DEF hash, st
  <2>2. \/ stmt'[s] = stmt[s]
        \/ s = t /\ stmt'[s] = [stmt[s] EXCEPT !.status = st, !.hash = hash]
    BY <2>1 DEF TypeOK
  <2> QED
    BY <1>1, <2>2 DEF Stamp, Stamps, hash, st
<1>2. CASE Deliver(w)
  <2> DEFINE new == [stmt[job[w].row] EXCEPT !.status = "delivered"]
  <2>1. stmt'[s] = stmt[s] \/ (s = job[w].row /\ stmt'[s] = new)
    <3>1. stmt' = stmt \/ stmt' = [stmt EXCEPT ![job[w].row] = new]
      BY <1>2 DEF Deliver
    <3> HIDE DEF new
    <3> QED
      BY <3>1, RowSet
  <2> QED
    BY <1>2, <2>1 DEF Deliver, Delivers
<1>3. CASE CreateStatement(w)
  <2> PICK c \in job[w].bill, t \in Statements, b \in Balances :
           CreateStatement(w)!2!(c, t, b)
    BY <1>3 DEF CreateStatement
  <2> DEFINE new == [period |-> job[w].period, contract |-> c, balance |-> b,
                     hash |-> NoHash, status |-> "draft"]
  <2>1. stmt'[s] = stmt[s] \/ (s = t /\ stmt'[s] = new)
    <3> HIDE DEF new
    <3>1. stmt' = stmt \/ stmt' = [stmt EXCEPT ![t] = new]
      BY DEF new
    <3> QED
      BY <3>1, RowSet
  <2> QED
    BY <1>3, <2>1 DEF CreateStatement, Creates
<1>4. CASE DropPeriod(w)
  <2>1. stmt'[s] = stmt[s] \/ (stmt[s].period = job[w].period /\ stmt'[s] = Blank(Gone))
    <3> DEFINE p == job[w].period
               new == [t \in Statements |-> IF stmt[t].period = p THEN Blank(Gone) ELSE stmt[t]]
    <3>1. stmt' = stmt \/ stmt' = new
      BY <1>4 DEF DropPeriod
    <3>2. new[s] = IF stmt[s].period = p THEN Blank(Gone) ELSE stmt[s]
      OBVIOUS
    <3> HIDE DEF new
    <3>3. CASE stmt' = stmt
      BY <3>3
    <3>4. CASE stmt' = new
      BY <3>4, <3>2
    <3> QED
      BY <3>1, <3>3, <3>4
  <2> QED
    BY <1>4, <2>1 DEF DropPeriod, Removes
<1>5. CASE Purge(w)
  <2>1. \A t \in job[w].todo : stmt[t].period = job[w].period
    BY <1>5 DEF Purge, At, Held, Rowed, Listed
  <2>2. stmt'[s] = stmt[s] \/ (s \in job[w].todo /\ stmt'[s] = Blank(Gone))
    <3> PICK t \in job[w].todo : stmt' = stmt \/ stmt' = [stmt EXCEPT ![t] = Blank(Gone)]
      BY <1>5 DEF Purge
    <3> QED
      BY RowSet
  <2> QED
    BY <1>5, <2>1, <2>2 DEF Purge, Removes
<1>6. CASE DropStatement(w)
  <2>1. stmt[job[w].row].period = job[w].period
    BY <1>6 DEF DropStatement, At, Held, Rowed, StatementRequests
  <2>2. stmt'[s] = stmt[s] \/ (s = job[w].row /\ stmt'[s] = Blank(Gone))
    BY <1>6, RowSet DEF DropStatement
  <2> QED
    BY <1>6, <2>1, <2>2 DEF DropStatement, Removes
<1>7. CASE PatchStatement(w)
  <2>1. ASSUME NEW b \in Balances, stmt' = [stmt EXCEPT ![job[w].row].balance = b]
        PROVE  stmt'[s] = stmt[s] \/ (s = job[w].row /\ stmt'[s] = [stmt[s] EXCEPT !.balance = b])
    <3> DEFINE new == [stmt[job[w].row] EXCEPT !.balance = b]
    <3>1. stmt' = [stmt EXCEPT ![job[w].row] = new]
      BY <2>1
    <3> HIDE DEF new
    <3>2. stmt'[s] = stmt[s] \/ (s = job[w].row /\ stmt'[s] = new)
      BY <3>1, RowSet
    <3> QED
      BY <3>2 DEF new
  <2>2. ASSUME NEW st \in StatementPayloads, stmt' = [stmt EXCEPT ![job[w].row].status = st]
        PROVE  stmt'[s] = stmt[s] \/ (s = job[w].row /\ stmt'[s] = [stmt[s] EXCEPT !.status = st])
    <3> DEFINE new == [stmt[job[w].row] EXCEPT !.status = st]
    <3>1. stmt' = [stmt EXCEPT ![job[w].row] = new]
      BY <2>2
    <3> HIDE DEF new
    <3>2. stmt'[s] = stmt[s] \/ (s = job[w].row /\ stmt'[s] = new)
      BY <3>1, RowSet
    <3> QED
      BY <3>2 DEF new
  <2> QED
    BY <1>7, <2>1, <2>2 DEF PatchStatement, Patches
<1>8. CASE MoveStatement(w)
  <2>1. ASSUME NEW q \in Periods, NEW c \in Contracts,
               stmt' = [stmt EXCEPT ![job[w].row].period = q, ![job[w].row].contract = c]
        PROVE  \/ stmt'[s] = stmt[s]
               \/ s = job[w].row /\ stmt'[s] = [stmt[s] EXCEPT !.period = q, !.contract = c]
    BY <2>1 DEF TypeOK
  <2> QED
    BY <1>8, <2>1 DEF MoveStatement, Moves
<1>9. CASE UNCHANGED stmt
  BY <1>9
<1> QED
  BY <1>1, <1>2, <1>3, <1>4, <1>5, <1>6, <1>7, <1>8, <1>9
     DEF Serve, CheckPeriod, SaveStatus, Preflight, Collect, ComputeSnapshot,
         SaveFinalized, ListContracts, ListCosts, Reject, ListOld, ListBalances, Charge,
         SaveItem, MoveItem, DropItem, CopyPeriod, ListCopies, CopyItem, rows

(* The row of a step that is not a creation is one of the handler's period.*)
LEMMA OwnRow ==
  ASSUME TypeOK, NEW w \in Workers, Held(job[w]), NEW s \in Statements,
         \/ Stamps(w, s) \/ Delivers(w, s) \/ Removes(w, s)
         \/ Patches(w, s) \/ Moves(w, s)
  PROVE  stmt[s].period = job[w].period
  BY DEF Stamps, Delivers, Removes, Patches, Moves, At, Held, Rowed, Listed,
         StatementRequests

(* What is billed changes while the period is open only.                   *)
LEMMA OpenForChange ==
  ASSUME NEW w \in Workers, Held(job[w]), NEW s \in Statements,
         Creates(w, s) \/ Removes(w, s) \/ Patches(w, s) \/ Moves(w, s)
  PROVE  status[job[w].period] \in MutableStatuses
  BY DEF Creates, Removes, Patches, Moves, At, Held, Admitted, EditRequests,
         StatementRequests
-----------------------------------------------------------------------------
(* What it may do to a cost item, and to the status of a period.           *)

LEMMA ItemEffects ==
  ASSUME TypeOK, NEW w \in Workers, Held(job[w]), Serve(w), NEW i \in Items
  PROVE  \/ item'[i] = item[i]
         \/ item[i].period = Unused
         \/ item[i].period = job[w].period /\ status[job[w].period] \in MutableStatuses
<1>1. CASE SaveItem(w) \/ CopyItem(w)
  BY <1>1 DEF SaveItem, CopyItem, TypeOK
<1>2. CASE MoveItem(w) \/ DropItem(w)
  <2>0. job[w].req \in ItemRequests /\ job[w].step = "act"
    BY <1>2 DEF MoveItem, DropItem, At, ItemRequests
  <2>1. /\ item[job[w].row].period \in {job[w].period, Gone}
        /\ status[job[w].period] \in MutableStatuses
    <3>1. Admitted(job[w]) /\ Rowed(job[w])
      BY <2>0 DEF Held, ItemRequests
    <3>2. item[job[w].row].period \in {job[w].period, Gone}
      BY <2>0, <3>1 DEF Rowed
    <3>3. status[job[w].period] \in MutableStatuses
      BY <2>0, <3>1 DEF Admitted
    <3> QED
      BY <3>2, <3>3
  <2>2. item'[i] = item[i] \/ (i = job[w].row /\ item[job[w].row].period \in Periods)
    BY <1>2 DEF MoveItem, DropItem, TypeOK
  <2> QED
    BY <2>1, <2>2, BillingAssumption
<1>3. CASE DropPeriod(w)
  <2>1. status[job[w].period] \in MutableStatuses
    BY <1>3 DEF DropPeriod, At, Held, Admitted, EditRequests
  <2> QED
    BY <1>3, <2>1 DEF DropPeriod
<1>4. CASE UNCHANGED item
  BY <1>4
<1> QED
  BY <1>1, <1>2, <1>3, <1>4
     DEF Serve, CheckPeriod, SaveStatus, Preflight, Collect, ComputeSnapshot,
         SaveFinalized, Stamp, ListContracts, ListCosts, Reject, ListOld, Purge,
         CreateStatement,
         PatchStatement, MoveStatement, DropStatement, Deliver, ListBalances,
         Charge, CopyPeriod, ListCopies, rows

LEMMA StatusEffects ==
  ASSUME TypeOK, NEW w \in Workers, Serve(w)
  PROVE  \/ UNCHANGED status
         \/ /\ job[w].req \in {"edit_period", "submit_review", "revert_draft", "dispute"}
            /\ PeriodExists(job[w].period)
            /\ status' = [status EXCEPT ![job[w].period] = job[w].to]
         \/ /\ At(w, "finalize", "save") /\ PeriodExists(job[w].period)
            /\ status' = [status EXCEPT ![job[w].period] = "finalized"]
         \/ /\ At(w, "delete_period", "act") /\ PeriodExists(job[w].period)
            /\ status' = [status EXCEPT ![job[w].period] = Gone]
         \/ /\ At(w, "revise", "create")
            /\ \E q \in Periods : /\ status[q] = Unused
                                  /\ status' = [status EXCEPT ![q] = "draft"]
<1>1. CASE SaveStatus(w) \/ SaveFinalized(w) \/ DropPeriod(w) \/ CopyPeriod(w)
  BY <1>1 DEF SaveStatus, SaveFinalized, DropPeriod, CopyPeriod
<1>2. CASE UNCHANGED status
  BY <1>2
<1> QED
  BY <1>1, <1>2
     DEF Serve, CheckPeriod, Preflight, Collect, ComputeSnapshot, Stamp,
         ListContracts, ListCosts, Reject, ListOld, Purge,
         CreateStatement,
         PatchStatement, MoveStatement,
         DropStatement, Deliver, ListBalances, Charge, SaveItem, MoveItem, DropItem,
         ListCopies, CopyItem, rows
-----------------------------------------------------------------------------
(* What is held stays held: another handler works on another period.       *)

LEMMA HeldWhenKept ==
  ASSUME NEW w \in Workers, Held(job[w]), job'[w] = job[w],
         \/ status'[job[w].period] = status[job[w].period]
         \/ status[job[w].period] = Unused,
         \A s \in Statements : stmt[s].period = job[w].period
                                 => stmt'[s].period = job[w].period,
         \A i \in Items : item[i].period \in {job[w].period, Gone}
                            => item'[i].period \in {job[w].period, Gone},
         job[w].todo \subseteq Statements
  PROVE  Held(job[w])'
<1>1. CASE job[w].req = "idle"
  BY <1>1 DEF Held
<1>2. CASE job[w].req # "idle"
  <2>1. job[w].period \in Periods /\ Admitted(job[w]) /\ Rowed(job[w])
    BY <1>2 DEF Held
  <2>2. Unused \notin Statuses
    BY BillingAssumption
  <2>3. Admitted(job[w])'
    <3>1. status'[job[w].period] = status[job[w].period] => Admitted(job[w])'
      BY <2>1 DEF Admitted
    <3>2. CASE status[job[w].period] = Unused
      <4>1. \A S \in SUBSET Statuses : status[job[w].period] \notin S
        BY <2>2, <3>2
      <4>2. \/ job[w].req \in {"revise", "delete_key", "set_active"}
            \/ /\ job[w].req \in StatementRequests \cup ItemRequests \cup {"mark_delivered"}
               /\ job[w].step # "act"
            \/ job[w].req \notin AllRequests
        BY <2>1, <2>2, <3>2 DEF Admitted, MutableStatuses, Statuses, AllRequests, EditRequests,
           StatementRequests, ItemRequests
      <4> QED
        BY <4>2 DEF Admitted, AllRequests, EditRequests, StatementRequests, ItemRequests
    <3> QED
      BY <3>1, <3>2
  <2>4. Rowed(job[w])'
    BY <2>1 DEF Rowed, Listed, StatementsOf
  <2> QED
    BY <2>1, <2>3, <2>4 DEF Held
<1> QED
  BY <1>1, <1>2

(* A handler that goes on keeps its request, and all but CopyPeriod keep    *)
(* the period, the row and the status it will write.                       *)
Same(w) ==
  /\ job'[w].req = job[w].req /\ job'[w].period = job[w].period
  /\ job'[w].row = job[w].row /\ job'[w].to = job[w].to

LEMMA HeldReturn ==
  ASSUME TypeOK, NEW w \in Workers, Return(w) PROVE Held(job[w])'
  BY DEF TypeOK, Return, Continue, Idle, Held

LEMMA HeldRevise ==
  ASSUME NEW w \in Workers, job'[w].req = "revise", job'[w].period \in Periods
  PROVE  Held(job[w])'
  BY DEF Held, Admitted, Rowed, Listed, EditRequests, StatementRequests, ItemRequests

(* What generate and the preflight list first touches no row, and ends     *)
(* before a statement is listed.                                           *)
LEMMA ListingStep ==
  ASSUME TypeOK, NEW w \in Workers, ListContracts(w) \/ ListCosts(w) \/ Reject(w)
  PROVE  /\ UNCHANGED rows /\ job[w].step \in {"contracts", "costs"}
         /\ \/ Return(w)
            \/ Same(w) /\ job'[w].step \in {"costs", "collect", "list"}
<1>1. job \in [Workers -> Job] /\ job[w] \in Job
  BY DEF TypeOK
<1>2. CASE ListContracts(w)
  <2>1. CASE Continue(w, [job[w] EXCEPT !.step = "costs", !.bill = active])
    <3>1. Same(w) /\ job'[w].step = "costs"
      BY <1>1, <2>1 DEF Continue, Same, Job
    <3> QED
      BY <1>2, <3>1 DEF ListContracts, Calculates
  <2> QED
    BY <1>2, <2>1 DEF ListContracts, Calculates
<1>3. CASE ListCosts(w)
  <2> DEFINE next == IF job[w].req = "finalize" THEN "collect" ELSE "list"
  <2>0. next \in {"collect", "list"}
    OBVIOUS
  <2> HIDE DEF next
  <2>1. CASE Continue(w, [job[w] EXCEPT !.step = next])
    <3>1. Same(w) /\ job'[w].step = next
      BY <1>1, <2>1 DEF Continue, Same, Job
    <3> QED
      BY <1>3, <2>0, <3>1 DEF ListCosts, Calculates
  <2> QED
    BY <1>3, <2>1 DEF ListCosts, Calculates, next
<1>4. CASE Reject(w)
  BY <1>4 DEF Reject, Calculates
<1> QED
  BY <1>2, <1>3, <1>4

LEMMA HeldListing ==
  ASSUME TypeOK, NEW w \in Workers, Held(job[w]),
         ListContracts(w) \/ ListCosts(w) \/ Reject(w)
  PROVE  Held(job[w])'
<1>1. CASE Return(w)
  BY <1>1, HeldReturn
<1>2. CASE Same(w) /\ job'[w].step \in {"costs", "collect", "list"}
  <2>1. UNCHANGED rows /\ job[w].step \in {"contracts", "costs"}
    BY ListingStep
  <2>2. Busy(w) /\ Admitted(job[w]) /\ Rowed(job[w]) /\ job[w].period \in Periods
    BY DEF Held, Busy, ListContracts, ListCosts, Reject, Calculates
  <2>3. Admitted(job[w])'
    BY <1>2, <2>1, <2>2
       DEF Same, Admitted, rows, EditRequests, StatementRequests, ItemRequests
  <2>4. Rowed(job[w])'
    BY <1>2, <2>1, <2>2
       DEF Same, Rowed, Listed, rows, EditRequests, StatementRequests, ItemRequests
  <2> QED
    BY <1>2, <2>2, <2>3, <2>4 DEF Same, Held
<1> QED
  BY <1>1, <1>2, ListingStep

LEMMA HeldFinalize ==
  ASSUME TypeOK, NEW w \in Workers, Held(job[w]),
         \/ Preflight(w) \/ Collect(w) \/ ComputeSnapshot(w)
         \/ SaveFinalized(w) \/ Stamp(w)
  PROVE  Held(job[w])'
<1>1. job \in [Workers -> Job] /\ job[w] \in Job
  BY DEF TypeOK
<1>2. job[w].req = "finalize" /\ job[w].period \in Periods /\ Admitted(job[w]) /\ Rowed(job[w])
  BY DEF Preflight, Collect, ComputeSnapshot, SaveFinalized, Stamp, At, Held
<1>3. ASSUME Same(w),
             status'[job[w].period] \in
               IF job'[w].step = "stamp" THEN {"finalized"} ELSE {"draft", "review"},
             job'[w].step \in {"hash", "save", "stamp"}
               => \A s \in job'[w].todo : stmt'[s].period = job[w].period,
             job'[w].step \in {"hash", "save"} => StatementsOf(job[w].period)' # {}
      PROVE  Held(job[w])'
  <2>1. job'[w].req = "finalize" /\ job'[w].period = job[w].period
    BY <1>2, <1>3 DEF Same
  <2>2. Admitted(job[w])'
    BY <1>3, <2>1 DEF Admitted, EditRequests, StatementRequests, ItemRequests
  <2>3. Rowed(job[w])'
    BY <1>3, <2>1 DEF Rowed, Listed, StatementRequests, ItemRequests, StatementsOf
  <2> QED
    BY <1>2, <2>1, <2>2, <2>3 DEF Held
<1>4. CASE Preflight(w)
  <2>1. CASE Continue(w, [job[w] EXCEPT !.step = "contracts"])
    <3>1. Same(w) /\ job'[w].step = "contracts"
      BY <1>1, <2>1 DEF Continue, Same, Job
    <3> QED
      BY <1>2, <1>3, <1>4, <3>1 DEF Preflight, rows, Admitted, At
  <2> QED
    BY <1>4, <2>1, HeldReturn DEF Preflight
<1>5. CASE Collect(w)
  <2> DEFINE own  == StatementsOf(job[w].period)
             todo == {s \in own : \/ stmt[s].status # "finalized"
                                  \/ stmt[s].hash = NoHash}
             open == {s \in own : stmt[s].status # "finalized"}
             bare == {s \in own : stmt[s].hash = NoHash}
  <2>1. \A s \in todo : stmt[s].period = job[w].period
    BY DEF StatementsOf
  <2> HIDE DEF todo, open, bare
  <2>2. CASE own # {} /\ Continue(w, [job[w] EXCEPT !.step = "hash", !.todo = todo,
                                                    !.open = open, !.bare = bare])
    <3>1. Same(w) /\ job'[w].step = "hash" /\ job'[w].todo = todo
      BY <1>1, <2>2 DEF Continue, Same, Job
    <3>2. UNCHANGED <<status, stmt>> /\ StatementsOf(job[w].period)' # {}
      BY <1>5, <2>2, <3>1 DEF Collect, rows, StatementsOf, Same
    <3> QED
      BY <1>2, <1>3, <1>5, <2>1, <3>1, <3>2 DEF Collect, Admitted, At
  <2> QED
    BY <1>5, <2>2, HeldReturn DEF Collect, todo, open, bare
<1>6. CASE ComputeSnapshot(w)
  <2>1. Same(w) /\ job'[w].step = "save" /\ job'[w].todo = job[w].todo
    BY <1>1, <1>6 DEF ComputeSnapshot, Continue, Same, Job
  <2>2. UNCHANGED <<status, stmt>> /\ StatementsOf(job[w].period)' # {}
    BY <1>2, <1>6, <2>1 DEF ComputeSnapshot, rows, StatementsOf, Same, Rowed, At
  <2> QED
    BY <1>2, <1>3, <1>6, <2>1, <2>2 DEF ComputeSnapshot, Admitted, Rowed, Listed, At
<1>7. CASE SaveFinalized(w)
  <2>1. CASE /\ Continue(w, [job[w] EXCEPT !.step = "stamp"])
             /\ status' = [status EXCEPT ![job[w].period] = "finalized"]
    <3>1. Same(w) /\ job'[w].step = "stamp" /\ job'[w].todo = job[w].todo
      BY <1>1, <2>1 DEF Continue, Same, Job
    <3>2. status'[job[w].period] = "finalized"
      BY <1>2, <2>1 DEF TypeOK
    <3> QED
      BY <1>2, <1>3, <1>7, <3>1, <3>2 DEF SaveFinalized, Rowed, Listed, At
  <2> QED
    BY <1>7, <2>1, HeldReturn DEF SaveFinalized
<1>8. CASE Stamp(w)
  <2> PICK t \in job[w].todo : Stamp(w)!2!(t)
    BY <1>8 DEF Stamp
  <2>1. CASE Continue(w, [job[w] EXCEPT !.todo = @ \ {t}])
    <3>1. Same(w) /\ job'[w].step = "stamp" /\ job'[w].todo = job[w].todo \ {t}
      BY <1>1, <1>8, <2>1 DEF Stamp, At, Continue, Same, Job
    <3>2. \A s \in job[w].todo : stmt'[s].period = stmt[s].period
      BY <1>1, <1>8, StampedRow DEF Job
    <3> QED
      BY <1>2, <1>3, <1>8, <3>1, <3>2 DEF Stamp, Admitted, Rowed, Listed, At
  <2> QED
    BY <2>1, HeldReturn
<1> QED
  BY <1>4, <1>5, <1>6, <1>7, <1>8

LEMMA HeldGenerate ==
  ASSUME TypeOK, NEW w \in Workers, Held(job[w]),
         \/ ListOld(w) \/ Purge(w) \/ CreateStatement(w)
  PROVE  Held(job[w])'
<1>1. job \in [Workers -> Job] /\ job[w] \in Job
  BY DEF TypeOK
<1>2. /\ job[w].req = "generate" /\ job[w].period \in Periods /\ UNCHANGED status
      /\ status[job[w].period] \in MutableStatuses /\ Rowed(job[w])
  BY DEF ListOld, Purge, CreateStatement, At, Held, Admitted, EditRequests, rows
<1>3. ASSUME Same(w),
             job'[w].step = "purge" => \A s \in job'[w].todo : stmt'[s].period = job[w].period
      PROVE  Held(job[w])'
  <2>1. job'[w].req = "generate" /\ job'[w].period = job[w].period
    BY <1>2, <1>3 DEF Same
  <2>2. Admitted(job[w])'
    BY <1>2, <2>1 DEF Admitted, EditRequests, StatementRequests, ItemRequests
  <2>3. Rowed(job[w])'
    BY <1>3, <2>1 DEF Rowed, Listed, StatementRequests, ItemRequests
  <2> QED
    BY <1>2, <2>1, <2>2, <2>3 DEF Held
<1>5. CASE ListOld(w)
  <2> DEFINE own == StatementsOf(job[w].period)
             next == IF own = {} THEN "create" ELSE "purge"
  <2>1. \A s \in own : stmt[s].period = job[w].period
    BY DEF StatementsOf
  <2> HIDE DEF own, next
  <2>2. Same(w) /\ job'[w].todo = own
    <3>1. job'[w] = [job[w] EXCEPT !.todo = own, !.step = next]
      BY <1>1, <1>5 DEF ListOld, Continue, own, next
    <3> QED
      BY <1>1, <3>1 DEF Same, Job
  <2> QED
    BY <1>3, <1>5, <2>1, <2>2 DEF ListOld, rows
<1>6. CASE Purge(w)
  <2> PICK t \in job[w].todo : Purge(w)!2!(t)
    BY <1>6 DEF Purge
  <2> DEFINE next == IF job[w].todo = {t} THEN "create" ELSE job[w].step
  <2>1. CASE /\ Continue(w, [job[w] EXCEPT
                         !.todo = @ \ {t},
                         !.step = IF job[w].todo = {t} THEN "create" ELSE @])
             /\ stmt' = [stmt EXCEPT ![t] = Blank(Gone)]
    <3>1. job'[w] = [job[w] EXCEPT !.todo = job[w].todo \ {t}, !.step = next]
      BY <1>1, <2>1 DEF Continue
    <3> HIDE DEF next
    <3>2. Same(w) /\ job'[w].todo = job[w].todo \ {t}
      BY <1>1, <3>1 DEF Same, Job
    <3>3. \A s \in job[w].todo \ {t} : stmt'[s] = stmt[s]
      <4> TAKE s \in job[w].todo \ {t}
      <4>1. s \in Statements /\ s # t
        BY <1>1 DEF Job
      <4> QED
        BY <2>1, <4>1, RowSet
    <3> QED
      BY <1>2, <1>3, <1>6, <3>2, <3>3 DEF Purge, At, Rowed, Listed
  <2> QED
    BY <2>1, HeldReturn
<1>7. CASE CreateStatement(w)
  <2> PICK c \in job[w].bill, t \in Statements, b \in Balances :
           CreateStatement(w)!2!(c, t, b)
    BY <1>7 DEF CreateStatement
  <2>1. CASE Continue(w, [job[w] EXCEPT !.bill = @ \ {c}])
    <3>1. Same(w) /\ job'[w].step = "create"
      BY <1>1, <1>7, <2>1 DEF CreateStatement, At, Continue, Same, Job
    <3> QED
      BY <1>3, <3>1
  <2> QED
    BY <2>1, HeldReturn
<1> QED
  BY <1>5, <1>6, <1>7

LEMMA HeldServe ==
  ASSUME TypeOK, NEW w \in Workers, Held(job[w]), Serve(w)
  PROVE  Held(job[w])'
<1>1. job \in [Workers -> Job] /\ job[w] \in Job
  BY DEF TypeOK
<1>2. CASE Return(w)
  BY <1>2, HeldReturn
<1>3. CASE CheckPeriod(w)
  <2>1. job[w].req # "idle" /\ UNCHANGED <<status, stmt, item>>
    BY <1>3 DEF CheckPeriod, rows
  <2>2. CASE /\ status[job[w].period] \in IF job[w].req = "mark_delivered"
                    THEN {"finalized", "delivered"} ELSE MutableStatuses
             /\ Continue(w, [job[w] EXCEPT !.step = "act"])
    <3>1. Same(w) /\ job'[w].step = "act" /\ job'[w].todo = job[w].todo
      BY <1>1, <2>2 DEF Continue, Same, Job
    <3>2. Admitted(job[w])'
      BY <1>3, <2>1, <2>2, <3>1
         DEF CheckPeriod, Same, Admitted, EditRequests, StatementRequests, ItemRequests
    <3>3. Rowed(job[w])'
      BY <1>3, <2>1, <3>1
         DEF CheckPeriod, Same, Held, Rowed, Listed, StatementRequests, ItemRequests
    <3> QED
      BY <2>1, <3>1, <3>2, <3>3 DEF Held, Same
  <2> QED
    BY <1>2, <1>3, <2>2 DEF CheckPeriod
<1>4. CASE ListBalances(w)
  <2> DEFINE due == {s \in StatementsOf(job[w].period) : stmt[s].balance # 0}
  <2>1. \A s \in due : stmt[s].period = job[w].period
    BY DEF StatementsOf
  <2> HIDE DEF due
  <2>2. CASE Continue(w, [job[w] EXCEPT !.step = "act", !.todo = due])
    <3>1. Same(w) /\ job'[w].step = "act" /\ job'[w].todo = due
      BY <1>1, <2>2 DEF Continue, Same, Job
    <3> QED
      BY <1>4, <2>1, <3>1
         DEF ListBalances, At, rows, Same, Held, Admitted, Rowed, Listed, EditRequests,
             StatementRequests, ItemRequests
  <2> QED
    BY <1>2, <1>4, <2>2 DEF ListBalances, due
<1>5. CASE Charge(w)
  <2> PICK t \in job[w].todo : Charge(w)!2!(t)
    BY <1>5 DEF Charge
  <2>1. CASE Continue(w, [job[w] EXCEPT !.todo = @ \ {t}])
    <3>1. Same(w) /\ job'[w].step = "act" /\ job'[w].todo = job[w].todo \ {t}
      BY <1>1, <1>5, <2>1 DEF Charge, At, Continue, Same, Job
    <3> QED
      BY <1>5, <3>1
         DEF Charge, At, Same, Held, Admitted, Rowed, Listed, EditRequests,
             StatementRequests, ItemRequests
  <2> QED
    BY <1>2, <2>1
<1>6. CASE CopyPeriod(w)
  <2> PICK q \in Periods : CopyPeriod(w)!2!(q)
    BY <1>6 DEF CopyPeriod
  <2>1. job'[w].req = "revise" /\ job'[w].period = q
    BY <1>1, <1>6 DEF CopyPeriod, At, Continue, Job
  <2> QED
    BY <2>1, HeldRevise
<1>7. CASE ListCopies(w)
  <2> DEFINE src == {<<i, item[i].key>> : i \in ItemsOf(job[w].row)}
  <2> HIDE DEF src
  <2>1. CASE Continue(w, [job[w] EXCEPT !.step = "copy", !.copies = src])
    <3>1. job'[w].req = "revise" /\ job'[w].period = job[w].period
      BY <1>1, <1>7, <2>1 DEF ListCopies, At, Continue, Job
    <3> QED
      BY <1>7, <3>1, HeldRevise DEF ListCopies, At, Held
  <2> QED
    BY <1>2, <1>7, <2>1 DEF ListCopies, src
<1>8. CASE CopyItem(w)
  <2> PICK src \in job[w].copies, i \in Items : CopyItem(w)!2!(src, i)
    BY <1>8 DEF CopyItem
  <2>1. CASE Continue(w, [job[w] EXCEPT !.copies = @ \ {src}])
    <3>1. job'[w].req = "revise" /\ job'[w].period = job[w].period
      BY <1>1, <1>8, <2>1 DEF CopyItem, At, Continue, Job
    <3> QED
      BY <1>8, <3>1, HeldRevise DEF CopyItem, At, Held
  <2> QED
    BY <1>2, <2>1
<1> QED
  BY <1>2, <1>3, <1>4, <1>5, <1>6, <1>7, <1>8, HeldFinalize, HeldGenerate,
     HeldListing
     DEF Serve, SaveStatus, DropPeriod, PatchStatement, MoveStatement,
         DropStatement, Deliver, SaveItem, MoveItem, DropItem

LEMMA HeldAdmit ==
  ASSUME TypeOK, NEW w \in Workers, NEW req, NEW from, NEW p \in Periods, NEW next, NEW to,
         Admit(w, req, from, p, next, to),
         req \notin StatementRequests \cup ItemRequests \cup {"mark_delivered"},
         req \in EditRequests => from \subseteq MutableStatuses,
         req = "submit_review" => from = {"draft"} /\ to = "review",
         req = "revert_draft" => from = {"review"} /\ to = "draft",
         req = "dispute" => from \subseteq {"finalized", "delivered"} /\ to = "disputed",
         req = "create_receivables" => from = {"finalized"} /\ next = "list",
         req = "finalize" => from = {"draft", "review"} /\ next = "check",
         req = "generate" => next = "contracts"
  PROVE  Held(job[w])'
<1>1. /\ job'[w].req = req /\ job'[w].period = p /\ job'[w].to = to /\ job'[w].step = next
      /\ status'[p] \in from
  BY DEF TypeOK, Admit, Continue, Idle, rows
<1>2. Admitted(job[w])'
  BY <1>1 DEF Admitted
<1>3. Rowed(job[w])'
  BY <1>1 DEF Rowed, Listed
<1> QED
  BY <1>1, <1>2, <1>3 DEF Held

LEMMA HeldReceive ==
  ASSUME TypeOK, NEW w \in Workers, Receive(w)
  PROVE  Held(job[w])'
<1>1. ASSUME NEW p \in Periods,
             \/ EditPeriod(w, p) \/ DeletePeriod(w, p) \/ Generate(w, p) \/ AddItem(w, p)
      PROVE  Held(job[w])'
  BY <1>1, HeldAdmit
     DEF EditPeriod, DeletePeriod, Generate, AddItem, EditRequests, StatementRequests,
         ItemRequests
<1>2. ASSUME NEW p \in Periods,
             \/ SubmitForReview(w, p) \/ RevertToDraft(w, p) \/ Finalize(w, p)
             \/ CreateReceivables(w, p) \/ Revise(w, p)
      PROVE  Held(job[w])'
  BY <1>2, HeldAdmit
     DEF SubmitForReview, RevertToDraft, Finalize, CreateReceivables, Revise, EditRequests,
         StatementRequests, ItemRequests
<1>3. ASSUME NEW p \in Periods, Dispute(w, p) PROVE Held(job[w])'
  <2>1. {f \in Statuses : "disputed" \in Transitions[f]} \subseteq {"finalized", "delivered"}
    BY DEF Statuses, Transitions
  <2> QED
    BY <1>3, <2>1, HeldAdmit DEF Dispute, EditRequests, StatementRequests, ItemRequests
<1>4. ASSUME NEW req, NEW row, NEW p, Load(w, req, row, p),
             req \in StatementRequests \cup ItemRequests \cup {"mark_delivered"},
             req \in StatementRequests \cup {"mark_delivered"} =>
               row \in Statements /\ stmt[row].period = p,
             req \in ItemRequests => row \in Items /\ item[row].period = p
      PROVE  Held(job[w])'
  <2>1. /\ job'[w].req = req /\ job'[w].period = p /\ job'[w].row = row
        /\ job'[w].step = "check" /\ p \in Periods /\ UNCHANGED <<stmt, item>>
    BY <1>4 DEF TypeOK, Load, Continue, Idle, rows
  <2>2. Admitted(job[w])'
    BY <1>4, <2>1 DEF Admitted, EditRequests, StatementRequests, ItemRequests
  <2>3. Rowed(job[w])'
    BY <1>4, <2>1 DEF Rowed, Listed, StatementRequests, ItemRequests
  <2> QED
    BY <2>1, <2>2, <2>3 DEF Held
<1>5. ASSUME NEW s \in Statements, LoadStatement(w, s) PROVE Held(job[w])'
  BY <1>4, <1>5 DEF LoadStatement, StatementRequests, ItemRequests
<1>6. ASSUME NEW i \in Items, LoadItem(w, i) PROVE Held(job[w])'
  BY <1>4, <1>6 DEF LoadItem, StatementRequests, ItemRequests
<1> QED
  BY <1>1, <1>2, <1>3, <1>5, <1>6 DEF Receive

LEMMA ReceiveJobs ==
  ASSUME TypeOK, NEW w \in Workers, Receive(w)
  PROVE  UNCHANGED rows /\ \A v \in Workers : v # w => job'[v] = job[v]
  BY DEF TypeOK, Receive, EditPeriod, DeletePeriod, SubmitForReview, RevertToDraft, Dispute,
         Finalize, Generate, CreateReceivables, Revise, AddItem, LoadStatement, LoadItem,
         Admit, Load, Continue

LEMMA ServeBusy ==
  ASSUME NEW w \in Workers, Serve(w) PROVE Busy(w)
  BY DEF Busy, Serve, CheckPeriod, SaveStatus, DropPeriod, Preflight, Collect,
         ComputeSnapshot, SaveFinalized, Stamp, ListContracts, ListCosts, Reject, ListOld, Purge,
         CreateStatement, PatchStatement, MoveStatement, DropStatement, Deliver,
         ListBalances, Charge, SaveItem, MoveItem, DropItem, CopyPeriod, ListCopies,
         CopyItem, At, Calculates

\* The rows of one period are out of reach of a handler of another.
LEMMA OutOfReach ==
  ASSUME TypeOK, NEW w \in Workers, Held(job[w]), Serve(w), NEW p \in Periods,
         job[w].period # p
  PROVE  /\ status'[p] = status[p] \/ status[p] = Unused
         /\ \A s \in Statements : stmt[s].period = p => stmt'[s] = stmt[s]
         /\ \A i \in Items : item[i].period \in {p, Gone} => item'[i] = item[i]
<1>1. Busy(w) /\ job[w].period \in Periods
  BY ServeBusy DEF Held, Busy
<1>2. Unused \notin Periods /\ Gone \notin Periods /\ Unused # Gone
  BY BillingAssumption
<1>3. status'[p] = status[p] \/ status[p] = Unused
  BY StatusEffects DEF TypeOK
<1>4. ASSUME NEW s \in Statements, stmt[s].period = p PROVE stmt'[s] = stmt[s]
  BY <1>2, <1>4, StatementEffects, OwnRow DEF Creates
<1>5. ASSUME NEW i \in Items, item[i].period \in {p, Gone} PROVE item'[i] = item[i]
  BY <1>1, <1>2, <1>5, ItemEffects
<1> QED
  BY <1>3, <1>4, <1>5

LEMMA HeldNext ==
  ASSUME TypeOK, OneRequestPerPeriod, HeldInv, [Next]_vars
  PROVE  HeldInv'
<1> SUFFICES ASSUME NEW v \in Workers PROVE Held(job[v])'
  BY DEF HeldInv
<1>0. Held(job[v]) /\ job[v].todo \subseteq Statements /\ Gone \notin Periods
  BY BillingAssumption DEF HeldInv, TypeOK, Job
<1>1. ASSUME UNCHANGED <<status, stmt, item>>, job'[v] = job[v] PROVE Held(job[v])'
  BY <1>0, <1>1, HeldWhenKept
<1>2. ASSUME NEW w \in Workers, Receive(w) PROVE Held(job[v])'
  BY <1>1, <1>2, HeldReceive, ReceiveJobs DEF rows
<1>3. ASSUME NEW w \in Workers, Serve(w) PROVE Held(job[v])'
  <2>1. CASE v = w
    BY <1>0, <1>3, <2>1, HeldServe
  <2>2. CASE v # w
    <3>1. job'[v] = job[v]
      BY <1>3, <2>2, ServeJobs
    <3>2. CASE job[v].req = "idle"
      BY <3>1, <3>2 DEF Held
    <3>3. CASE job[v].req # "idle"
      <4>1. job[v].period \in Periods
        BY <1>0, <3>3 DEF Held
      <4>2. Held(job[w]) /\ Busy(w)
        BY <1>3, ServeBusy DEF HeldInv
      <4>3. job[w].period # job[v].period
        BY <2>2, <3>3, <4>2 DEF OneRequestPerPeriod, Busy
      <4> QED
        BY <1>0, <1>3, <3>1, <4>1, <4>2, <4>3, OutOfReach, HeldWhenKept
    <3> QED
      BY <3>2, <3>3
  <2> QED
    BY <2>1, <2>2
<1>4. ASSUME NEW w \in Workers, Fail(w) PROVE Held(job[v])'
  BY <1>1, <1>4, HeldReturn DEF Fail, rows, Return, Continue, TypeOK
<1>5. ASSUME NEW p \in Periods, CreatePeriod(p) PROVE Held(job[v])'
  <2>1. status'[job[v].period] = status[job[v].period] \/ status[job[v].period] = Unused
    BY <1>5 DEF CreatePeriod, TypeOK
  <2> QED
    BY <1>0, <1>5, <2>1, HeldWhenKept DEF CreatePeriod
<1>6. ASSUME NEW k \in Keys, DeleteKey(k) PROVE Held(job[v])'
  <2>1. \A i \in Items : item'[i] = item[i] \/ item'[i].period = Gone
    BY <1>6 DEF DeleteKey
  <2> QED
    BY <1>0, <1>6, <2>1, HeldWhenKept DEF DeleteKey
<1> QED
  BY <1>1, <1>2, <1>3, <1>4, <1>5, <1>6 DEF Next, SetActive, vars
-----------------------------------------------------------------------------
(* Closed periods: what holds of a step of any handler.                    *)

Issued(s) ==
  \/ charges'[s] # charges[s]
  \/ stmt[s].status # "delivered" /\ stmt'[s].status = "delivered"

LEMMA FrozenStep ==
  ASSUME TypeOK, HeldInv, [Next]_vars, NEW s \in Statements, LiveStatement(s),
         status[stmt[s].period] \in ImmutableStatuses
  PROVE  /\ stmt'[s].period   = stmt[s].period
         /\ stmt'[s].contract = stmt[s].contract
         /\ stmt'[s].balance  = stmt[s].balance
<1>1. CASE stmt'[s] = stmt[s]
  BY <1>1
<1>2. ASSUME NEW w \in Workers, Serve(w)
      PROVE  \/ stmt'[s] = stmt[s]
             \/ /\ stmt'[s].period   = stmt[s].period
                /\ stmt'[s].contract = stmt[s].contract
                /\ stmt'[s].balance  = stmt[s].balance
  <2>1. Held(job[w]) /\ stmt[s] \in StatementRow
    BY DEF HeldInv, TypeOK
  <2>2. CASE Stamps(w, s) \/ Delivers(w, s)
    BY <2>1, <2>2 DEF Stamps, Delivers, StatementRow
  <2>3. CASE Creates(w, s)
    BY <2>3, BillingAssumption DEF Creates, LiveStatement
  <2>4. CASE Removes(w, s) \/ Patches(w, s) \/ Moves(w, s)
    BY <2>1, <2>4, OwnRow, OpenForChange DEF MutableStatuses
  <2> QED
    BY <1>2, <2>1, <2>2, <2>3, <2>4, StatementEffects
<1> QED
  BY <1>1, <1>2, ReceiveJobs
     DEF Next, vars, rows, Fail, CreatePeriod, DeleteKey, SetActive

LEMMA FrozenItemStep ==
  ASSUME TypeOK, HeldInv, [Next]_vars, NEW i \in Items, LiveItem(i),
         status[item[i].period] \in ImmutableStatuses
  PROVE  item'[i] = item[i] \/ item[i].key \notin keys'
<1>1. ASSUME NEW w \in Workers, Serve(w) PROVE item'[i] = item[i]
  <2>1. Held(job[w]) /\ item[i].period # Unused
    BY BillingAssumption DEF HeldInv, LiveItem
  <2> QED
    BY <1>1, <2>1, ItemEffects DEF MutableStatuses
<1>2. ASSUME NEW k \in Keys, DeleteKey(k) PROVE item'[i] = item[i] \/ item[i].key \notin keys'
  BY <1>2 DEF DeleteKey
<1> QED
  BY <1>1, <1>2, ReceiveJobs DEF Next, vars, rows, Fail, CreatePeriod, SetActive

LEMMA IssuedStep ==
  ASSUME TypeOK, HeldInv, "delivered" \notin StatementPayloads, [Next]_vars,
         NEW s \in Statements, Issued(s)
  PROVE  LiveStatement(s) /\ status[stmt[s].period] \in {"finalized", "delivered"}
<1>1. CASE UNCHANGED <<stmt, charges>>
  BY <1>1 DEF Issued
<1>2. ASSUME NEW w \in Workers, Serve(w)
      PROVE  LiveStatement(s) /\ status[stmt[s].period] \in {"finalized", "delivered"}
  <2>1. Held(job[w]) /\ stmt[s] \in StatementRow
    BY DEF HeldInv, TypeOK
  <2>2. CASE Charge(w)
    <3>1. s \in job[w].todo
      BY <2>2 DEF Charge, Issued, TypeOK
    <3>2. stmt[s].period = job[w].period /\ job[w].period \in Periods
      BY <2>1, <2>2, <3>1 DEF Charge, At, Held, Rowed, Listed
    <3>3. status[job[w].period] = "finalized"
      BY <2>1, <2>2 DEF Charge, At, Held, Admitted
    <3> QED
      BY <3>2, <3>3 DEF LiveStatement
  <2>3. CASE ~Charge(w)
    <3>1. UNCHANGED charges
      BY <1>2, <2>3
         DEF Serve, CheckPeriod, SaveStatus, DropPeriod, Preflight, Collect, ComputeSnapshot,
             SaveFinalized, Stamp, ListContracts, ListCosts, Reject, ListOld, Purge,
         CreateStatement,
             PatchStatement, MoveStatement, DropStatement, Deliver, ListBalances,
             SaveItem, MoveItem, DropItem, CopyPeriod, ListCopies, CopyItem, rows
    <3>2. stmt[s].status # "delivered" /\ stmt'[s].status = "delivered"
      BY <3>1 DEF Issued
    <3>3. Delivers(w, s)
      <4>1. ~Stamps(w, s)
        BY <2>1, <3>2 DEF Stamps, StatementRow
      <4>2. ~Creates(w, s) /\ ~Removes(w, s)
        <5>1. ASSUME Removes(w, s) PROVE stmt'[s].status = "draft"
          BY <5>1 DEF Removes, Blank
        <5>2. ASSUME Creates(w, s) PROVE stmt'[s].status = "draft"
          BY <5>2 DEF Creates
        <5> QED
          BY <3>2, <5>1, <5>2
      <4>3. ~Patches(w, s)
        BY <2>1, <3>2 DEF Patches, StatementRow
      <4>4. ~Moves(w, s)
        BY <2>1, <3>2 DEF Moves, StatementRow
      <4> QED
        BY <1>2, <2>1, <3>2, <4>1, <4>2, <4>3, <4>4, StatementEffects
    <3>4. stmt[s].period = job[w].period /\ job[w].period \in Periods
      BY <2>1, <3>3 DEF Delivers, At, Held, Rowed
    <3>5. status[job[w].period] \in {"finalized", "delivered"}
      BY <2>1, <3>3 DEF Delivers, At, Held, Admitted
    <3> QED
      BY <3>4, <3>5 DEF LiveStatement
  <2> QED
    BY <2>2, <2>3
<1> QED
  BY <1>1, <1>2, ReceiveJobs
     DEF Next, vars, rows, Fail, CreatePeriod, DeleteKey, SetActive

LEMMA HeldAlways == Spec /\ []OneRequestPerPeriod => []HeldInv
<1>1. Init => HeldInv
  BY DEF Init, HeldInv, Held, Idle
<1> QED
  BY <1>1, HeldNext, TypeCorrect, PTL DEF Spec

(* While no two requests work on one period, no step deletes, moves or     *)
(* recalculates a statement of a closed period, whatever the clients call  *)
(* and wherever a handler fails.                                           *)
THEOREM FrozenWhenExclusive == Spec /\ []OneRequestPerPeriod => FrozenStatements
<1>1. TypeOK /\ HeldInv /\ [Next]_vars
        => [\A s \in Statements :
              LiveStatement(s) /\ status[stmt[s].period] \in ImmutableStatuses
                => /\ stmt'[s].period   = stmt[s].period
                   /\ stmt'[s].contract = stmt[s].contract
                   /\ stmt'[s].balance  = stmt[s].balance]_vars
  BY FrozenStep
<1> QED
  BY <1>1, HeldAlways, TypeCorrect, PTL DEF Spec, FrozenStatements

(* Nor does a step move, change or delete a cost item of a closed period,  *)
(* but for the delete of its allocation key.                               *)
THEOREM ItemsWhenExclusive == Spec /\ []OneRequestPerPeriod => FrozenItems
<1>1. TypeOK /\ HeldInv /\ [Next]_vars
        => [\A i \in Items :
              LiveItem(i) /\ status[item[i].period] \in ImmutableStatuses
                => item'[i] = item[i] \/ item[i].key \notin keys']_vars
  BY FrozenItemStep
<1> QED
  BY <1>1, HeldAlways, TypeCorrect, PTL DEF Spec, FrozenItems

(* And tenants are charged, and deliveries recorded, for statements of a   *)
(* finalized or delivered period only, unless a client writes the status   *)
(* "delivered" into a statement itself.                                    *)
THEOREM IssuedWhenExclusive ==
  "delivered" \notin StatementPayloads /\ Spec /\ []OneRequestPerPeriod => IssuedWhenFinal
<1> SUFFICES ASSUME "delivered" \notin StatementPayloads
             PROVE  Spec /\ []OneRequestPerPeriod => IssuedWhenFinal
  OBVIOUS
<1>1. TypeOK /\ HeldInv /\ [Next]_vars
        => [\A s \in Statements :
              \/ charges'[s] # charges[s]
              \/ stmt[s].status # "delivered" /\ stmt'[s].status = "delivered"
              => LiveStatement(s) /\ status[stmt[s].period] \in {"finalized", "delivered"}
           ]_vars
  BY IssuedStep DEF Issued
<1> QED
  BY <1>1, HeldAlways, TypeCorrect, PTL DEF Spec, IssuedWhenFinal

(* In particular closed periods are frozen when handlers run one by one.   *)
SingleWorker == \A v, w \in Workers : v = w

COROLLARY FrozenWhenSerial == SingleWorker /\ Spec => FrozenStatements
<1> SUFFICES ASSUME SingleWorker PROVE Spec => FrozenStatements
  OBVIOUS
<1>1. OneRequestPerPeriod
  BY DEF SingleWorker, OneRequestPerPeriod
<1> QED
  BY <1>1, FrozenWhenExclusive, PTL
-----------------------------------------------------------------------------
(* What a billing period bills.                                            *)

NoEdits == "edit_period" \notin Requests

\* A handler serves a request the clients make.
AskedInv == \A w \in Workers : job[w].req \in Requests \cup {"idle"}

LEMMA Received ==
  ASSUME TypeOK, NEW w \in Workers, Receive(w)
  PROVE  /\ job'[w].req \in Requests
         /\ job'[w].req \in {"generate", "finalize"} => job'[w].step \in {"check", "contracts"}
<1>1. ASSUME NEW req, NEW from, NEW p, NEW next, NEW to, Admit(w, req, from, p, next, to)
      PROVE  job'[w].req = req /\ req \in Requests /\ job'[w].step = next
  BY <1>1 DEF TypeOK, Admit, Continue, Idle
<1>2. ASSUME NEW req, NEW row, NEW p, Load(w, req, row, p)
      PROVE  job'[w].req \in Requests /\ job'[w].step = "check"
  BY <1>2 DEF TypeOK, Load, Continue, Idle
<1>3. ASSUME NEW p \in Periods,
             \/ EditPeriod(w, p) \/ DeletePeriod(w, p) \/ SubmitForReview(w, p)
             \/ RevertToDraft(w, p) \/ Dispute(w, p) \/ Finalize(w, p)
             \/ Generate(w, p) \/ CreateReceivables(w, p) \/ Revise(w, p)
             \/ AddItem(w, p)
      PROVE  /\ job'[w].req \in Requests
             /\ job'[w].req \in {"generate", "finalize"} => job'[w].step \in {"check", "contracts"}
  BY <1>1, <1>3
     DEF EditPeriod, DeletePeriod, SubmitForReview, RevertToDraft, Dispute,
         Finalize, Generate, CreateReceivables, Revise, AddItem
<1> QED
  BY <1>2, <1>3 DEF Receive, LoadStatement, LoadItem

LEMMA AskedNext ==
  ASSUME TypeOK, AskedInv, [Next]_vars
  PROVE  AskedInv'
<1>1. CASE UNCHANGED job
  BY <1>1 DEF AskedInv
<1>2. ASSUME NEW w \in Workers, Receive(w) PROVE AskedInv'
  BY <1>2, Received, ReceiveJobs DEF AskedInv
<1>3. ASSUME NEW w \in Workers, Serve(w) PROVE AskedInv'
  BY <1>3, ServeJobs DEF AskedInv
<1>4. ASSUME NEW w \in Workers, Fail(w) PROVE AskedInv'
  BY <1>4 DEF AskedInv, Fail, Return, Continue, TypeOK, Idle
<1> QED
  BY <1>1, <1>2, <1>3, <1>4 DEF Next, vars, CreatePeriod, DeleteKey, SetActive

LEMMA AskedAlways == Spec => []AskedInv
<1>1. Init => AskedInv
  BY DEF Init, AskedInv, Idle
<1> QED
  BY <1>1, AskedNext, TypeCorrect, PTL DEF Spec

LEMMA NobodyMoves ==
  ASSUME AskedInv, NoMoves, NEW w \in Workers
  PROVE  /\ job[w].req # "move_statement"
         /\ \A s \in Statements : ~Moves(w, s)
  BY DEF AskedInv, NoMoves, Moves, At

(* Where a statement of a period comes from.                               *)
LEMMA Origin ==
  ASSUME TypeOK, AskedInv, NoMoves, NEW w \in Workers, Held(job[w]), Serve(w),
         NEW s \in Statements, stmt'[s].period \in Periods
  PROVE  \/ /\ stmt'[s].period = stmt[s].period
            /\ stmt'[s].contract = stmt[s].contract
         \/ Creates(w, s)
<1>1. stmt[s] \in StatementRow
  BY DEF TypeOK
<1>2. CASE stmt'[s] = stmt[s]
  BY <1>2
<1>3. CASE Stamps(w, s) \/ Delivers(w, s)
  BY <1>1, <1>3 DEF Stamps, Delivers, StatementRow
<1>4. CASE Removes(w, s)
  BY <1>4, BillingAssumption DEF Removes, Blank
<1>5. CASE Patches(w, s)
  BY <1>1, <1>5 DEF Patches, StatementRow
<1> QED
  BY <1>2, <1>3, <1>4, <1>5, StatementEffects, NobodyMoves

LEMMA CreatedRow ==
  ASSUME NEW w \in Workers, NEW s \in Statements, Creates(w, s)
  PROVE  /\ At(w, "generate", "create") /\ stmt[s].period = Unused
         /\ stmt'[s].period = job[w].period /\ stmt'[s].contract \in job[w].bill
         /\ stmt'[s].hash = NoHash
  BY DEF Creates

LEMMA OneCreated ==
  ASSUME TypeOK, NEW w \in Workers, Serve(w), NEW s \in Statements, NEW t \in Statements,
         Creates(w, s), Creates(w, t), Unused \notin Periods, job[w].period \in Periods
  PROVE  s = t
<1>1. CreateStatement(w)
  BY DEF Serve, CheckPeriod, SaveStatus, DropPeriod, Preflight, Collect, ComputeSnapshot,
         SaveFinalized, Stamp, ListContracts, ListCosts, Reject, ListOld, Purge, PatchStatement,
         MoveStatement, DropStatement, Deliver, ListBalances, Charge, SaveItem, MoveItem,
         DropItem, CopyPeriod, ListCopies, CopyItem, At, Calculates, Creates
<1> PICK c \in job[w].bill, r \in Statements, b \in Balances :
         CreateStatement(w)!2!(c, r, b)
  BY <1>1 DEF CreateStatement
<1> DEFINE new == [period |-> job[w].period, contract |-> c, balance |-> b,
                   hash |-> NoHash, status |-> "draft"]
<1>2. stmt' = stmt \/ stmt' = [stmt EXCEPT ![r] = new]
  OBVIOUS
<1> HIDE DEF new
<1>3. stmt'[s] # stmt[s] /\ stmt'[t] # stmt[t]
  BY CreatedRow
<1> QED
  BY <1>2, <1>3, RowSet
-----------------------------------------------------------------------------
(* One statement per contract: the statements of an earlier run are gone   *)
(* before new ones are created, and each contract is billed once.          *)

Billed(w) ==
  /\ At(w, "generate", "purge") => StatementsOf(job[w].period) \subseteq job[w].todo
  /\ At(w, "generate", "create") =>
       \A s \in StatementsOf(job[w].period) : stmt[s].contract \notin job[w].bill
BillInv == OneStatementPerContract /\ \A w \in Workers : Billed(w)

LEMMA BilledOther ==
  ASSUME NEW w \in Workers, job'[w].req # "generate" PROVE Billed(w)'
  BY DEF Billed, At

LEMMA BilledKept ==
  ASSUME NEW w \in Workers, Billed(w), job'[w] = job[w],
         \A s \in Statements : stmt'[s].period = job[w].period =>
           /\ stmt[s].period = job[w].period /\ stmt'[s].contract = stmt[s].contract
  PROVE  Billed(w)'
  BY DEF Billed, At, StatementsOf

LEMMA BilledGenerate ==
  ASSUME TypeOK, AskedInv, NoMoves, NEW w \in Workers, Held(job[w]), Billed(w),
         \/ ListOld(w) \/ Purge(w) \/ CreateStatement(w)
  PROVE  Billed(w)'
<1>1. job \in [Workers -> Job] /\ job[w] \in Job
  BY DEF TypeOK
<1>2. ASSUME Return(w) PROVE Billed(w)'
  <2>1. job'[w].req = "idle"
    BY <1>1, <1>2 DEF Return, Continue, Idle
  <2> QED
    BY <2>1, BilledOther
<1>4. CASE ListOld(w)
  <2> DEFINE own == StatementsOf(job[w].period)
             next == IF own = {} THEN "create" ELSE "purge"
  <2>2. next = "create" => own = {}
    OBVIOUS
  <2> HIDE DEF own, next
  <2>3. job'[w].todo = own /\ job'[w].step = next /\ job'[w].period = job[w].period
    <3>1. job'[w] = [job[w] EXCEPT !.todo = own, !.step = next]
      BY <1>1, <1>4 DEF ListOld, Continue, own, next
    <3> QED
      BY <1>1, <3>1 DEF Job
  <2>4. StatementsOf(job[w].period)' = own
    BY <1>4, <2>3 DEF ListOld, rows, StatementsOf, own
  <2> QED
    BY <2>2, <2>3, <2>4 DEF Billed, At
<1>5. CASE Purge(w)
  <2> PICK t \in job[w].todo : Purge(w)!2!(t)
    BY <1>5 DEF Purge
  <2> DEFINE next == IF job[w].todo = {t} THEN "create" ELSE job[w].step
  <2>1. CASE /\ Continue(w, [job[w] EXCEPT
                         !.todo = @ \ {t},
                         !.step = IF job[w].todo = {t} THEN "create" ELSE @])
             /\ stmt' = [stmt EXCEPT ![t] = Blank(Gone)]
    <3>0. StatementsOf(job[w].period) \subseteq job[w].todo /\ job[w].period \in Periods
      BY <1>5 DEF Purge, At, Billed, Held
    <3>1. next = "create" => job[w].todo = {t}
      BY <1>5 DEF Purge, At
    <3>2. job'[w] = [job[w] EXCEPT !.todo = job[w].todo \ {t}, !.step = next]
      BY <1>1, <2>1 DEF Continue
    <3> HIDE DEF next
    <3>3. /\ job'[w].todo = job[w].todo \ {t} /\ job'[w].step = next
          /\ job'[w].period = job[w].period
      BY <1>1, <3>2 DEF Job
    <3>4. ASSUME NEW s \in Statements, stmt'[s].period = job[w].period
          PROVE  s \in job[w].todo \ {t}
      <4>1. CASE s = t
        <5>1. stmt'[s] = Blank(Gone)
          BY <1>1, <2>1, <4>1 DEF TypeOK
        <5> QED
          BY <3>0, <3>4, <5>1, BillingAssumption DEF Blank
      <4>2. CASE s # t
        <5>1. stmt'[s] = stmt[s]
          BY <2>1, <4>2, RowSet
        <5> QED
          BY <3>0, <3>4, <4>2, <5>1 DEF StatementsOf
      <4> QED
        BY <4>1, <4>2
    <3>5. StatementsOf(job[w].period)' \subseteq job[w].todo \ {t}
      BY <3>3, <3>4 DEF StatementsOf
    <3> QED
      BY <3>1, <3>3, <3>5 DEF Billed, At
  <2> QED
    BY <1>2, <2>1
<1>6. CASE CreateStatement(w)
  <2> PICK c \in job[w].bill, t \in Statements, b \in Balances :
           CreateStatement(w)!2!(c, t, b)
    BY <1>6 DEF CreateStatement
  <2> DEFINE new == [period |-> job[w].period, contract |-> c, balance |-> b,
                     hash |-> NoHash, status |-> "draft"]
  <2>1. CASE /\ Continue(w, [job[w] EXCEPT !.bill = @ \ {c}])
             /\ stmt' = [stmt EXCEPT ![t] = new]
    <3>1. job'[w].bill = job[w].bill \ {c} /\ job'[w].period = job[w].period
          /\ job'[w].step = "create"
      BY <1>1, <1>6, <2>1 DEF CreateStatement, At, Continue, Job
    <3>2. ASSUME NEW s \in Statements, stmt'[s].period = job[w].period
          PROVE  stmt'[s].contract \notin job[w].bill \ {c}
      <4>1. stmt'[s] = stmt[s] \/ stmt'[s] = new
        <5> HIDE DEF new
        <5> QED
          BY <2>1, RowSet
      <4> QED
        BY <1>6, <3>2, <4>1 DEF CreateStatement, Billed, StatementsOf
    <3> QED
      BY <3>1, <3>2 DEF Billed, At, StatementsOf
  <2> QED
    BY <1>2, <2>1
<1> QED
  BY <1>4, <1>5, <1>6

LEMMA BillServe ==
  ASSUME TypeOK, OneRequestPerPeriod, HeldInv, AskedInv, NoMoves, BillInv,
         NEW w \in Workers, Serve(w)
  PROVE  BillInv'
<1>1. /\ Held(job[w]) /\ Unused \notin Periods
      /\ \A v \in Workers : Billed(v)
      /\ OneStatementPerContract
  BY BillingAssumption DEF HeldInv, BillInv
<1>2. Busy(w)
  BY ServeBusy
<1>3. OneStatementPerContract'
  <2> SUFFICES ASSUME NEW s \in Statements, NEW t \in Statements,
                      LiveStatement(s)', LiveStatement(t)',
                      stmt'[s].period = stmt'[t].period,
                      stmt'[s].contract = stmt'[t].contract
               PROVE  s = t
    BY DEF OneStatementPerContract
  <2>1. ASSUME NEW x \in Statements, NEW y \in Statements, Creates(w, x),
               stmt'[y].period = stmt[y].period, stmt'[y].contract = stmt[y].contract,
               stmt'[x].period = stmt'[y].period
        PROVE  stmt'[x].contract # stmt'[y].contract
    BY <1>1, <2>1, CreatedRow DEF Billed, StatementsOf
  <2>2. CASE Creates(w, s) /\ Creates(w, t)
    BY <1>1, <1>2, <2>2, OneCreated DEF Held, Busy
  <2> QED
    BY <1>1, <2>1, <2>2, Origin DEF OneStatementPerContract, LiveStatement
<1>4. ASSUME NEW v \in Workers PROVE Billed(v)'
  <2>1. CASE v # w
    <3>1. job'[v] = job[v]
      BY <2>1, ServeJobs
    <3>2. CASE job[v].req = "generate"
      <4>1. job[v].period \in Periods /\ job[w].period # job[v].period
        BY <1>2, <2>1, <3>2 DEF HeldInv, Held, OneRequestPerPeriod, Busy
      <4>2. \A s \in Statements : stmt'[s].period = job[v].period =>
              /\ stmt[s].period = job[v].period /\ stmt'[s].contract = stmt[s].contract
        BY <1>1, <4>1, Origin, CreatedRow
      <4> QED
        BY <1>1, <3>1, <4>2, BilledKept
    <3> QED
      BY <3>1, <3>2, BilledOther
  <2>2. CASE v = w
    <3>1. CASE ListOld(w) \/ Purge(w) \/ CreateStatement(w)
      BY <1>1, <2>2, <3>1, BilledGenerate
    <3>2. CASE job'[w].req # "generate"
      BY <2>2, <3>2, BilledOther
    <3>3. CASE ListContracts(w) \/ ListCosts(w) \/ Reject(w)
      <4>1. job'[w] = Idle \/ job'[w].step \in {"costs", "collect", "list"}
        BY <1>1, <3>3, ListingStep DEF Return, Continue, TypeOK
      <4> QED
        BY <2>2, <4>1 DEF Billed, At, Idle
    <3> QED
      BY <3>1, <3>2, <3>3, ServeJobs
         DEF Serve, CheckPeriod, SaveStatus, DropPeriod, Preflight, Collect,
             ComputeSnapshot, SaveFinalized, Stamp, PatchStatement, MoveStatement,
             DropStatement, Deliver, ListBalances, Charge, SaveItem, MoveItem, DropItem,
             CopyPeriod, ListCopies, CopyItem, At
  <2> QED
    BY <2>1, <2>2
<1> QED
  BY <1>3, <1>4 DEF BillInv

LEMMA BillNext ==
  ASSUME TypeOK, OneRequestPerPeriod, HeldInv, AskedInv, NoMoves, BillInv, [Next]_vars
  PROVE  BillInv'
<1>1. ASSUME UNCHANGED stmt, \A v \in Workers : job'[v] = job[v] \/ Billed(v)'
      PROVE  BillInv'
  BY <1>1, BilledKept DEF BillInv, OneStatementPerContract, LiveStatement
<1>2. ASSUME NEW w \in Workers, Receive(w) PROVE BillInv'
  <2>2. Billed(w)'
    BY <1>2, Received DEF Billed, At
  <2> QED
    BY <1>1, <1>2, <2>2, ReceiveJobs DEF rows
<1>3. ASSUME NEW w \in Workers, Fail(w) PROVE BillInv'
  <2>1. UNCHANGED stmt /\ job'[w].req = "idle" /\ \A v \in Workers : v # w => job'[v] = job[v]
    BY <1>3 DEF Fail, rows, Return, Continue, TypeOK, Idle
  <2> QED
    BY <1>1, <2>1, BilledOther
<1> QED
  BY <1>1, <1>2, <1>3, BillServe DEF Next, vars, CreatePeriod, DeleteKey, SetActive

(* A period bills a contract at most once, also after a regeneration that  *)
(* failed half-way.                                                        *)
THEOREM BilledOnce ==
  NoMoves /\ Spec /\ []OneRequestPerPeriod => []OneStatementPerContract
<1> SUFFICES ASSUME NoMoves
             PROVE  Spec /\ []OneRequestPerPeriod => []OneStatementPerContract
  OBVIOUS
<1>1. Init => BillInv
  BY BillingAssumption
     DEF Init, BillInv, OneStatementPerContract, LiveStatement, Blank, Billed, At, Idle
<1>2. TypeOK /\ OneRequestPerPeriod /\ HeldInv /\ AskedInv /\ BillInv /\ [Next]_vars
        => BillInv'
  BY BillNext
<1>3. BillInv => OneStatementPerContract
  BY DEF BillInv
<1> QED
  BY <1>1, <1>2, <1>3, HeldAlways, AskedAlways, TypeCorrect, PTL DEF Spec
-----------------------------------------------------------------------------
(* What a period bills is out of reach of the handlers of other periods,   *)
(* and of its own once it is closed.                                       *)

LEMMA LedgerKept ==
  ASSUME TypeOK, AskedInv, NoMoves, NEW w \in Workers, Held(job[w]), Serve(w),
         NEW p \in Periods,
         p # job[w].period \/ status[p] \notin MutableStatuses
  PROVE  StatementsOf(p)' = StatementsOf(p) /\ Snapshot(p)' = Snapshot(p)
<1>1. ASSUME NEW s \in Statements
      PROVE  /\ stmt[s].period = p => stmt'[s].period = p
             /\ stmt[s].period = p => stmt'[s].balance = stmt[s].balance
             /\ stmt'[s].period = p => stmt[s].period = p
  <2>1. stmt[s] \in StatementRow
    BY DEF TypeOK
  <2>2. CASE p # job[w].period
    BY <2>2, OutOfReach, Origin, CreatedRow
  <2>3. CASE p = job[w].period /\ status[p] \notin MutableStatuses
    <3>1. stmt'[s] = stmt[s] \/ Stamps(w, s) \/ Delivers(w, s)
      BY <2>3, StatementEffects, OpenForChange
    <3> QED
      BY <2>1, <3>1 DEF Stamps, Delivers, StatementRow
  <2> QED
    BY <2>2, <2>3
<1>2. StatementsOf(p)' = StatementsOf(p)
  BY <1>1 DEF StatementsOf
<1>3. \A s \in StatementsOf(p) : stmt'[s].balance = stmt[s].balance
  BY <1>1 DEF StatementsOf
<1> QED
  BY <1>2, <1>3 DEF Snapshot

LEMMA LedgerSame ==
  ASSUME UNCHANGED stmt, NEW p
  PROVE  StatementsOf(p)' = StatementsOf(p) /\ Snapshot(p)' = Snapshot(p)
  BY DEF StatementsOf, Snapshot
-----------------------------------------------------------------------------
(* The stamp of a finalized period is complete.  An open period has no     *)
(* stamped statement, so finalize lists all of them, lists them as lacking *)
(* a hash, and computes a hash that stays true until the last one has it.  *)

OpenUnstamped ==
  \A s \in Statements :
    LiveStatement(s) /\ status[stmt[s].period] \in {"draft", "review"}
      => stmt[s].hash = NoHash

Prepared(w) == job[w].req = "finalize" =>
  /\ job[w].step \in {"hash", "save"} => StatementsOf(job[w].period) \subseteq job[w].todo
  /\ job[w].step \in {"hash", "save", "stamp"} => job[w].todo \subseteq job[w].bare
  /\ job[w].step \in {"save", "stamp"} => job[w].snap = Snapshot(job[w].period)
  /\ job[w].step = "stamp" =>
       \A s \in StatementsOf(job[w].period) \ job[w].todo : stmt[s].hash = job[w].snap

StampInv == /\ OpenUnstamped
            /\ \A w \in Workers : Prepared(w)
            /\ FinalizedIsStamped

LEMMA PreparedOther ==
  ASSUME NEW w \in Workers, job'[w].req # "finalize" PROVE Prepared(w)'
  BY DEF Prepared

LEMMA PreparedKept ==
  ASSUME NEW w \in Workers, Prepared(w), job'[w] = job[w],
         StatementsOf(job[w].period)' = StatementsOf(job[w].period),
         Snapshot(job[w].period)' = Snapshot(job[w].period),
         \A s \in StatementsOf(job[w].period) : stmt'[s].hash = stmt[s].hash
  PROVE  Prepared(w)'
  BY DEF Prepared

LEMMA PreparedFinalize ==
  ASSUME TypeOK, OpenUnstamped, AskedInv, NoMoves, NEW w \in Workers, Held(job[w]),
         Prepared(w),
         \/ Preflight(w) \/ Collect(w) \/ ComputeSnapshot(w)
         \/ SaveFinalized(w) \/ Stamp(w)
  PROVE  Prepared(w)'
<1>1. job \in [Workers -> Job] /\ job[w] \in Job
  BY DEF TypeOK
<1>2. /\ job[w].req = "finalize" /\ job[w].period \in Periods
      /\ Admitted(job[w]) /\ Rowed(job[w])
  BY DEF Preflight, Collect, ComputeSnapshot, SaveFinalized, Stamp, At, Held
<1>3. ASSUME Return(w) PROVE Prepared(w)'
  <2>1. job'[w].req = "idle"
    BY <1>1, <1>3 DEF Return, Continue, Idle
  <2> QED
    BY <2>1, PreparedOther
<1>4. CASE Preflight(w)
  <2>1. CASE Continue(w, [job[w] EXCEPT !.step = "contracts"])
    <3>1. job'[w].step = "contracts"
      BY <1>1, <2>1 DEF Continue, Job
    <3> QED
      BY <3>1 DEF Prepared
  <2> QED
    BY <1>3, <1>4, <2>1 DEF Preflight
<1>5. CASE Collect(w)
  <2> DEFINE own  == StatementsOf(job[w].period)
             todo == {s \in own : \/ stmt[s].status # "finalized"
                                  \/ stmt[s].hash = NoHash}
             open == {s \in own : stmt[s].status # "finalized"}
             bare == {s \in own : stmt[s].hash = NoHash}
  <2>1. status[job[w].period] \in {"draft", "review"}
    BY <1>2, <1>5 DEF Admitted, Collect, At
  <2>2. \A s \in own : stmt[s].hash = NoHash
    BY <1>2, <2>1 DEF OpenUnstamped, LiveStatement, StatementsOf
  <2>3. todo = own /\ bare = own
    BY <2>2
  <2> HIDE DEF todo, open, bare
  <2>4. CASE Continue(w, [job[w] EXCEPT !.step = "hash", !.todo = todo, !.open = open,
                                        !.bare = bare])
    <3>1. /\ job'[w].step = "hash" /\ job'[w].period = job[w].period
          /\ job'[w].todo = todo /\ job'[w].bare = bare
      BY <1>1, <2>4 DEF Continue, Job
    <3>2. StatementsOf(job[w].period)' = own
      BY <1>5, <3>1 DEF Collect, rows, StatementsOf
    <3> QED
      BY <2>3, <3>1, <3>2 DEF Prepared
  <2> QED
    BY <1>3, <1>5, <2>4 DEF Collect, todo, open, bare
<1>6. CASE ComputeSnapshot(w)
  <2> DEFINE snap == Snapshot(job[w].period)
  <2> HIDE DEF snap
  <2>1. /\ job'[w].step = "save" /\ job'[w].period = job[w].period
        /\ job'[w].todo = job[w].todo /\ job'[w].bare = job[w].bare
        /\ job'[w].snap = snap
    BY <1>1, <1>6 DEF ComputeSnapshot, Continue, Job, snap
  <2>2. /\ StatementsOf(job[w].period)' = StatementsOf(job[w].period)
        /\ Snapshot(job[w].period)' = Snapshot(job[w].period)
    BY <1>6, <2>1 DEF ComputeSnapshot, rows, StatementsOf, Snapshot
  <2> QED
    BY <1>2, <1>6, <2>1, <2>2 DEF ComputeSnapshot, At, Prepared, snap
<1>7. CASE SaveFinalized(w)
  <2>1. CASE Continue(w, [job[w] EXCEPT !.step = "stamp"])
    <3>1. /\ job'[w].step = "stamp" /\ job'[w].period = job[w].period
          /\ job'[w].todo = job[w].todo /\ job'[w].bare = job[w].bare
          /\ job'[w].snap = job[w].snap
      BY <1>1, <2>1 DEF Continue, Job
    <3>2. /\ StatementsOf(job[w].period)' = StatementsOf(job[w].period)
          /\ Snapshot(job[w].period)' = Snapshot(job[w].period)
      BY <1>7, <3>1 DEF SaveFinalized, StatementsOf, Snapshot
    <3> QED
      BY <1>2, <1>7, <3>1, <3>2 DEF SaveFinalized, At, Prepared
  <2> QED
    BY <1>3, <1>7, <2>1 DEF SaveFinalized
<1>8. CASE Stamp(w)
  <2> PICK t \in job[w].todo : Stamp(w)!2!(t)
    BY <1>8 DEF Stamp
  <2>1. CASE /\ stmt[t].period \in Periods
             /\ Continue(w, [job[w] EXCEPT !.todo = @ \ {t}])
    <3>1. /\ job'[w].step = "stamp" /\ job'[w].period = job[w].period
          /\ job'[w].todo = job[w].todo \ {t} /\ job'[w].bare = job[w].bare
          /\ job'[w].snap = job[w].snap
      BY <1>1, <1>8, <2>1 DEF Stamp, At, Continue, Job
    <3>2. /\ StatementsOf(job[w].period)' = StatementsOf(job[w].period)
          /\ Snapshot(job[w].period)' = Snapshot(job[w].period)
      <4>1. status[job[w].period] \notin MutableStatuses /\ Serve(w)
        BY <1>2, <1>8 DEF Admitted, Stamp, At, MutableStatuses, ImmutableStatuses, Serve
      <4>2. /\ \A p \in Periods : p = job[w].period =>
              StatementsOf(p)' = StatementsOf(p) /\ Snapshot(p)' = Snapshot(p)
        BY <4>1, LedgerKept
      <4>3. PICK p \in Periods : p = job[w].period
        BY <1>2
      <4>4. StatementsOf(job[w].period)' = StatementsOf(p)'
            /\ Snapshot(job[w].period)' = Snapshot(p)'
        BY <3>1, <4>3
      <4> QED
        BY <4>2, <4>3, <4>4
    <3>3. \A s \in StatementsOf(job[w].period) \ (job[w].todo \ {t}) : stmt'[s].hash = job[w].snap
      <4> TAKE s \in StatementsOf(job[w].period) \ (job[w].todo \ {t})
      <4>1. s \in Statements /\ t \in Statements /\ stmt[s] \in StatementRow
        BY <1>1 DEF StatementsOf, Job, TypeOK
      <4> DEFINE hash == IF t \in job[w].bare THEN job[w].snap ELSE stmt[t].hash
                 st   == IF t \in job[w].open THEN "finalized" ELSE stmt[t].status
                 new  == [stmt[t] EXCEPT !.status = st, !.hash = hash]
      <4>2. stmt' = [stmt EXCEPT ![t] = new]
        BY <2>1, <4>1 DEF TypeOK
      <4>3. CASE s = t
        <5>1. t \in job[w].bare
          BY <1>2, <1>8 DEF Stamp, At, Prepared
        <5>2. stmt'[s] = new /\ hash = job[w].snap
          BY <4>1, <4>2, <4>3, <5>1 DEF TypeOK
        <5> HIDE DEF hash, st
        <5> QED
          BY <4>1, <4>3, <5>2 DEF StatementRow
      <4>4. CASE s # t
        <5> HIDE DEF new
        <5>1. stmt'[s] = stmt[s]
          BY <4>1, <4>2, <4>4, RowSet
        <5> QED
          BY <1>2, <1>8, <4>4, <5>1 DEF Stamp, At, Prepared
      <4> QED
        BY <4>3, <4>4
    <3> QED
      BY <1>2, <1>8, <3>1, <3>2, <3>3 DEF Stamp, At, Prepared
  <2> QED
    BY <1>3, <2>1
<1> QED
  BY <1>4, <1>5, <1>6, <1>7, <1>8

LEMMA PreparedServe ==
  ASSUME TypeOK, OneRequestPerPeriod, HeldInv, AskedInv, NoMoves, OpenUnstamped,
         NEW w \in Workers, Serve(w), NEW v \in Workers, Prepared(v)
  PROVE  Prepared(v)'
<1>1. CASE v # w
  <2>1. job'[v] = job[v]
    BY <1>1, ServeJobs
  <2>2. CASE job[v].req = "finalize"
    <3>1. job[v].period \in Periods /\ job[w].period # job[v].period /\ Held(job[w])
      BY <1>1, <2>2, ServeBusy DEF HeldInv, Held, OneRequestPerPeriod, Busy
    <3>2. \A s \in StatementsOf(job[v].period) : stmt'[s].hash = stmt[s].hash
      BY <3>1, OutOfReach DEF StatementsOf
    <3>3. /\ StatementsOf(job[v].period)' = StatementsOf(job[v].period)
          /\ Snapshot(job[v].period)' = Snapshot(job[v].period)
      <4>1. PICK p \in Periods : p = job[v].period
        BY <3>1
      <4>2. StatementsOf(p)' = StatementsOf(p) /\ Snapshot(p)' = Snapshot(p)
        BY <3>1, <4>1, LedgerKept
      <4>3. StatementsOf(job[v].period)' = StatementsOf(p)'
            /\ Snapshot(job[v].period)' = Snapshot(p)'
        BY <2>1, <4>1
      <4> QED
        BY <4>1, <4>2, <4>3
    <3> QED
      BY <2>1, <3>2, <3>3, PreparedKept
  <2> QED
    BY <2>1, <2>2, PreparedOther
<1>2. CASE v = w
  <2>1. CASE \/ Preflight(w) \/ Collect(w) \/ ComputeSnapshot(w)
             \/ SaveFinalized(w) \/ Stamp(w)
    BY <1>2, <2>1, PreparedFinalize DEF HeldInv
  <2>2. CASE job[w].req # "finalize"
    BY <1>2, <2>2, ServeJobs, PreparedOther
  <2>3. CASE ListContracts(w) \/ ListCosts(w) \/ Reject(w)
    <3>1. job'[w] = Idle \/ job'[w].step \in {"costs", "collect", "list"}
      BY <2>3, ListingStep DEF Return, Continue, TypeOK
    <3> QED
      BY <1>2, <3>1 DEF Prepared, Idle
  <2> QED
    BY <2>1, <2>2, <2>3
       DEF Serve, CheckPeriod, SaveStatus, DropPeriod, ListOld, Purge,
           CreateStatement, PatchStatement, MoveStatement, DropStatement, Deliver,
           ListBalances, Charge, SaveItem, MoveItem, DropItem, CopyPeriod, ListCopies,
           CopyItem, At
<1> QED
  BY <1>1, <1>2

\* A handler that is not an edit changes the status along the machine.
LEMMA StatusMoves ==
  ASSUME TypeOK, AskedInv, NoEdits, NEW w \in Workers, Held(job[w]), Serve(w),
         NEW p \in Periods, status'[p] # status[p]
  PROVE  \/ status[p] = "draft" /\ status'[p] = "review"
         \/ status[p] = "review" /\ status'[p] = "draft"
         \/ status[p] \in {"finalized", "delivered"} /\ status'[p] = "disputed"
         \/ /\ status[p] \in {"draft", "review"} /\ status'[p] = "finalized"
            /\ SaveFinalized(w) /\ p = job[w].period
         \/ /\ status[p] \in MutableStatuses /\ status'[p] = Gone
            /\ DropPeriod(w) /\ p = job[w].period
         \/ status[p] = Unused /\ status'[p] = "draft"
<1>1. CASE SaveStatus(w)
  <2>1. job[w].req \in {"submit_review", "revert_draft", "dispute"}
    BY <1>1 DEF SaveStatus, AskedInv, NoEdits
  <2>2. p = job[w].period /\ status'[p] = job[w].to
    BY <1>1 DEF SaveStatus, TypeOK
  <2> QED
    BY <2>1, <2>2 DEF Held, Admitted
<1>2. CASE SaveFinalized(w)
  <2>1. p = job[w].period /\ status'[p] = "finalized"
    BY <1>2 DEF SaveFinalized, TypeOK
  <2> QED
    BY <1>2, <2>1 DEF SaveFinalized, At, Held, Admitted
<1>3. CASE DropPeriod(w)
  <2>1. p = job[w].period /\ status'[p] = Gone
    BY <1>3 DEF DropPeriod, TypeOK
  <2> QED
    BY <1>3, <2>1 DEF DropPeriod, At, Held, Admitted, EditRequests
<1>4. CASE CopyPeriod(w)
  BY <1>4 DEF CopyPeriod, TypeOK
<1>5. CASE UNCHANGED status
  BY <1>5
<1> QED
  BY <1>1, <1>2, <1>3, <1>4, <1>5
     DEF Serve, CheckPeriod, Preflight, Collect, ComputeSnapshot, Stamp,
         ListContracts, ListCosts, Reject, ListOld, Purge,
         CreateStatement,
         PatchStatement, MoveStatement,
         DropStatement, Deliver, ListBalances, Charge, SaveItem, MoveItem, DropItem,
         ListCopies, CopyItem, rows

LEMMA HashKept ==
  ASSUME TypeOK, AskedInv, NoMoves, NEW w \in Workers, Held(job[w]), Serve(w),
         NEW s \in Statements, ~Stamps(w, s)
  PROVE  stmt'[s].hash \in {stmt[s].hash, NoHash}
<1>1. stmt[s] \in StatementRow
  BY DEF TypeOK
<1>2. CASE Delivers(w, s) \/ Patches(w, s)
  BY <1>1, <1>2 DEF Delivers, Patches, StatementRow
<1>3. CASE Removes(w, s)
  BY <1>3 DEF Removes, Blank
<1> QED
  BY <1>2, <1>3, StatementEffects, NobodyMoves, CreatedRow

LEMMA OpenServe ==
  ASSUME TypeOK, RowsHaveParents, AskedInv, NoMoves, NoEdits, OpenUnstamped,
         NEW w \in Workers, Held(job[w]), Serve(w)
  PROVE  OpenUnstamped'
<1> SUFFICES ASSUME NEW s \in Statements, LiveStatement(s)',
                    status'[stmt'[s].period] \in {"draft", "review"}
             PROVE  stmt'[s].hash = NoHash
  BY DEF OpenUnstamped
<1>1. CASE Creates(w, s)
  BY <1>1, CreatedRow
<1>2. CASE ~Creates(w, s)
  <2>1. stmt[s].period = stmt'[s].period /\ stmt[s].period \in Periods
    BY <1>2, Origin DEF LiveStatement
  <2>2. status[stmt[s].period] \in {"draft", "review"}
    <3>1. status[stmt[s].period] # Unused /\ Gone \notin Statuses
      BY <2>1, BillingAssumption DEF RowsHaveParents, LiveStatement, PeriodExists
    <3> QED
      BY <2>1, <3>1, StatusMoves DEF Statuses
  <2>3. stmt[s].hash = NoHash
    BY <2>1, <2>2 DEF OpenUnstamped, LiveStatement
  <2>4. ~Stamps(w, s)
    <3>1. ASSUME Stamps(w, s) PROVE status[stmt[s].period] = "finalized"
      BY <3>1, OwnRow DEF Stamps, At, Held, Admitted
    <3> QED
      BY <2>2, <3>1
  <2> QED
    BY <2>3, <2>4, HashKept
<1> QED
  BY <1>1, <1>2

LEMMA StampingServe ==
  ASSUME TypeOK, AskedInv, NoMoves, NEW w \in Workers, Held(job[w]), Prepared(w), Serve(w),
         NEW p \in Periods, At(w, "finalize", "stamp"), job[w].period = p, ~Stamping(p)',
         NEW s \in StatementsOf(p)'
  PROVE  stmt'[s].hash = Snapshot(p)
<1>1. job \in [Workers -> Job] /\ job[w] \in Job
  BY DEF TypeOK
<1>2. Stamp(w)
  BY DEF Serve, CheckPeriod, SaveStatus, DropPeriod, Preflight, Collect, ComputeSnapshot,
         SaveFinalized, ListContracts, ListCosts, Reject, ListOld, Purge,
         CreateStatement, PatchStatement,
         MoveStatement, DropStatement, Deliver, ListBalances, Charge, SaveItem, MoveItem,
         DropItem, CopyPeriod, ListCopies, CopyItem, At, Calculates
<1>3. /\ \A t \in job[w].todo : stmt[t].period = p
      /\ status[p] \notin MutableStatuses
  BY DEF Held, Rowed, Listed, Admitted, At, MutableStatuses, ImmutableStatuses
<1>4. /\ job[w].todo \subseteq job[w].bare /\ job[w].snap = Snapshot(p)
      /\ \A t \in StatementsOf(p) \ job[w].todo : stmt[t].hash = job[w].snap
  BY DEF Prepared, At
<1> PICK t \in job[w].todo : Stamp(w)!2!(t)
  BY <1>2 DEF Stamp
<1>5. job[w].todo = {t} /\ t \in Statements
  <2>1. CASE Continue(w, [job[w] EXCEPT !.todo = @ \ {t}])
    <3>1. At(w, "finalize", "stamp")' /\ job'[w].period = p
      BY <1>1, <2>1 DEF Continue, At, Job
    <3> QED
      BY <3>1 DEF Stamping
  <2> QED
    BY <1>1, <1>3, <2>1 DEF Job
<1>6. s \in StatementsOf(p) /\ s \in Statements
  BY <1>3, LedgerKept DEF StatementsOf
<1> DEFINE st  == IF t \in job[w].open THEN "finalized" ELSE stmt[t].status
           new == [stmt[t] EXCEPT !.status = st, !.hash = job[w].snap]
<1>7. stmt' = [stmt EXCEPT ![t] = new]
  BY <1>3, <1>4, <1>5 DEF TypeOK
<1>8. CASE s = t
  <2>1. stmt'[s] = new /\ stmt[t] \in StatementRow
    BY <1>5, <1>7, <1>8 DEF TypeOK
  <2> HIDE DEF st
  <2> QED
    BY <1>4, <2>1 DEF StatementRow
<1>9. CASE s # t
  <2> HIDE DEF new
  <2>1. stmt'[s] = stmt[s]
    BY <1>6, <1>7, <1>9, RowSet
  <2> QED
    BY <1>4, <1>5, <1>6, <1>9, <2>1
<1> QED
  BY <1>8, <1>9

LEMMA FinalizedServe ==
  ASSUME TypeOK, HeldInv, AskedInv, NoMoves, NoEdits, StampInv,
         NEW w \in Workers, Serve(w)
  PROVE  FinalizedIsStamped'
<1> SUFFICES ASSUME NEW p \in Periods, status'[p] = "finalized", ~Stamping(p)',
                    NEW s \in StatementsOf(p)'
             PROVE  stmt'[s].hash = Snapshot(p)'
  BY DEF FinalizedIsStamped
<1>0. Held(job[w]) /\ Prepared(w) /\ job[w] \in Job /\ job \in [Workers -> Job]
  BY DEF HeldInv, StampInv, TypeOK
<1>1. CASE status[p] = "finalized"
  <2>1. StatementsOf(p)' = StatementsOf(p) /\ Snapshot(p)' = Snapshot(p)
    BY <1>0, <1>1, LedgerKept DEF MutableStatuses, ImmutableStatuses
  <2>2. s \in StatementsOf(p) /\ s \in Statements /\ stmt[s].period = p
    BY <2>1 DEF StatementsOf
  <2>3. CASE Stamping(p)
    <3>1. At(w, "finalize", "stamp") /\ job[w].period = p
      BY <2>3, ServeJobs DEF Stamping, At
    <3> QED
      BY <1>0, <2>1, <3>1, StampingServe
  <2>4. CASE ~Stamping(p)
    <3>1. stmt[s].hash = Snapshot(p)
      BY <1>1, <2>2, <2>4 DEF StampInv, FinalizedIsStamped
    <3>2. ~Stamps(w, s)
      BY <1>0, <2>2, <2>4, OwnRow DEF Stamps, Stamping
    <3>3. stmt'[s] = stmt[s] \/ Delivers(w, s)
      <4>1. status[p] \notin MutableStatuses /\ p # Unused
        BY <1>1, BillingAssumption DEF MutableStatuses, ImmutableStatuses
      <4>2. ~Creates(w, s)
        BY <2>2, <4>1, CreatedRow
      <4>3. ~(Removes(w, s) \/ Patches(w, s) \/ Moves(w, s))
        BY <1>0, <2>2, <4>1, OpenForChange, OwnRow
      <4> QED
        BY <1>0, <2>2, <3>2, <4>2, <4>3, StatementEffects
    <3>4. stmt'[s].hash = stmt[s].hash
      BY <2>2, <3>3 DEF Delivers, TypeOK, StatementRow
    <3> QED
      BY <2>1, <3>1, <3>4
  <2> QED
    BY <2>3, <2>4
<1>2. CASE status[p] # "finalized"
  <2>1. SaveFinalized(w) /\ p = job[w].period
    BY <1>0, <1>2, StatusMoves, BillingAssumption DEF Statuses
  <2>2. job[w].todo # {} /\ At(w, "finalize", "save")
    BY <1>0, <2>1 DEF SaveFinalized, At, Prepared, Held, Rowed
  <2>3. PeriodExists(p)
    BY <1>2, <2>1 DEF SaveFinalized
  <2>4. Continue(w, [job[w] EXCEPT !.step = "stamp"])
    BY <2>1, <2>2, <2>3 DEF SaveFinalized
  <2>5. At(w, "finalize", "stamp")' /\ job'[w].period = p
    BY <1>0, <2>1, <2>2, <2>4 DEF Continue, At, Job
  <2> QED
    BY <2>5 DEF Stamping
<1> QED
  BY <1>1, <1>2

LEMMA StampNext ==
  ASSUME TypeOK, RowsHaveParents, OneRequestPerPeriod, HeldInv, AskedInv, NoMoves, NoEdits,
         ~Faults, StampInv, [Next]_vars
  PROVE  StampInv'
<1>1. CASE UNCHANGED <<status, stmt, job>>
  BY <1>1, LedgerSame
     DEF StampInv, OpenUnstamped, LiveStatement, Prepared, FinalizedIsStamped, Stamping, At,
         StatementsOf, Snapshot
<1>2. ASSUME NEW w \in Workers, Receive(w) PROVE StampInv'
  <2>1. /\ UNCHANGED <<status, stmt>> /\ \A v \in Workers : v # w => job'[v] = job[v]
        /\ job'[w].req = "finalize" => job'[w].step \in {"check", "contracts"}
    BY <1>2, ReceiveJobs, Received DEF rows
  <2>2. job[w].req = "idle"
    BY <1>2 DEF Receive, EditPeriod, DeletePeriod, SubmitForReview, RevertToDraft, Dispute,
       Finalize, Generate, CreateReceivables, Revise, AddItem, LoadStatement, LoadItem,
       Admit, Load
  <2>3. OpenUnstamped'
    BY <2>1 DEF StampInv, OpenUnstamped, LiveStatement
  <2>4. \A v \in Workers : Prepared(v)'
    <3>1. Prepared(w)'
      BY <2>1 DEF Prepared
    <3>2. ASSUME NEW v \in Workers, v # w PROVE Prepared(v)'
      BY <2>1, <3>2, PreparedKept DEF StampInv, StatementsOf, Snapshot
    <3> QED
      BY <3>1, <3>2
  <2>5. \A p \in Periods : Stamping(p) => Stamping(p)'
    BY <2>1, <2>2 DEF Stamping, At
  <2>6. FinalizedIsStamped'
    BY <2>1, <2>5, LedgerSame DEF StampInv, FinalizedIsStamped
  <2> QED
    BY <2>3, <2>4, <2>6 DEF StampInv
<1>3. ASSUME NEW w \in Workers, Serve(w) PROVE StampInv'
  BY <1>3, FinalizedServe, OpenServe, PreparedServe DEF StampInv, HeldInv
<1>4. ASSUME NEW p \in Periods, CreatePeriod(p) PROVE StampInv'
  <2>1. UNCHANGED <<stmt, job>> /\ \A q \in Periods : q # p => status'[q] = status[q]
    BY <1>4 DEF CreatePeriod, TypeOK
  <2>2. \A s \in Statements : stmt[s].period # p
    BY <1>4, BillingAssumption DEF CreatePeriod, RowsHaveParents, LiveStatement, PeriodExists
  <2>3. OpenUnstamped'
    BY <2>1, <2>2 DEF StampInv, OpenUnstamped, LiveStatement
  <2>4. \A v \in Workers : Prepared(v)'
    BY <2>1, PreparedKept DEF StampInv, StatementsOf, Snapshot
  <2>5. FinalizedIsStamped'
    <3> SUFFICES ASSUME NEW q \in Periods, status'[q] = "finalized", ~Stamping(q)',
                        NEW s \in StatementsOf(q)'
                 PROVE  stmt'[s].hash = Snapshot(q)'
      BY DEF FinalizedIsStamped
    <3>1. q # p /\ s \in StatementsOf(q)
      BY <2>1, <2>2 DEF StatementsOf
    <3>2. ~Stamping(q)
      BY <2>1 DEF Stamping, At
    <3> QED
      BY <2>1, <3>1, <3>2, LedgerSame DEF StampInv, FinalizedIsStamped
  <2> QED
    BY <2>3, <2>4, <2>5 DEF StampInv
<1> QED
  BY <1>1, <1>2, <1>3, <1>4 DEF Next, vars, Fail, DeleteKey, SetActive

(* Once finalize is through with a period, every statement of the period   *)
(* carries the hash of what the period's statements say now: unless a      *)
(* store call fails half-way, or an edit writes the status itself.         *)
THEOREM FinalizedStamped ==
  ~Faults /\ NoMoves /\ NoEdits /\ Spec /\ []OneRequestPerPeriod => []FinalizedIsStamped
<1> SUFFICES ASSUME ~Faults, NoMoves, NoEdits
             PROVE  Spec /\ []OneRequestPerPeriod => []FinalizedIsStamped
  OBVIOUS
<1>1. Init => StampInv
  BY BillingAssumption
     DEF Init, StampInv, OpenUnstamped, LiveStatement, Prepared, FinalizedIsStamped, Blank,
         Idle, StatementsOf
<1>2. TypeOK /\ RowsHaveParents /\ OneRequestPerPeriod /\ HeldInv /\ AskedInv /\ StampInv
        /\ [Next]_vars => StampInv'
  BY StampNext
<1>3. StampInv => FinalizedIsStamped
  BY DEF StampInv
<1> QED
  BY <1>1, <1>2, <1>3, HeldAlways, AskedAlways, NoOrphans, TypeCorrect, PTL DEF Spec
-----------------------------------------------------------------------------
(* The refinement: what the users see of a step is a step of the life of a *)
(* period, or nothing.                                                     *)

Ledger == [p \in Periods |-> Snapshot(p)]
LifeStep == [Lifecycle!Next]_<<status, Ledger>>

LEMMA EmptySnapshot ==
  ASSUME NEW p, StatementsOf(p) = {} PROVE Snapshot(p) = Lifecycle!Empty
  BY DEF Snapshot, Lifecycle!Empty

LEMMA LifeQuiet ==
  ASSUME UNCHANGED <<status, stmt>> PROVE LifeStep
<1>1. Ledger' = Ledger
  BY LedgerSame DEF Ledger
<1> QED
  BY <1>1 DEF LifeStep

LEMMA LifeOpen ==
  ASSUME UNCHANGED stmt, NEW p \in Periods, status[p] = Unused,
         status' = [status EXCEPT ![p] = "draft"]
  PROVE  LifeStep
<1>1. Ledger' = Ledger
  BY LedgerSame DEF Ledger
<1>2. Lifecycle!Open(p)
  BY <1>1 DEF Lifecycle!Open, Ledger
<1> QED
  BY <1>2 DEF LifeStep, Lifecycle!Next

\* The ledger of the handler's own period is all a step can change.
LEMMA LedgerStep ==
  ASSUME TypeOK, AskedInv, NoMoves, NEW w \in Workers, Held(job[w]), Serve(w),
         NEW p \in Periods, p = job[w].period
  PROVE  Ledger' = [Ledger EXCEPT ![p] = Snapshot(p)']
<1>1. \A q \in Periods : q # p => Snapshot(q)' = Snapshot(q)
  BY LedgerKept
<1> DEFINE new == Snapshot(p)'
<1>2. \A q \in Periods : Ledger'[q] = IF q = p THEN new ELSE Ledger[q]
  BY <1>1 DEF Ledger
<1> HIDE DEF new
<1>3. Ledger' = [Ledger EXCEPT ![p] = new]
  BY <1>2 DEF Ledger
<1> QED
  BY <1>3 DEF new

LEMMA LifeRework ==
  ASSUME TypeOK, TypeOK', AskedInv, NoMoves, NEW w \in Workers, Held(job[w]), Serve(w),
         UNCHANGED status
  PROVE  LifeStep
<1> PICK p \in Periods : p = job[w].period
  BY ServeBusy DEF Held, Busy
<1>1. Ledger' = [Ledger EXCEPT ![p] = Snapshot(p)']
  BY LedgerStep
<1>2. CASE status[p] \in MutableStatuses
  <2>1. Snapshot(p)' \in Lifecycle!Ledgers
    <3>1. StatementsOf(p)' \in SUBSET Statements
      BY DEF StatementsOf
    <3>2. \A s \in StatementsOf(p)' : stmt'[s].balance \in Amounts
      BY <3>1 DEF TypeOK, StatementRow
    <3>3. Snapshot(p)' \in [StatementsOf(p)' -> Amounts]
      BY <3>2 DEF Snapshot
    <3> QED
      BY <3>1, <3>3 DEF Lifecycle!Ledgers
  <2>2. Lifecycle!Rework(p)
    BY <1>1, <1>2, <2>1
       DEF Lifecycle!Rework, Ledger, MutableStatuses, ImmutableStatuses, Statuses,
           Lifecycle!Statuses, Lifecycle!Closed
  <2> QED
    BY <2>2 DEF LifeStep, Lifecycle!Next
<1>3. CASE status[p] \notin MutableStatuses
  <2>1. Snapshot(p)' = Snapshot(p)
    BY <1>3, LedgerKept
  <2>2. Ledger' = Ledger
    BY <1>1, <2>1 DEF Ledger
  <2> QED
    BY <2>2 DEF LifeStep
<1> QED
  BY <1>2, <1>3

LEMMA LifeServe ==
  ASSUME TypeOK, TypeOK', AskedInv, NoMoves, NoEdits, NEW w \in Workers, Held(job[w]),
         Serve(w)
  PROVE  LifeStep
<1> PICK p \in Periods : p = job[w].period
  BY ServeBusy DEF Held, Busy
<1>1. status \in [Periods -> Statuses \cup {Unused, Gone}]
  BY DEF TypeOK
<1>2. CASE UNCHANGED status
  BY <1>2, LifeRework
<1>3. CASE SaveStatus(w) \/ SaveFinalized(w)
  <2> PICK to : status' = [status EXCEPT ![p] = to] \/ UNCHANGED status
    BY <1>3 DEF SaveStatus, SaveFinalized
  <2>1. Ledger' = Ledger
    BY <1>3, LedgerSame DEF SaveStatus, SaveFinalized, Ledger
  <2>2. CASE status'[p] # status[p]
    <3>1. status' = [status EXCEPT ![p] = status'[p]]
      BY <1>1, <2>2
    <3>2. \/ status[p] = "draft" /\ status'[p] = "review"
          \/ status[p] = "review" /\ status'[p] = "draft"
          \/ status[p] \in {"finalized", "delivered"} /\ status'[p] = "disputed"
          \/ /\ status[p] \in {"draft", "review"} /\ status'[p] = "finalized"
             /\ SaveFinalized(w)
      <4>1. ~DropPeriod(w)
        BY <1>3 DEF SaveStatus, SaveFinalized, DropPeriod, At
      <4>2. status[p] # Unused
        BY <1>1, <1>3, <2>2, BillingAssumption DEF SaveStatus, SaveFinalized, PeriodExists
      <4> QED
        BY <2>2, <4>1, <4>2, StatusMoves
    <3>3. SaveFinalized(w) => DOMAIN Ledger[p] # {}
      BY DEF SaveFinalized, At, Held, Rowed, Ledger, Snapshot
    <3>4. /\ status[p] \in Lifecycle!Statuses
          /\ status'[p] \in Lifecycle!Successors(status[p])
          /\ status'[p] = "finalized" => DOMAIN Ledger[p] # {}
      BY <3>2, <3>3 DEF Lifecycle!Statuses, Lifecycle!Successors
    <3>5. Lifecycle!Advance(p)
      BY <2>1, <3>1, <3>4 DEF Lifecycle!Advance, Ledger
    <3> QED
      BY <3>5 DEF LifeStep, Lifecycle!Next
  <2>3. CASE status'[p] = status[p]
    <3>1. UNCHANGED status
      BY <1>1, <2>3
    <3> QED
      BY <2>1, <3>1 DEF LifeStep
  <2> QED
    BY <2>2, <2>3
<1>4. CASE DropPeriod(w) /\ ~UNCHANGED status
  <2>1. /\ status' = [status EXCEPT ![p] = Gone]
        /\ stmt' = [s \in Statements |->
                      IF stmt[s].period = p THEN Blank(Gone) ELSE stmt[s]]
    BY <1>4 DEF DropPeriod
  <2>2. status[p] \in MutableStatuses
    BY <1>4 DEF DropPeriod, At, Held, Admitted, EditRequests
  <2>3. \A s \in Statements : stmt'[s].period # p
    BY <2>1, BillingAssumption DEF Blank
  <2>4. Snapshot(p)' = Lifecycle!Empty
    <3>1. StatementsOf(p)' = {}
      BY <2>3 DEF StatementsOf
    <3> QED
      BY <3>1 DEF Snapshot, Lifecycle!Empty
  <2>5. Ledger' = [Ledger EXCEPT ![p] = Lifecycle!Empty]
    BY <2>4, LedgerStep
  <2>6. Lifecycle!Discard(p)
    BY <2>1, <2>2, <2>5
       DEF Lifecycle!Discard, Ledger, MutableStatuses, ImmutableStatuses, Statuses,
           Lifecycle!Statuses, Lifecycle!Closed
  <2> QED
    BY <2>6 DEF LifeStep, Lifecycle!Next
<1>5. CASE CopyPeriod(w)
  BY <1>5, LifeOpen DEF CopyPeriod
<1> QED
  BY <1>2, <1>3, <1>4, <1>5
     DEF Serve, CheckPeriod, Preflight, Collect, ComputeSnapshot, Stamp,
         ListContracts, ListCosts, Reject, ListOld, Purge,
         CreateStatement,
         PatchStatement, MoveStatement,
         DropStatement, Deliver, ListBalances, Charge, SaveItem, MoveItem, DropItem,
         ListCopies, CopyItem, rows

LEMMA LifeNext ==
  ASSUME TypeOK, TypeOK', HeldInv, AskedInv, NoMoves, NoEdits,
         PayloadStatuses \subseteq {"draft"}, [Next]_vars
  PROVE  LifeStep
<1>1. CASE UNCHANGED <<status, stmt>>
  BY <1>1, LifeQuiet
<1>2. ASSUME NEW w \in Workers, Serve(w) PROVE LifeStep
  BY <1>2, LifeServe DEF HeldInv
<1>3. ASSUME NEW p \in Periods, CreatePeriod(p) PROVE LifeStep
  BY <1>3, LifeOpen DEF CreatePeriod
<1> QED
  BY <1>1, <1>2, <1>3, ReceiveJobs DEF Next, vars, rows, Fail, DeleteKey, SetActive

(* The workflow implements the life of a billing period: whatever a        *)
(* handler does in several store calls is, for the users, one rework,      *)
(* advance or discard of an open period, and nothing on a closed one.      *)
THEOREM PeriodsLive ==
  NoMoves /\ NoEdits /\ PayloadStatuses \subseteq {"draft"} /\ Spec /\ []OneRequestPerPeriod
    => ImplementsLifecycle
<1> SUFFICES ASSUME NoMoves, NoEdits, PayloadStatuses \subseteq {"draft"}
             PROVE  Spec /\ []OneRequestPerPeriod => ImplementsLifecycle
  OBVIOUS
<1>1. Init => Lifecycle!Init
  <2> SUFFICES ASSUME Init PROVE Lifecycle!Init
    OBVIOUS
  <2>1. \A p \in Periods : StatementsOf(p) = {}
    BY BillingAssumption DEF Init, StatementsOf, Blank
  <2>2. \A p \in Periods : Snapshot(p) = Lifecycle!Empty
    BY <2>1, EmptySnapshot
  <2> QED
    BY <2>2 DEF Init, Lifecycle!Init
<1>2. TypeOK /\ TypeOK' /\ HeldInv /\ AskedInv /\ [Next]_vars
        => [Lifecycle!Next]_<<status, [p \in Periods |-> Snapshot(p)]>>
  BY LifeNext DEF LifeStep, Ledger
<1> QED
  BY <1>1, <1>2, HeldAlways, AskedAlways, TypeCorrect, PTL
     DEF Spec, ImplementsLifecycle, Lifecycle!Spec
=============================================================================
