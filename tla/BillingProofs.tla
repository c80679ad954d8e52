---------------------------- MODULE BillingProofs ----------------------------
(***************************************************************************)
(* Proofs about the billing workflow, for any sets of workers, periods,    *)
(* rows and requests: types; and safety however handlers interleave:       *)
(* deletes leave no orphans, and a stamp covers its statement.             *)
(***************************************************************************)
EXTENDS BillingProperties, TLAPS

(* Changing fields of one job within their types keeps the jobs well typed *)
(* whatever the handler is.                                                *)
LEMMA IdleIsJob == Idle \in Job
  BY DEF Idle, Job, AllRequests, Steps, Statuses

LEMMA ContinueType ==
  ASSUME TypeOK, NEW w \in Workers, NEW next \in Job, Continue(w, next)
  PROVE  job' \in [Workers -> Job]
  BY DEF Continue, TypeOK

LEMMA ReturnType ==
  ASSUME TypeOK, NEW w \in Workers, Return(w)
  PROVE  job' \in [Workers -> Job]
  BY IdleIsJob, ContinueType DEF Return

LEMMA JobFields ==
  ASSUME NEW j \in Job
  PROVE  /\ \A x \in Steps : [j EXCEPT !.step = x] \in Job
         /\ \A x \in SUBSET Statements : [j EXCEPT !.todo = x] \in Job
         /\ \A x \in SUBSET Contracts : [j EXCEPT !.bill = x] \in Job
         /\ \A x \in SUBSET (Items \X (Keys \cup {Unused})) : [j EXCEPT !.copies = x] \in Job
  BY DEF Job

(* A revision goes on in its new period, and keeps the old one as its row. *)
LEMMA CopyingJob ==
  ASSUME NEW j \in Job, NEW q \in Periods, NEW r \in Periods \cup {Unused}
  PROVE  [j EXCEPT !.step = "list", !.period = q, !.row = r] \in Job
<1>1. "list" \in Steps
  BY DEF Steps
<1>2. r \in Statements \cup Items \cup Periods \cup {Unused}
  OBVIOUS
<1>3. [j EXCEPT !.step = "list"] \in Job
  BY <1>1, JobFields
<1>4. \A k \in Job : [k EXCEPT !.period = q] \in Job
  BY DEF Job
<1>5. \A k \in Job : [k EXCEPT !.row = r] \in Job
  BY <1>2 DEF Job
<1>6. [[[j EXCEPT !.step = "list"] EXCEPT !.period = q] EXCEPT !.row = r] \in Job
  BY <1>3, <1>4, <1>5
<1> QED BY <1>6

LEMMA SnapshotType ==
  ASSUME TypeOK, NEW p
  PROVE  Snapshot(p) \in Snapshots
<1>1. StatementsOf(p) \in SUBSET Statements
  BY DEF StatementsOf
<1>2. \A s \in StatementsOf(p) : stmt[s].balance \in Amounts
  BY DEF StatementsOf, TypeOK, StatementRow
<1>3. Snapshot(p) \in [StatementsOf(p) -> Amounts]
  BY <1>2 DEF Snapshot
<1> QED
  BY <1>1, <1>3 DEF Snapshots

(* The first store call of a handler, or the load of a row. *)
LEMMA TypeAdmit ==
  ASSUME TypeOK, NEW w \in Workers, NEW req \in AllRequests, NEW from,
         NEW p \in Periods, NEW next \in Steps, NEW to \in Statuses,
         Admit(w, req, from, p, next, to)
  PROVE  TypeOK'
<1>1. [Idle EXCEPT !.req = req, !.step = next, !.period = p, !.to = to] \in Job
  BY IdleIsJob DEF Job, Idle
<1>2. job' \in [Workers -> Job]
  BY <1>1, ContinueType DEF Admit
<1> QED
  BY <1>2 DEF Admit, TypeOK, rows

LEMMA TypeReceive ==
  ASSUME TypeOK, NEW w \in Workers, Receive(w)
  PROVE  TypeOK'
<1>1. ASSUME NEW p \in Periods, EditPeriod(w, p) PROVE TypeOK'
  BY <1>1, TypeAdmit, BillingAssumption
     DEF EditPeriod, AllRequests, Steps
<1>2. ASSUME NEW p \in Periods,
             \/ DeletePeriod(w, p) \/ SubmitForReview(w, p)
             \/ RevertToDraft(w, p) \/ Dispute(w, p) \/ Finalize(w, p)
      PROVE TypeOK'
  BY <1>2, TypeAdmit
     DEF DeletePeriod, SubmitForReview, RevertToDraft, Dispute, Finalize,
         AllRequests, Steps, Statuses
<1>3. ASSUME NEW p \in Periods,
             \/ Generate(w, p) \/ CreateReceivables(w, p)
             \/ Revise(w, p) \/ AddItem(w, p)
      PROVE TypeOK'
  BY <1>3, TypeAdmit
     DEF Generate, CreateReceivables, Revise, AddItem,
         AllRequests, Steps, Statuses
<1>4. ASSUME NEW req \in AllRequests, NEW row \in Statements \cup Items,
             NEW p, Load(w, req, row, p)
      PROVE TypeOK'
  <2>1. [Idle EXCEPT !.req = req, !.row = row, !.period = p] \in Job
    BY <1>4, IdleIsJob DEF Load, Job, Idle
  <2>2. job' \in [Workers -> Job]
    BY <1>4, <2>1, ContinueType DEF Load
  <2> QED
    BY <1>4, <2>2 DEF Load, TypeOK, rows
<1>5. ASSUME NEW s \in Statements, LoadStatement(w, s) PROVE TypeOK'
  BY <1>4, <1>5 DEF LoadStatement, AllRequests
<1>6. ASSUME NEW i \in Items, LoadItem(w, i) PROVE TypeOK'
  BY <1>4, <1>6 DEF LoadItem, AllRequests
<1> QED
  BY <1>1, <1>2, <1>3, <1>5, <1>6 DEF Receive

(* The steps that only change periods. *)
LEMMA TypeStatuses ==
  ASSUME TypeOK, NEW w \in Workers,
         CheckPeriod(w) \/ SaveStatus(w) \/ DropPeriod(w)
  PROVE  TypeOK'
<1>1. job[w] \in Job
  BY DEF TypeOK
<1>2. CASE CheckPeriod(w)
  <2>1. job' \in [Workers -> Job]
    BY <1>1, <1>2, JobFields, ContinueType, ReturnType DEF CheckPeriod, Steps
  <2> QED
    BY <1>2, <2>1 DEF CheckPeriod, TypeOK, rows
<1>3. CASE SaveStatus(w)
  BY <1>1, <1>3, ReturnType DEF SaveStatus, TypeOK, Job
<1>4. CASE DropPeriod(w)
  <2>1. Blank(Gone) \in StatementRow
    BY DEF Blank, StatementRow, StatementStatuses, Amounts
  <2>2. stmt' \in [Statements -> StatementRow]
    BY <1>4, <2>1 DEF DropPeriod, TypeOK
  <2>3. status' \in [Periods -> Statuses \cup {Unused, Gone}]
    BY <1>4 DEF DropPeriod, TypeOK
  <2>4. item' \in [Items -> [period : Periods \cup {Unused, Gone},
                             key : Keys \cup {Unused}]]
    BY <1>4 DEF DropPeriod, TypeOK
  <2> QED
    BY <1>4, <2>2, <2>3, <2>4, ReturnType DEF DropPeriod, TypeOK
<1> QED
  BY <1>2, <1>3, <1>4

LEMMA TypeFinalize ==
  ASSUME TypeOK, NEW w \in Workers,
         \/ Preflight(w) \/ Collect(w) \/ ComputeSnapshot(w)
         \/ SaveFinalized(w) \/ Stamp(w)
  PROVE  TypeOK'
<1>1. job[w] \in Job
  BY DEF TypeOK
<1>2. CASE Preflight(w)
  <2>1. job' \in [Workers -> Job]
    BY <1>1, <1>2, JobFields, ContinueType, ReturnType DEF Preflight, Steps
  <2> QED
    BY <1>2, <2>1 DEF Preflight, TypeOK, rows
<1>3. CASE Collect(w)
  <2> DEFINE own  == StatementsOf(job[w].period)
             todo == {s \in own : \/ stmt[s].status # "finalized"
                                  \/ stmt[s].hash = NoHash}
             open == {s \in own : stmt[s].status # "finalized"}
             bare == {s \in own : stmt[s].hash = NoHash}
  <2>1. {todo, open, bare} \subseteq SUBSET Statements
    BY DEF StatementsOf
  <2> HIDE DEF todo, open, bare
  <2>2. [job[w] EXCEPT !.step = "hash", !.todo = todo, !.open = open, !.bare = bare] \in Job
    BY <1>1, <2>1 DEF Job, Steps
  <2>3. job' \in [Workers -> Job]
    BY <1>3, <2>2, ContinueType, ReturnType DEF Collect, todo, open, bare
  <2> QED
    BY <1>3, <2>3 DEF Collect, TypeOK, rows
<1>4. CASE ComputeSnapshot(w)
  <2>1. [job[w] EXCEPT !.step = "save", !.snap = Snapshot(job[w].period)] \in Job
    BY <1>1, SnapshotType DEF Job, Steps
  <2>2. job' \in [Workers -> Job]
    BY <1>4, <2>1, ContinueType DEF ComputeSnapshot
  <2> QED
    BY <1>4, <2>2 DEF ComputeSnapshot, TypeOK, rows
<1>5. CASE SaveFinalized(w)
  <2>1. job' \in [Workers -> Job]
    BY <1>1, <1>5, JobFields, ContinueType, ReturnType DEF SaveFinalized, Steps
  <2>2. status' \in [Periods -> Statuses \cup {Unused, Gone}]
    BY <1>5 DEF SaveFinalized, TypeOK, Statuses
  <2> QED
    BY <1>5, <2>1, <2>2 DEF SaveFinalized, TypeOK
<1>6. CASE Stamp(w)
  <2> PICK s \in job[w].todo : Stamp(w)!2!(s)
    BY <1>6 DEF Stamp
  <2>1. s \in Statements /\ job[w].todo \ {s} \in SUBSET Statements
    BY <1>1 DEF Job
  <2>2. job' \in [Workers -> Job]
    BY <1>1, <2>1, JobFields, ContinueType, ReturnType
  <2> DEFINE hash == IF s \in job[w].bare THEN job[w].snap ELSE stmt[s].hash
             st   == IF s \in job[w].open THEN "finalized" ELSE stmt[s].status
             row  == [stmt[s] EXCEPT !.status = st, !.hash = hash]
  <2>3. hash \in Snapshots \cup {NoHash} /\ st \in StatementStatuses
    BY <1>1, <2>1 DEF TypeOK, StatementRow, StatementStatuses, Job
  <2> HIDE DEF hash, st
  <2>4. row \in StatementRow
    <3>1. stmt[s] \in StatementRow
      BY <2>1 DEF TypeOK
    <3> QED
      BY <2>3, <3>1 DEF StatementRow, StatementStatuses
  <2>5. stmt' = stmt \/ stmt' = [stmt EXCEPT ![s] = row]
    BY <2>1 DEF TypeOK, hash, st
  <2>6. stmt' \in [Statements -> StatementRow]
    BY <2>4, <2>5 DEF TypeOK
  <2> QED
    BY <1>6, <2>2, <2>6 DEF Stamp, TypeOK
<1> QED
  BY <1>2, <1>3, <1>4, <1>5, <1>6

LEMMA TypeGenerate ==
  ASSUME TypeOK, NEW w \in Workers,
         \/ ListContracts(w) \/ ListCosts(w) \/ Reject(w) \/ ListOld(w)
         \/ Purge(w) \/ CreateStatement(w)
  PROVE  TypeOK'
<1>1. job[w] \in Job
  BY DEF TypeOK
<1>2. CASE ListContracts(w)
  <2>1. [job[w] EXCEPT !.step = "costs", !.bill = active] \in Job
    BY <1>1 DEF Job, Steps, TypeOK
  <2>2. job' \in [Workers -> Job]
    BY <1>2, <2>1, ContinueType, ReturnType DEF ListContracts
  <2> QED
    BY <1>2, <2>2 DEF ListContracts, TypeOK, rows
<1>7. CASE ListCosts(w)
  <2> DEFINE next == IF job[w].req = "finalize" THEN "collect" ELSE "list"
  <2>1. [job[w] EXCEPT !.step = next] \in Job
    BY <1>1 DEF Job, Steps
  <2>2. job' \in [Workers -> Job]
    BY <1>7, <2>1, ContinueType, ReturnType DEF ListCosts
  <2> QED
    BY <1>7, <2>2 DEF ListCosts, TypeOK, rows
<1>3. CASE Reject(w)
  BY <1>3, ReturnType DEF Reject, TypeOK, rows
<1>4. CASE ListOld(w)
  <2> DEFINE own  == StatementsOf(job[w].period)
             next == IF own = {} THEN "create" ELSE "purge"
  <2>1. own \in SUBSET Statements /\ next \in Steps
    BY DEF StatementsOf, Steps
  <2> HIDE DEF own, next
  <2>2. [job[w] EXCEPT !.todo = own, !.step = next] \in Job
    BY <1>1, <2>1 DEF Job
  <2>3. job' \in [Workers -> Job]
    BY <1>4, <2>2, ContinueType DEF ListOld, own, next
  <2> QED
    BY <1>4, <2>3 DEF ListOld, TypeOK, rows
<1>5. CASE Purge(w)
  <2> PICK s \in job[w].todo : Purge(w)!2!(s)
    BY <1>5 DEF Purge
  <2> DEFINE todo == job[w].todo \ {s}
             next == IF job[w].todo = {s} THEN "create" ELSE job[w].step
  <2>1. s \in Statements /\ todo \in SUBSET Statements /\ next \in Steps
    BY <1>1 DEF Job, Steps
  <2>2. \/ Continue(w, [job[w] EXCEPT !.todo = todo, !.step = next])
        \/ Return(w)
    OBVIOUS
  <2> HIDE DEF todo, next
  <2>5. [job[w] EXCEPT !.todo = todo, !.step = next] \in Job
    BY <1>1, <2>1 DEF Job
  <2>3. job' \in [Workers -> Job]
    BY <2>2, <2>5, ContinueType, ReturnType
  <2>4. stmt' \in [Statements -> StatementRow]
    BY <2>1 DEF TypeOK, StatementRow, StatementStatuses, Blank, Amounts
  <2> QED
    BY <1>5, <2>3, <2>4 DEF Purge, TypeOK
<1>6. CASE CreateStatement(w)
  <2> PICK c \in job[w].bill, s \in Statements, b \in Balances :
           CreateStatement(w)!2!(c, s, b)
    BY <1>6 DEF CreateStatement
  <2>1. c \in Contracts /\ job[w].bill \ {c} \in SUBSET Contracts
    BY <1>1 DEF Job
  <2>2. job' \in [Workers -> Job]
    BY <1>1, <2>1, JobFields, ContinueType, ReturnType
  <2>3. [period |-> job[w].period, contract |-> c, balance |-> b,
         hash |-> NoHash, status |-> "draft"] \in StatementRow
    BY <1>1, <2>1 DEF StatementRow, StatementStatuses, Job, Amounts
  <2>4. stmt' \in [Statements -> StatementRow]
    BY <2>3 DEF TypeOK
  <2> QED
    BY <1>6, <2>2, <2>4 DEF CreateStatement, TypeOK
<1> QED
  BY <1>2, <1>3, <1>4, <1>5, <1>6, <1>7

LEMMA TypeStatements ==
  ASSUME TypeOK, NEW w \in Workers,
         \/ PatchStatement(w) \/ MoveStatement(w) \/ DropStatement(w)
         \/ Deliver(w)
  PROVE  TypeOK'
<1>1. Blank(Gone) \in StatementRow
  BY DEF Blank, StatementRow, StatementStatuses, Amounts
<1>2. stmt' \in [Statements -> StatementRow]
  <2> DEFINE r == job[w].row
  <2>1. CASE PatchStatement(w)
    <3>1. ASSUME NEW b \in Balances, NEW s \in Statements
          PROVE  [stmt EXCEPT ![r].balance = b][s] \in StatementRow
      <4>1. stmt[s] \in StatementRow /\ b \in Amounts
        BY <3>1 DEF TypeOK, Amounts
      <4>2. [stmt[s] EXCEPT !.balance = b] \in StatementRow
        BY <4>1 DEF StatementRow
      <4> QED BY <4>1, <4>2 DEF TypeOK
    <3>2. ASSUME NEW st \in StatementPayloads, NEW s \in Statements
          PROVE  [stmt EXCEPT ![r].status = st][s] \in StatementRow
      BY <3>2, BillingAssumption DEF TypeOK, StatementRow
    <3> QED
      BY <2>1, <3>1, <3>2 DEF PatchStatement, TypeOK
  <2>2. CASE MoveStatement(w)
    <3>1. ASSUME NEW q \in Periods, NEW c \in Contracts, NEW s \in Statements
          PROVE  [stmt EXCEPT ![r].period = q, ![r].contract = c][s] \in StatementRow
      <4>1. stmt[s] \in StatementRow
        BY DEF TypeOK
      <4>2. [stmt[s] EXCEPT !.period = q, !.contract = c] \in StatementRow
        BY <3>1, <4>1 DEF StatementRow
      <4> QED BY <4>1, <4>2 DEF TypeOK
    <3> QED
      BY <2>2, <3>1 DEF MoveStatement, TypeOK
  <2>3. CASE DropStatement(w)
    BY <1>1, <2>3 DEF DropStatement, TypeOK
  <2>4. CASE Deliver(w)
    <3>1. ASSUME NEW s \in Statements
          PROVE  [stmt EXCEPT ![r].status = "delivered"][s] \in StatementRow
      <4>1. stmt[s] \in StatementRow /\ "delivered" \in StatementStatuses
        BY DEF TypeOK, StatementStatuses
      <4>2. [stmt[s] EXCEPT !.status = "delivered"] \in StatementRow
        BY <4>1 DEF StatementRow
      <4> QED BY <4>1, <4>2 DEF TypeOK
    <3> QED
      BY <2>4, <3>1 DEF Deliver, TypeOK
  <2> QED
    BY <2>1, <2>2, <2>3, <2>4
<1> QED
  BY <1>2, ReturnType
     DEF PatchStatement, MoveStatement, DropStatement, Deliver, TypeOK

LEMMA TypeReceivables ==
  ASSUME TypeOK, NEW w \in Workers, ListBalances(w) \/ Charge(w)
  PROVE  TypeOK'
<1>1. job[w] \in Job
  BY DEF TypeOK
<1>2. CASE ListBalances(w)
  <2> DEFINE due == {s \in StatementsOf(job[w].period) : stmt[s].balance # 0}
  <2>1. due \in SUBSET Statements
    BY DEF StatementsOf
  <2> HIDE DEF due
  <2>2. [job[w] EXCEPT !.step = "act", !.todo = due] \in Job
    BY <1>1, <2>1 DEF Job, Steps
  <2>3. job' \in [Workers -> Job]
    BY <1>2, <2>2, ContinueType, ReturnType DEF ListBalances, due
  <2> QED
    BY <1>2, <2>3 DEF ListBalances, TypeOK, rows
<1>3. CASE Charge(w)
  <2> PICK s \in job[w].todo : Charge(w)!2!(s)
    BY <1>3 DEF Charge
  <2>1. s \in Statements /\ job[w].todo \ {s} \in SUBSET Statements
    BY <1>1 DEF Job
  <2>2. job' \in [Workers -> Job]
    BY <1>1, <2>1, JobFields, ContinueType, ReturnType
  <2>3. charges' \in [Statements -> Nat]
    BY <2>1 DEF TypeOK
  <2> QED
    BY <1>3, <2>2, <2>3 DEF Charge, TypeOK
<1> QED
  BY <1>2, <1>3

LEMMA TypeItems ==
  ASSUME TypeOK, NEW w \in Workers,
         \/ SaveItem(w) \/ MoveItem(w) \/ DropItem(w)
         \/ CopyPeriod(w) \/ ListCopies(w) \/ CopyItem(w)
  PROVE  TypeOK'
<1> DEFINE ItemRow == [period : Periods \cup {Unused, Gone},
                       key : Keys \cup {Unused}]
<1>1. job[w] \in Job
  BY DEF TypeOK
<1>2. CASE SaveItem(w) \/ MoveItem(w) \/ DropItem(w)
  <2>1. item' \in [Items -> ItemRow]
    BY <1>1, <1>2 DEF SaveItem, MoveItem, DropItem, TypeOK, Job
  <2> QED
    BY <1>2, <2>1, ReturnType DEF SaveItem, MoveItem, DropItem, TypeOK
<1>3. CASE CopyPeriod(w)
  <2> PICK q \in Periods : CopyPeriod(w)!2!(q)
    BY <1>3 DEF CopyPeriod
  <2>1. [job[w] EXCEPT !.step = "list", !.period = q, !.row = job[w].period]
          \in Job
    <3>1. job[w].period \in Periods \cup {Unused}
      BY <1>1 DEF Job
    <3> QED BY <1>1, <3>1, CopyingJob
  <2>2. job' \in [Workers -> Job]
    BY <2>1, ContinueType
  <2>3. status' \in [Periods -> Statuses \cup {Unused, Gone}]
    BY DEF TypeOK, Statuses
  <2> QED
    BY <1>3, <2>2, <2>3 DEF CopyPeriod, TypeOK
<1>4. CASE ListCopies(w)
  <2> DEFINE src == {<<i, item[i].key>> : i \in ItemsOf(job[w].row)}
  <2>1. src \in SUBSET (Items \X (Keys \cup {Unused}))
    BY DEF ItemsOf, TypeOK
  <2> HIDE DEF src
  <2>2. [job[w] EXCEPT !.step = "copy", !.copies = src] \in Job
    BY <1>1, <2>1 DEF Job, Steps
  <2>3. job' \in [Workers -> Job]
    BY <1>4, <2>2, ContinueType, ReturnType DEF ListCopies, src
  <2> QED
    BY <1>4, <2>3 DEF ListCopies, TypeOK, rows
<1>5. CASE CopyItem(w)
  <2> PICK src \in job[w].copies, i \in Items : CopyItem(w)!2!(src, i)
    BY <1>5 DEF CopyItem
  <2>1. job[w].copies \ {src} \in SUBSET (Items \X (Keys \cup {Unused}))
    BY <1>1 DEF Job
  <2>2. job' \in [Workers -> Job]
    BY <1>1, <2>1, JobFields, ContinueType, ReturnType
  <2>3. item' \in [Items -> ItemRow]
    <3>1. job[w].period \in Periods \cup {Unused} /\ keys \subseteq Keys
      BY <1>1 DEF Job, TypeOK
    <3> QED
      BY <3>1 DEF TypeOK
  <2> QED
    BY <1>5, <2>2, <2>3 DEF CopyItem, TypeOK
<1> QED
  BY <1>2, <1>3, <1>4, <1>5

LEMMA TypeNext ==
  ASSUME TypeOK, [Next]_vars
  PROVE  TypeOK'
<1>1. CASE UNCHANGED vars
  BY <1>1 DEF vars, TypeOK
<1>2. ASSUME NEW w \in Workers, Receive(w) PROVE TypeOK'
  BY <1>2, TypeReceive
<1>3. ASSUME NEW w \in Workers, Serve(w) PROVE TypeOK'
  BY <1>3, TypeStatuses, TypeFinalize, TypeGenerate, TypeStatements,
     TypeReceivables, TypeItems DEF Serve
<1>4. ASSUME NEW w \in Workers, Fail(w) PROVE TypeOK'
  BY <1>4, ReturnType DEF Fail, TypeOK, rows
<1>5. ASSUME NEW p \in Periods, CreatePeriod(p) PROVE TypeOK'
  BY <1>5, BillingAssumption DEF CreatePeriod, TypeOK
<1>6. ASSUME NEW k \in Keys, DeleteKey(k) PROVE TypeOK'
  BY <1>6 DEF DeleteKey, TypeOK
<1>7. ASSUME NEW c \in Contracts, SetActive(c) PROVE TypeOK'
  BY <1>7 DEF SetActive, TypeOK
<1> QED
  BY <1>1, <1>2, <1>3, <1>4, <1>5, <1>6, <1>7 DEF Next

(* Every row, and the local state of every handler, has the form its       *)
(* table and its code give it, whatever the clients call.                  *)
THEOREM TypeCorrect == Spec => []TypeOK
<1>1. Init => TypeOK
  <2> SUFFICES ASSUME Init PROVE TypeOK
    OBVIOUS
  <2>1. Blank(Unused) \in StatementRow
    BY DEF Blank, StatementRow, StatementStatuses, Amounts
  <2> QED
    BY <2>1, IdleIsJob DEF Init, TypeOK
<1> QED
  BY <1>1, TypeNext, PTL DEF Spec
-----------------------------------------------------------------------------
(* No orphans.  RowsHaveParents is inductive next to TypeOK: what a handler*)
(* read earlier plays no part in it, since every call that writes a row    *)
(* checks the foreign key when it writes.                                  *)

LEMMA ParentsQuiet ==
  ASSUME RowsHaveParents, UNCHANGED <<status, stmt, item, keys>>
  PROVE  RowsHaveParents'
  BY DEF RowsHaveParents, LiveStatement, LiveItem, PeriodExists

LEMMA ParentsReceive ==
  ASSUME RowsHaveParents, NEW w \in Workers, Receive(w)
  PROVE  RowsHaveParents'
<1>1. UNCHANGED rows
  BY DEF Receive, EditPeriod, DeletePeriod, SubmitForReview, RevertToDraft,
         Dispute, Finalize, Generate, CreateReceivables, Revise, AddItem,
         LoadStatement, LoadItem, Admit, Load
<1> QED
  BY <1>1, ParentsQuiet DEF rows

LEMMA ParentsStatuses ==
  ASSUME TypeOK, RowsHaveParents, NEW w \in Workers,
         SaveStatus(w) \/ SaveFinalized(w) \/ DropPeriod(w) \/ CopyPeriod(w)
  PROVE  RowsHaveParents'
<1>1. CASE SaveStatus(w) \/ SaveFinalized(w) \/ CopyPeriod(w)
  <2>1. job[w].to \in Statuses
    BY DEF TypeOK, Job
  <2>2. \A p \in Periods : PeriodExists(p) => PeriodExists(p)'
    BY <1>1, <2>1
       DEF SaveStatus, SaveFinalized, CopyPeriod, PeriodExists, TypeOK, Statuses
  <2>3. UNCHANGED <<stmt, item, keys>>
    BY <1>1 DEF SaveStatus, SaveFinalized, CopyPeriod
  <2> QED
    BY <2>2, <2>3 DEF RowsHaveParents, LiveStatement, LiveItem
<1>2. CASE DropPeriod(w)
  <2> DEFINE p == job[w].period
  <2>1. CASE ~PeriodExists(p)
    BY <1>2, <2>1, ParentsQuiet DEF DropPeriod
  <2>2. CASE PeriodExists(p)
    <3>1. \A q \in Periods : q # p => status'[q] = status[q]
      BY <1>2, <2>2 DEF DropPeriod, TypeOK
    <3>2. \A s \in Statements : LiveStatement(s)' =>
            stmt'[s] = stmt[s] /\ stmt[s].period # p
      BY <1>2, <2>2, BillingAssumption
         DEF DropPeriod, LiveStatement, Blank
    <3>3. \A i \in Items : LiveItem(i)' =>
            item'[i] = item[i] /\ item[i].period # p
      BY <1>2, <2>2, BillingAssumption DEF DropPeriod, LiveItem
    <3>4. keys' = keys
      BY <1>2 DEF DropPeriod
    <3> QED
      BY <3>1, <3>2, <3>3, <3>4
         DEF RowsHaveParents, LiveStatement, LiveItem, PeriodExists
  <2> QED
    BY <2>1, <2>2
<1> QED
  BY <1>1, <1>2

LEMMA ParentsStatements ==
  ASSUME TypeOK, RowsHaveParents, NEW w \in Workers,
         \/ Stamp(w) \/ Purge(w) \/ CreateStatement(w) \/ PatchStatement(w)
         \/ MoveStatement(w) \/ DropStatement(w) \/ Deliver(w)
  PROVE  RowsHaveParents'
<1>1. UNCHANGED <<status, item, keys>>
  BY DEF Stamp, Purge, CreateStatement, PatchStatement, MoveStatement,
         DropStatement, Deliver
<1>2. \A s \in Statements :
        \/ stmt'[s].period = stmt[s].period
        \/ stmt'[s].period = Gone
        \/ PeriodExists(stmt'[s].period)
  <2>1. CASE Stamp(w)
    BY <2>1 DEF Stamp, TypeOK, StatementRow
  <2>2. CASE Purge(w)
    <3> PICK t \in job[w].todo :
             stmt' = stmt \/ stmt' = [stmt EXCEPT ![t] = Blank(Gone)]
      BY <2>2 DEF Purge
    <3>1. Blank(Gone).period = Gone
      BY DEF Blank
    <3> QED
      BY <3>1 DEF TypeOK
  <2>3. CASE CreateStatement(w)
    <3> PICK c \in job[w].bill, t \in Statements, b \in Balances :
             CreateStatement(w)!2!(c, t, b)
      BY <2>3 DEF CreateStatement
    <3>1. CASE stmt' = stmt
      BY <3>1
    <3>2. CASE /\ PeriodExists(job[w].period)
               /\ stmt' = [stmt EXCEPT ![t] =
                    [period |-> job[w].period, contract |-> c, balance |-> b,
                     hash |-> NoHash, status |-> "draft"]]
      <4>1. stmt'[t].period = job[w].period
        BY <3>2 DEF TypeOK
      <4>2. \A s \in Statements : s # t => stmt'[s] = stmt[s]
        BY <3>2 DEF TypeOK
      <4> QED
        BY <3>2, <4>1, <4>2
    <3> QED
      BY <3>1, <3>2
  <2>4. CASE PatchStatement(w)
    <3>1. ASSUME NEW b \in Balances, NEW s \in Statements,
                 stmt' = [stmt EXCEPT ![job[w].row].balance = b]
          PROVE  stmt'[s].period = stmt[s].period
      BY <3>1 DEF TypeOK, StatementRow
    <3>2. ASSUME NEW st \in StatementPayloads, NEW s \in Statements,
                 stmt' = [stmt EXCEPT ![job[w].row].status = st]
          PROVE  stmt'[s].period = stmt[s].period
      BY <3>2 DEF TypeOK, StatementRow
    <3> QED
      BY <2>4, <3>1, <3>2 DEF PatchStatement
  <2>5. CASE MoveStatement(w)
    <3>1. CASE UNCHANGED stmt
      BY <3>1
    <3>2. ASSUME NEW q \in Periods, NEW c \in Contracts, PeriodExists(q),
                 job[w].row \in Statements,
                 stmt' = [stmt EXCEPT ![job[w].row].period = q,
                                      ![job[w].row].contract = c],
                 NEW s \in Statements
          PROVE  \/ stmt'[s].period = stmt[s].period
                 \/ stmt'[s].period = Gone
                 \/ PeriodExists(stmt'[s].period)
      <4>1. stmt'[s].period = stmt[s].period \/ stmt'[s].period = q
        BY <3>2 DEF TypeOK, StatementRow
      <4> QED
        BY <3>2, <4>1
    <3>3. CASE job[w].row \notin Statements
      BY <2>5, <3>3 DEF MoveStatement, TypeOK
    <3> QED
      BY <2>5, <3>1, <3>2, <3>3 DEF MoveStatement
  <2>6. CASE DropStatement(w)
    BY <2>6 DEF DropStatement, TypeOK, Blank
  <2>7. CASE Deliver(w)
    BY <2>7 DEF Deliver, TypeOK, StatementRow
  <2> QED
    BY <2>1, <2>2, <2>3, <2>4, <2>5, <2>6, <2>7
<1> QED
  BY <1>1, <1>2, BillingAssumption
     DEF RowsHaveParents, LiveStatement, LiveItem, PeriodExists

LEMMA ParentsItems ==
  ASSUME TypeOK, RowsHaveParents, NEW w \in Workers,
         SaveItem(w) \/ MoveItem(w) \/ DropItem(w) \/ CopyItem(w)
  PROVE  RowsHaveParents'
<1>1. UNCHANGED <<status, stmt, keys>>
  BY DEF SaveItem, MoveItem, DropItem, CopyItem
<1>2. \A i \in Items :
        \/ item'[i] = item[i]
        \/ item'[i].period = Gone
        \/ /\ PeriodExists(item'[i].period)
           /\ item'[i].key \in keys
  <2>1. CASE SaveItem(w)
    <3>1. ASSUME NEW j \in Items, NEW k \in keys, PeriodExists(job[w].period),
                 item' = [item EXCEPT ![j] =
                            [period |-> job[w].period, key |-> k]],
                 NEW i \in Items
          PROVE  \/ item'[i] = item[i]
                 \/ PeriodExists(item'[i].period) /\ item'[i].key \in keys
      <4>1. CASE i = j
        BY <3>1, <4>1 DEF TypeOK
      <4>2. CASE i # j
        BY <3>1, <4>2 DEF TypeOK
      <4> QED
        BY <4>1, <4>2
    <3> QED
      BY <2>1, <3>1 DEF SaveItem
  <2>2. CASE MoveItem(w)
    <3> DEFINE r == job[w].row
    <3>1. ASSUME NEW q \in Periods, PeriodExists(q), item[r].period \in Periods,
                 NEW k \in keys,
                 item' = [item EXCEPT ![r] = [period |-> q, key |-> k]],
                 NEW i \in Items
          PROVE  \/ item'[i] = item[i]
                 \/ PeriodExists(item'[i].period) /\ item'[i].key \in keys
      <4>1. CASE i = r
        BY <3>1, <4>1 DEF TypeOK
      <4>2. CASE i # r
        BY <3>1, <4>2 DEF TypeOK
      <4> QED
        BY <4>1, <4>2
    <3> QED
      BY <2>2, <3>1 DEF MoveItem
  <2>3. CASE DropItem(w)
    BY <2>3 DEF DropItem, TypeOK
  <2>4. CASE CopyItem(w)
    <3>1. ASSUME NEW j \in Items, NEW src \in job[w].copies,
                 PeriodExists(job[w].period), src[2] \in keys,
                 item' = [item EXCEPT ![j] =
                            [period |-> job[w].period, key |-> src[2]]],
                 NEW i \in Items
          PROVE  \/ item'[i] = item[i]
                 \/ PeriodExists(item'[i].period) /\ item'[i].key \in keys
      <4>1. CASE i = j
        BY <3>1, <4>1 DEF TypeOK
      <4>2. CASE i # j
        BY <3>1, <4>2 DEF TypeOK
      <4> QED
        BY <4>1, <4>2
    <3> QED
      BY <2>4, <3>1 DEF CopyItem
  <2> QED
    BY <2>1, <2>2, <2>3, <2>4
<1> QED
  BY <1>1, <1>2, BillingAssumption
     DEF RowsHaveParents, LiveStatement, LiveItem, PeriodExists

LEMMA ParentsNext ==
  ASSUME TypeOK, RowsHaveParents, [Next]_vars
  PROVE  RowsHaveParents'
<1>1. CASE UNCHANGED vars
  BY <1>1, ParentsQuiet DEF vars
<1>2. ASSUME NEW w \in Workers, Receive(w) PROVE RowsHaveParents'
  BY <1>2, ParentsReceive
<1>3. ASSUME NEW w \in Workers, Serve(w) PROVE RowsHaveParents'
  <2>1. CASE \/ CheckPeriod(w) \/ Preflight(w) \/ Collect(w)
             \/ ComputeSnapshot(w) \/ ListContracts(w) \/ ListCosts(w)
             \/ Reject(w) \/ ListOld(w) \/ ListBalances(w) \/ Charge(w) \/ ListCopies(w)
    BY <2>1, ParentsQuiet
       DEF CheckPeriod, Preflight, Collect, ComputeSnapshot, ListContracts,
           ListCosts, Reject, ListOld, ListBalances, Charge, ListCopies, rows
  <2> QED
    BY <1>3, <2>1, ParentsStatuses, ParentsStatements, ParentsItems DEF Serve
<1>4. ASSUME NEW w \in Workers, Fail(w) PROVE RowsHaveParents'
  BY <1>4, ParentsQuiet DEF Fail, rows
<1>5. ASSUME NEW p \in Periods, CreatePeriod(p) PROVE RowsHaveParents'
  <2>1. \A q \in Periods : PeriodExists(q) => PeriodExists(q)'
    BY <1>5, BillingAssumption DEF CreatePeriod, PeriodExists, TypeOK
  <2> QED
    BY <1>5, <2>1 DEF CreatePeriod, RowsHaveParents, LiveStatement, LiveItem
<1>6. ASSUME NEW k \in Keys, DeleteKey(k) PROVE RowsHaveParents'
  <2>1. \A i \in Items : LiveItem(i)' => item'[i] = item[i] /\ item[i].key # k
    BY <1>6, BillingAssumption DEF DeleteKey, LiveItem
  <2> QED
    BY <1>6, <2>1
       DEF DeleteKey, RowsHaveParents, LiveStatement, LiveItem, PeriodExists
<1>7. ASSUME NEW c \in Contracts, SetActive(c) PROVE RowsHaveParents'
  BY <1>7, ParentsQuiet DEF SetActive
<1> QED
  BY <1>1, <1>2, <1>3, <1>4, <1>5, <1>6, <1>7 DEF Next

(* No statement or cost item outlives its period or its key, however many  *)
(* handlers run at once and wherever they fail.                            *)
THEOREM NoOrphans == Spec => []RowsHaveParents
<1>1. Init => RowsHaveParents
  BY BillingAssumption DEF Init, RowsHaveParents, LiveStatement, LiveItem, Blank
<1> QED
  BY <1>1, ParentsNext, TypeCorrect, PTL DEF Spec
-----------------------------------------------------------------------------
(* A stamp covers its statement.  While no request moves a statement to    *)
(* another period, a statement that finalize listed is still in the period *)
(* when finalize lists it again for the hash, or it was deleted for good.  *)

NoMoves == "move_statement" \notin Requests

Covered(w) ==
  /\ job[w].req # "move_statement"
  /\ job[w].req = "finalize" => job[w].period \in Periods
  /\ At(w, "finalize", "hash") =>
       \A s \in job[w].bare : stmt[s].period \in {job[w].period, Gone}
  /\ job[w].req = "finalize" /\ job[w].step \in {"save", "stamp"} =>
       \A s \in job[w].bare : stmt[s].period = Gone \/ s \in DOMAIN job[w].snap

CoverInv == StampCoversStatement /\ \A w \in Workers : Covered(w)

(* A row that was created stays in its period or is deleted, and only a    *)
(* stamp gives it a hash.                                                  *)
RowKept(s) ==
  /\ stmt[s].period # Unused => stmt'[s].period \in {stmt[s].period, Gone}
  /\ stmt'[s].hash \in {stmt[s].hash, NoHash}
  /\ LiveStatement(s)' /\ stmt'[s].hash # NoHash => LiveStatement(s)

LEMMA KeptWhenSame ==
  ASSUME NEW s \in Statements, stmt'[s] = stmt[s] PROVE RowKept(s)
  BY DEF RowKept, LiveStatement

LEMMA KeptWhenGone ==
  ASSUME NEW s \in Statements, stmt'[s] = Blank(Gone) PROVE RowKept(s)
  BY BillingAssumption DEF RowKept, LiveStatement, Blank

LEMMA KeptByServe ==
  ASSUME TypeOK, NEW w \in Workers, Serve(w), job[w].req # "move_statement",
         ~Stamp(w), NEW s \in Statements
  PROVE  RowKept(s)
<1>1. CASE UNCHANGED stmt
  BY <1>1, KeptWhenSame
<1>2. CASE DropPeriod(w)
  <2>1. stmt'[s] = stmt[s] \/ stmt'[s] = Blank(Gone)
    BY <1>2 DEF DropPeriod
  <2> QED
    BY <2>1, KeptWhenSame, KeptWhenGone
<1>3. CASE Purge(w) \/ DropStatement(w)
  <2>1. stmt'[s] = stmt[s] \/ stmt'[s] = Blank(Gone)
    BY <1>3 DEF Purge, DropStatement, TypeOK
  <2> QED
    BY <2>1, KeptWhenSame, KeptWhenGone
<1>4. CASE CreateStatement(w)
  <2>1. \/ stmt'[s] = stmt[s]
        \/ stmt[s].period = Unused /\ stmt'[s].hash = NoHash
    BY <1>4 DEF CreateStatement, TypeOK
  <2> QED
    BY <2>1, KeptWhenSame DEF RowKept
<1>5. ASSUME NEW st, stmt' = [stmt EXCEPT ![job[w].row].status = st]
      PROVE  RowKept(s)
  <2>1. stmt[s] \in StatementRow
    BY DEF TypeOK
  <2>2. stmt'[s] = stmt[s] \/ stmt'[s] = [stmt[s] EXCEPT !.status = st]
    BY <1>5 DEF TypeOK
  <2>3. stmt'[s].period = stmt[s].period /\ stmt'[s].hash = stmt[s].hash
    BY <2>1, <2>2 DEF StatementRow
  <2> QED
    BY <2>3 DEF RowKept, LiveStatement
<1>6. ASSUME NEW b, stmt' = [stmt EXCEPT ![job[w].row].balance = b]
      PROVE  RowKept(s)
  <2>1. stmt[s] \in StatementRow
    BY DEF TypeOK
  <2>2. stmt'[s] = stmt[s] \/ stmt'[s] = [stmt[s] EXCEPT !.balance = b]
    BY <1>6 DEF TypeOK
  <2>3. stmt'[s].period = stmt[s].period /\ stmt'[s].hash = stmt[s].hash
    BY <2>1, <2>2 DEF StatementRow
  <2> QED
    BY <2>3 DEF RowKept, LiveStatement
<1>7. CASE PatchStatement(w)
  BY <1>1, <1>5, <1>6, <1>7 DEF PatchStatement
<1>8. CASE Deliver(w)
  BY <1>1, <1>5, <1>8 DEF Deliver
<1> QED
  BY <1>1, <1>2, <1>3, <1>4, <1>7, <1>8
     DEF Serve, CheckPeriod, SaveStatus, Preflight, Collect, ComputeSnapshot,
         SaveFinalized, ListContracts, ListCosts, Reject, ListOld, MoveStatement,
         ListBalances, Charge, SaveItem, MoveItem, DropItem, CopyPeriod, ListCopies, CopyItem,
         At, rows

(* A stamp leaves every row in its period; the hash it writes is the one   *)
(* its job computed, on a statement the job listed without a hash.         *)
LEMMA StampedRow ==
  ASSUME TypeOK, NEW w \in Workers, Stamp(w), NEW s \in Statements
  PROVE  /\ stmt'[s].period = stmt[s].period
         /\ \/ stmt'[s].hash = stmt[s].hash
            \/ s \in job[w].bare /\ stmt'[s].hash = job[w].snap
<1>1. stmt[s] \in StatementRow
  BY DEF TypeOK
<1> PICK t \in job[w].todo : Stamp(w)!2!(t)
  BY DEF Stamp
<1> DEFINE hash == IF t \in job[w].bare THEN job[w].snap ELSE stmt[t].hash
           st   == IF t \in job[w].open THEN "finalized" ELSE stmt[t].status
<1>a. stmt \in [Statements -> StatementRow] /\ t \in Statements
  BY DEF TypeOK, Job
<1>2. CASE stmt[t].period \in Periods
  <2>1. stmt' = [stmt EXCEPT ![t].status = st, ![t].hash = hash]
    BY <1>2
  <2>2. hash = stmt[t].hash \/ (t \in job[w].bare /\ hash = job[w].snap)
    OBVIOUS
  <2> HIDE DEF hash, st
  <2>3. s = t => stmt'[s] = [stmt[s] EXCEPT !.status = st, !.hash = hash]
    BY <1>a, <2>1
  <2>4. s # t => stmt'[s] = stmt[s]
    BY <1>a, <2>1
  <2>5. s = t => stmt'[s].period = stmt[s].period /\ stmt'[s].hash = hash
    BY <1>1, <2>3 DEF StatementRow
  <2> QED BY <2>2, <2>4, <2>5
<1>3. CASE stmt[t].period \notin Periods
  BY <1>3
<1> QED
  BY <1>2, <1>3

LEMMA CoverWhenKept ==
  ASSUME StampCoversStatement, \A s \in Statements : RowKept(s)
  PROVE  StampCoversStatement'
  BY DEF StampCoversStatement, RowKept

(* What is known of a job whose worker does nothing.                       *)
LEMMA CoveredIdle ==
  ASSUME TypeOK, NEW v \in Workers, Covered(v), job'[v] = job[v],
         \A s \in Statements :
           stmt[s].period # Unused => stmt'[s].period \in {stmt[s].period, Gone}
  PROVE  Covered(v)'
<1>1. job[v].bare \subseteq Statements
  BY DEF TypeOK, Job
<1>2. Gone # Unused /\ Unused \notin Periods
  BY BillingAssumption
<1>3. CASE At(v, "finalize", "hash")
  <2>1. \A s \in job[v].bare : stmt[s].period # Unused
    BY <1>2, <1>3 DEF Covered, At
  <2> QED
    BY <1>1, <1>3, <2>1 DEF Covered, At
<1>4. CASE job[v].req = "finalize" /\ job[v].step \in {"save", "stamp"}
  BY <1>1, <1>2, <1>4 DEF Covered, At
<1> QED
  BY <1>3, <1>4 DEF Covered, At

LEMMA CoveredOther ==
  ASSUME NEW w \in Workers,
         job'[w].req \notin {"finalize", "move_statement"}
  PROVE  Covered(w)'
  BY DEF Covered, At

(* A finalize that lists what its preflight asks for has listed nothing to *)
(* stamp yet.                                                              *)
LEMMA CoveredListing ==
  ASSUME TypeOK, NEW w \in Workers, Covered(w), job'[w].req = "finalize",
         ListContracts(w) \/ ListCosts(w) \/ Reject(w)
  PROVE  Covered(w)'
<1>1. job[w] \in Job /\ job \in [Workers -> Job]
  BY DEF TypeOK
<1>2. ~Return(w)
  BY <1>1 DEF Return, Continue, Idle
<1>3. ASSUME ListContracts(w)
      PROVE  /\ job'[w].step = "costs" /\ job'[w].period = job[w].period
             /\ job[w].req = "finalize"
  <2>1. job' = [job EXCEPT ![w] = [job[w] EXCEPT !.step = "costs", !.bill = active]]
    BY <1>2, <1>3 DEF ListContracts, Continue
  <2> QED
    BY <1>1, <2>1 DEF Job
<1>4. ASSUME ListCosts(w)
      PROVE  /\ job'[w].step = "collect" /\ job'[w].period = job[w].period
             /\ job[w].req = "finalize"
  <2> DEFINE next == IF job[w].req = "finalize" THEN "collect" ELSE "list"
  <2>1. job' = [job EXCEPT ![w] = [job[w] EXCEPT !.step = next]]
    BY <1>2, <1>4 DEF ListCosts, Continue
  <2>2. job'[w].req = job[w].req
    BY <1>1, <2>1 DEF Job
  <2> QED
    BY <1>1, <2>1, <2>2 DEF Job
<1> QED
  BY <1>2, <1>3, <1>4 DEF Reject, Covered, At

(* The steps of finalize itself.                                           *)
LEMMA CoveredFinalize ==
  ASSUME TypeOK, NEW w \in Workers, Covered(w), StampCoversStatement,
         \/ Preflight(w) \/ Collect(w) \/ ComputeSnapshot(w)
         \/ SaveFinalized(w) \/ Stamp(w)
  PROVE  Covered(w)' /\ StampCoversStatement'
<1>1. job[w] \in Job /\ job \in [Workers -> Job]
  BY DEF TypeOK
<1>2. job[w].req = "finalize" /\ job[w].period \in Periods
  BY DEF Preflight, Collect, ComputeSnapshot, SaveFinalized, Stamp, At, Covered
<1>3. ASSUME Return(w) PROVE Covered(w)'
  <2>1. job'[w] = Idle
    BY <1>1, <1>3 DEF Return, Continue
  <2> QED
    BY <2>1, CoveredOther DEF Idle
<1>4. ASSUME Preflight(w) PROVE Covered(w)'
  <2>1. CASE job' = [job EXCEPT ![w] = [job[w] EXCEPT !.step = "contracts"]]
    BY <1>1, <1>2, <2>1 DEF Covered, At, Job
  <2> QED
    BY <1>3, <1>4, <2>1 DEF Preflight, Continue
<1>5. ASSUME Collect(w) PROVE Covered(w)'
  <2> DEFINE own  == StatementsOf(job[w].period)
             todo == {s \in own : \/ stmt[s].status # "finalized"
                                  \/ stmt[s].hash = NoHash}
             open == {s \in own : stmt[s].status # "finalized"}
             bare == {s \in own : stmt[s].hash = NoHash}
  <2>1. \A s \in bare : stmt[s].period = job[w].period
    BY DEF StatementsOf
  <2> HIDE DEF todo, open, bare
  <2>2. CASE job' = [job EXCEPT ![w] = [job[w] EXCEPT
                       !.step = "hash", !.todo = todo, !.open = open, !.bare = bare]]
    <3>1. /\ job'[w].req = "finalize" /\ job'[w].step = "hash"
          /\ job'[w].period = job[w].period /\ job'[w].bare = bare
      BY <1>1, <1>2, <2>2 DEF Job
    <3>2. stmt' = stmt
      BY <1>5 DEF Collect, rows
    <3> QED
      BY <1>2, <2>1, <3>1, <3>2 DEF Covered, At
  <2> QED
    BY <1>3, <1>5, <2>2 DEF Collect, Continue, todo, open, bare
<1>6. ASSUME ComputeSnapshot(w) PROVE Covered(w)'
  <2> DEFINE snap == Snapshot(job[w].period)
  <2>1. \A s \in job[w].bare : stmt[s].period = Gone \/ s \in DOMAIN snap
    BY <1>1, <1>6 DEF Snapshot, StatementsOf, Covered, ComputeSnapshot, Job
  <2> HIDE DEF snap
  <2>2. job'[w] = [job[w] EXCEPT !.step = "save", !.snap = snap]
    BY <1>1, <1>6 DEF ComputeSnapshot, Continue, snap
  <2>3. /\ job'[w].req = "finalize" /\ job'[w].step = "save"
        /\ job'[w].period = job[w].period /\ job'[w].bare = job[w].bare
        /\ job'[w].snap = snap
    BY <1>1, <1>2, <2>2 DEF Job
  <2>4. stmt' = stmt
    BY <1>6 DEF ComputeSnapshot, rows
  <2> QED
    BY <1>2, <2>1, <2>3, <2>4 DEF Covered, At
<1>7. ASSUME SaveFinalized(w) PROVE Covered(w)'
  <2>1. CASE job' = [job EXCEPT ![w] = [job[w] EXCEPT !.step = "stamp"]]
    <3>1. /\ job'[w].req = "finalize" /\ job'[w].step = "stamp"
          /\ job'[w].period = job[w].period /\ job'[w].bare = job[w].bare
          /\ job'[w].snap = job[w].snap
      BY <1>1, <1>2, <2>1 DEF Job
    <3>2. stmt' = stmt
      BY <1>7 DEF SaveFinalized
    <3>3. job[w].step = "save"
      BY <1>7 DEF SaveFinalized, At
    <3> QED
      BY <1>2, <3>1, <3>2, <3>3 DEF Covered, At
  <2> QED
    BY <1>3, <1>7, <2>1 DEF SaveFinalized, Continue
<1>8. CASE Stamp(w)
  <2>1. \A s \in Statements : stmt'[s].period = stmt[s].period
    BY <1>8, StampedRow
  <2>2. \A s \in job[w].bare : stmt[s].period = Gone \/ s \in DOMAIN job[w].snap
    BY <1>2, <1>8 DEF Covered, Stamp, At
  <2>3. ASSUME NEW t \in job[w].todo,
               job' = [job EXCEPT ![w] = [job[w] EXCEPT !.todo = @ \ {t}]]
        PROVE  Covered(w)'
    <3>1. /\ job'[w].req = "finalize" /\ job'[w].step = "stamp"
          /\ job'[w].period = job[w].period /\ job'[w].bare = job[w].bare
          /\ job'[w].snap = job[w].snap
      BY <1>1, <1>2, <1>8, <2>3 DEF Job, Stamp, At
    <3>2. job[w].bare \subseteq Statements
      BY <1>1 DEF Job
    <3> QED
      BY <1>2, <2>1, <2>2, <3>1, <3>2 DEF Covered, At
  <2>4. Covered(w)'
    BY <1>3, <1>8, <2>3 DEF Stamp, Continue
  <2>5. ASSUME NEW s \in Statements, stmt'[s].period \in Periods,
               stmt'[s].hash # NoHash
        PROVE  s \in DOMAIN stmt'[s].hash
    <3>1. CASE stmt'[s].hash = stmt[s].hash
      BY <2>1, <2>5, <3>1 DEF StampCoversStatement, LiveStatement
    <3>2. CASE s \in job[w].bare /\ stmt'[s].hash = job[w].snap
      BY <2>1, <2>2, <2>5, <3>2, BillingAssumption
    <3> QED
      BY <1>8, <3>1, <3>2, StampedRow
  <2> QED
    BY <2>4, <2>5 DEF StampCoversStatement, LiveStatement
<1>9. CASE ~Stamp(w)
  <2>1. stmt' = stmt
    BY <1>9 DEF Preflight, Collect, ComputeSnapshot, SaveFinalized, rows
  <2> QED
    BY <1>4, <1>5, <1>6, <1>7, <1>9, <2>1
       DEF StampCoversStatement, LiveStatement
<1> QED
  BY <1>4, <1>5, <1>6, <1>7, <1>8, <1>9

LEMMA CoveredReceive ==
  ASSUME TypeOK, NoMoves, NEW w \in Workers, Receive(w)
  PROVE  /\ Covered(w)'
         /\ UNCHANGED rows
         /\ \A v \in Workers : v # w => job'[v] = job[v]
<1>1. ASSUME NEW req, NEW from, NEW p \in Periods, NEW next, NEW to,
             Admit(w, req, from, p, next, to),
             req # "move_statement", req = "finalize" => next = "check"
      PROVE  Covered(w)' /\ UNCHANGED rows /\ \A v \in Workers : v # w => job'[v] = job[v]
  <2>1. /\ job'[w].req = req /\ job'[w].step = next /\ job'[w].period = p
        /\ \A v \in Workers : v # w => job'[v] = job[v]
    BY <1>1 DEF Admit, Continue, TypeOK, Idle
  <2>2. UNCHANGED rows
    BY <1>1 DEF Admit
  <2> QED
    BY <1>1, <2>1, <2>2 DEF Covered, At
<1>2. ASSUME NEW req, NEW row, NEW p, Load(w, req, row, p), req # "finalize"
      PROVE  Covered(w)' /\ UNCHANGED rows /\ \A v \in Workers : v # w => job'[v] = job[v]
  <2>1. /\ job'[w].req = req /\ req # "move_statement"
        /\ \A v \in Workers : v # w => job'[v] = job[v]
    BY <1>2 DEF Load, Continue, TypeOK, Idle, NoMoves
  <2> QED
    BY <1>2, <2>1, CoveredOther DEF Load
<1>3. ASSUME NEW p \in Periods,
             \/ EditPeriod(w, p) \/ DeletePeriod(w, p) \/ SubmitForReview(w, p)
             \/ RevertToDraft(w, p) \/ Dispute(w, p) \/ Finalize(w, p)
             \/ Generate(w, p) \/ CreateReceivables(w, p) \/ Revise(w, p)
             \/ AddItem(w, p)
      PROVE  Covered(w)' /\ UNCHANGED rows /\ \A v \in Workers : v # w => job'[v] = job[v]
  BY <1>1, <1>3
     DEF EditPeriod, DeletePeriod, SubmitForReview, RevertToDraft, Dispute,
         Finalize, Generate, CreateReceivables, Revise, AddItem
<1>4. ASSUME NEW s \in Statements, LoadStatement(w, s)
      PROVE  Covered(w)' /\ UNCHANGED rows /\ \A v \in Workers : v # w => job'[v] = job[v]
  BY <1>2, <1>4 DEF LoadStatement
<1>5. ASSUME NEW i \in Items, LoadItem(w, i)
      PROVE  Covered(w)' /\ UNCHANGED rows /\ \A v \in Workers : v # w => job'[v] = job[v]
  BY <1>2, <1>5 DEF LoadItem
<1> QED
  BY <1>3, <1>4, <1>5 DEF Receive

(* A step of a handler changes its own job only, and ends it or leaves it  *)
(* the same request.                                                       *)
LEMMA ServeJobs ==
  ASSUME TypeOK, NEW w \in Workers, Serve(w)
  PROVE  /\ \A v \in Workers : v # w => job'[v] = job[v]
         /\ job'[w].req \in {"idle", job[w].req}
<1>1. job \in [Workers -> Job] /\ job[w] \in Job
  BY DEF TypeOK
<1>2. ASSUME Return(w)
      PROVE  /\ \A v \in Workers : v # w => job'[v] = job[v]
             /\ job'[w].req \in {"idle", job[w].req}
  BY <1>1, <1>2 DEF Return, Continue, Idle
<1>3. CASE \/ SaveStatus(w) \/ DropPeriod(w) \/ Reject(w) \/ PatchStatement(w)
           \/ MoveStatement(w) \/ DropStatement(w) \/ Deliver(w)
           \/ SaveItem(w) \/ MoveItem(w) \/ DropItem(w)
  BY <1>2, <1>3
     DEF SaveStatus, DropPeriod, Reject, PatchStatement, MoveStatement,
         DropStatement, Deliver, SaveItem, MoveItem, DropItem
<1>4. CASE CheckPeriod(w)
  BY <1>1, <1>2, <1>4 DEF CheckPeriod, Continue, Job
<1>5. CASE Preflight(w)
  BY <1>1, <1>2, <1>5 DEF Preflight, Continue, Job
<1>6. CASE Collect(w)
  <2>1. ASSUME NEW x, NEW y, NEW o, NEW z,
               Continue(w, [job[w] EXCEPT !.step = x, !.todo = y, !.open = o, !.bare = z])
        PROVE  /\ \A v \in Workers : v # w => job'[v] = job[v]
               /\ job'[w].req \in {"idle", job[w].req}
    BY <1>1, <2>1 DEF Continue, Job
  <2> QED
    BY <1>2, <1>6, <2>1 DEF Collect
<1>7. CASE ComputeSnapshot(w)
  BY <1>1, <1>2, <1>7 DEF ComputeSnapshot, Continue, Job
<1>8. CASE SaveFinalized(w)
  BY <1>1, <1>2, <1>8 DEF SaveFinalized, Continue, Job
<1>9. CASE Stamp(w)
  BY <1>1, <1>2, <1>9 DEF Stamp, Continue, Job
<1>10. CASE ListContracts(w)
  <2>1. ASSUME NEW x, NEW y, Continue(w, [job[w] EXCEPT !.step = x, !.bill = y])
        PROVE  /\ \A v \in Workers : v # w => job'[v] = job[v]
               /\ job'[w].req \in {"idle", job[w].req}
    BY <1>1, <2>1 DEF Continue, Job
  <2> QED
    BY <1>2, <1>10, <2>1 DEF ListContracts
<1>11. CASE ListOld(w)
  BY <1>1, <1>2, <1>11 DEF ListOld, Continue, Job
<1>12. CASE Purge(w)
  <2>1. ASSUME NEW x, NEW y, Continue(w, [job[w] EXCEPT !.todo = x, !.step = y])
        PROVE  /\ \A v \in Workers : v # w => job'[v] = job[v]
               /\ job'[w].req \in {"idle", job[w].req}
    BY <1>1, <2>1 DEF Continue, Job
  <2> QED
    BY <1>2, <1>12, <2>1 DEF Purge
<1>13. CASE CreateStatement(w)
  BY <1>1, <1>2, <1>13 DEF CreateStatement, Continue, Job
<1>14. CASE ListBalances(w)
  <2>1. ASSUME NEW x, NEW y, Continue(w, [job[w] EXCEPT !.step = x, !.todo = y])
        PROVE  /\ \A v \in Workers : v # w => job'[v] = job[v]
               /\ job'[w].req \in {"idle", job[w].req}
    BY <1>1, <2>1 DEF Continue, Job
  <2> QED
    BY <1>2, <1>14, <2>1 DEF ListBalances
<1>15. CASE Charge(w)
  BY <1>1, <1>2, <1>15 DEF Charge, Continue, Job
<1>16. CASE CopyPeriod(w)
  BY <1>1, <1>2, <1>16 DEF CopyPeriod, Continue, Job
<1>17. CASE ListCopies(w)
  <2>1. ASSUME NEW x, NEW y, Continue(w, [job[w] EXCEPT !.step = x, !.copies = y])
        PROVE  /\ \A v \in Workers : v # w => job'[v] = job[v]
               /\ job'[w].req \in {"idle", job[w].req}
    BY <1>1, <2>1 DEF Continue, Job
  <2> QED
    BY <1>2, <1>17, <2>1 DEF ListCopies
<1>18. CASE CopyItem(w)
  BY <1>1, <1>2, <1>18 DEF CopyItem, Continue, Job
<1>19. CASE ListCosts(w)
  <2>1. ASSUME NEW x, Continue(w, [job[w] EXCEPT !.step = x])
        PROVE  /\ \A v \in Workers : v # w => job'[v] = job[v]
               /\ job'[w].req \in {"idle", job[w].req}
    BY <1>1, <2>1 DEF Continue, Job
  <2> QED
    BY <1>2, <1>19, <2>1 DEF ListCosts
<1> QED
  BY <1>3, <1>4, <1>5, <1>6, <1>7, <1>8, <1>9, <1>10, <1>11, <1>12,
     <1>13, <1>14, <1>15, <1>16, <1>17, <1>18, <1>19
     DEF Serve

LEMMA CoverServe ==
  ASSUME TypeOK, CoverInv, NEW w \in Workers, Serve(w)
  PROVE  CoverInv'
<1>1. \A v \in Workers : Covered(v)
  BY DEF CoverInv
<1>2. job[w].req # "move_statement"
  BY <1>1 DEF Covered
<1>3. \A s \in Statements :
        stmt[s].period # Unused => stmt'[s].period \in {stmt[s].period, Gone}
  BY <1>2, KeptByServe, StampedRow DEF RowKept
<1>4. \A v \in Workers : v # w => Covered(v)'
  BY <1>1, <1>3, ServeJobs, CoveredIdle
<1>5. CASE \/ Preflight(w) \/ Collect(w) \/ ComputeSnapshot(w)
           \/ SaveFinalized(w) \/ Stamp(w)
  BY <1>1, <1>4, <1>5, CoveredFinalize DEF CoverInv
<1>6. CASE ~(\/ Preflight(w) \/ Collect(w) \/ ComputeSnapshot(w)
             \/ SaveFinalized(w) \/ Stamp(w))
  <2>1. StampCoversStatement'
    BY <1>2, <1>6, KeptByServe, CoverWhenKept DEF CoverInv
  <2>2. CASE job[w].req # "finalize"
    BY <1>2, <1>4, <2>1, <2>2, ServeJobs, CoveredOther DEF CoverInv
  <2>3. CASE ListContracts(w) \/ ListCosts(w) \/ Reject(w)
    <3>1. CASE job'[w].req = "finalize"
      BY <1>1, <1>4, <2>1, <2>3, <3>1, CoveredListing DEF CoverInv
    <3>2. CASE job'[w].req # "finalize"
      BY <1>2, <1>4, <2>1, <3>2, ServeJobs, CoveredOther DEF CoverInv
    <3> QED
      BY <3>1, <3>2
  <2> QED
    BY <1>6, <2>2, <2>3
       DEF Serve, CheckPeriod, SaveStatus, DropPeriod, ListOld,
           Purge, CreateStatement, PatchStatement, MoveStatement, DropStatement,
           Deliver, ListBalances, Charge, SaveItem, MoveItem, DropItem,
           CopyPeriod, ListCopies, CopyItem, At
<1> QED
  BY <1>5, <1>6

LEMMA CoverNext ==
  ASSUME TypeOK, NoMoves, CoverInv, [Next]_vars
  PROVE  CoverInv'
<1>1. CASE UNCHANGED <<stmt, job>>
  BY <1>1 DEF CoverInv, Covered, StampCoversStatement, LiveStatement, At
<1>2. ASSUME NEW w \in Workers, Receive(w) PROVE CoverInv'
  <2>1. /\ Covered(w)' /\ UNCHANGED stmt
        /\ \A v \in Workers : v # w => job'[v] = job[v]
    BY <1>2, CoveredReceive DEF rows
  <2>2. \A v \in Workers : v # w => Covered(v)'
    BY <2>1, CoveredIdle DEF CoverInv
  <2> QED
    BY <2>1, <2>2 DEF CoverInv, StampCoversStatement, LiveStatement
<1>3. ASSUME NEW w \in Workers, Fail(w) PROVE CoverInv'
  <2>1. /\ UNCHANGED stmt /\ job'[w] = Idle
        /\ \A v \in Workers : v # w => job'[v] = job[v]
    BY <1>3 DEF Fail, Return, Continue, rows, TypeOK
  <2>2. Covered(w)'
    BY <2>1, CoveredOther DEF Idle
  <2>3. \A v \in Workers : v # w => Covered(v)'
    BY <2>1, CoveredIdle DEF CoverInv
  <2> QED
    BY <2>1, <2>2, <2>3 DEF CoverInv, StampCoversStatement, LiveStatement
<1> QED
  BY <1>1, <1>2, <1>3, CoverServe
     DEF Next, vars, CreatePeriod, DeleteKey, SetActive

(* Unless a client moves statements between periods, the hash stamped on a *)
(* statement covers that statement, whichever handlers run at once.        *)
THEOREM StampsCover == NoMoves /\ Spec => []StampCoversStatement
<1>1. Init => CoverInv
  BY DEF Init, CoverInv, Covered, StampCoversStatement, Idle, Blank, At
<1>2. CoverInv => StampCoversStatement
  BY DEF CoverInv
<1>3. NoMoves /\ TypeOK /\ CoverInv /\ [Next]_vars => CoverInv'
  BY CoverNext
<1> QED
  <2> SUFFICES ASSUME NoMoves PROVE Spec => []StampCoversStatement
    OBVIOUS
  <2>1. TypeOK /\ CoverInv /\ [Next]_vars => CoverInv'
    BY <1>3
  <2> QED
    BY <1>1, <1>2, <2>1, TypeCorrect, PTL DEF Spec
=============================================================================
