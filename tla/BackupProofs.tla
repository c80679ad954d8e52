---------------------------- MODULE BackupProofs ----------------------------
(***************************************************************************)
(* Proofs about exports and restores: the types, and that references hold, *)
(* for any number of rows, admins and clients, whichever calls fail.       *)
(***************************************************************************)
EXTENDS BackupProperties, TLAPS

LEMMA ParentKinds ==
  /\ DOMAIN ParentKind = {"property", "unit", "meter", "period"}
  /\ ParentKind["property"] = "portfolio"
  /\ ParentKind["unit"] = "property"
  /\ ParentKind["meter"] = "unit"
  /\ ParentKind["period"] = "property"
BY DEF ParentKind

LEMMA ExportedKinds ==
  /\ Len(Exported) = 3
  /\ 0 .. Len(Exported) + 1 = 0 .. 4
  /\ \A n \in 1 .. 3 : Exported[n] \in Kinds
BY DEF Exported, Kinds

(* Where a handler is determines the range of its position.  Rows that     *)
(* exist name a client's row as their origin.                              *)
Fits(j) == /\ j.op = "export" => j.kind \in 1 .. 4
           /\ j.op = "restore" => j.kind \in 0 .. 3
           /\ j.step = "delete" => j.op = "restore" /\ j.kind \in 1 .. 3
PositionsFit == \A a \in Admins : Fits(job[a])
OriginsKnown == \A i \in Ids : Exists(i) => row[i].origin \in Ids

BackupInv == BackupTypeOK /\ PositionsFit /\ OriginsKnown

LEMMA IdleFits == Idle \in Job /\ Fits(Idle)
BY ExportedKinds DEF Idle, Job, Fits

(* A step that sets one job to a well-typed one at a fitting position.     *)
LEMMA JobStep ==
  ASSUME BackupInv, NEW a \in Admins, NEW STATE j, j \in Job,
         job' = [job EXCEPT ![a] = j], Fits(j)
  PROVE  job' \in [Admins -> Job] /\ PositionsFit'
BY DEF BackupInv, BackupTypeOK, PositionsFit

LEMMA RowsUnchanged ==
  ASSUME BackupInv, UNCHANGED row
  PROVE  row' \in [Ids -> Rows] /\ OriginsKnown'
BY DEF BackupInv, BackupTypeOK, OriginsKnown, Exists

LEMMA RowAdded ==
  ASSUME BackupInv, NEW i \in Ids, NEW k \in Kinds,
         NEW p \in Ids \cup {None}, NEW o \in Ids,
         row' = [row EXCEPT ![i] = [kind |-> k, parent |-> p, origin |-> o]]
  PROVE  row' \in [Ids -> Rows] /\ OriginsKnown'
BY DEF BackupInv, BackupTypeOK, OriginsKnown, Exists, Rows

LEMMA RowDeleted ==
  ASSUME BackupInv, NEW i \in Ids, row' = Deleted(i)
  PROVE  row' \in [Ids -> Rows] /\ OriginsKnown'
BY BackupAssumption
   DEF BackupInv, BackupTypeOK, OriginsKnown, Exists, Rows, Deleted, NoRow

LEMMA ItemsTyped ==
  ASSUME BackupInv, NEW k \in Kinds
  PROVE  {ItemOf(i) : i \in OfKind(k)} \in SUBSET Items
BY DEF BackupInv, BackupTypeOK, OriginsKnown, Exists, Rows, Items, ItemOf, OfKind

LEMMA FilesUnchanged ==
  ASSUME BackupInv, UNCHANGED file
  PROVE  file' \in [Backups -> (SUBSET Items) \cup {None}]
BY DEF BackupInv, BackupTypeOK

LEMMA InvInit == Init => BackupInv
BY IdleFits, BackupAssumption
   DEF Init, BackupInv, BackupTypeOK, PositionsFit, OriginsKnown, Exists, Rows,
       NoRow

LEMMA InvBegin ==
  ASSUME BackupInv, NEW a \in Admins, NEW b \in Backups,
         BeginExport(a, b) \/ BeginRestore(a, b) \/ BeginImport(a, b)
  PROVE  BackupInv'
<1>1. Live \in SUBSET Ids
  BY DEF Live
<1>2. CASE BeginExport(a, b)
  <2> DEFINE j == [Idle EXCEPT !.op = "export", !.kind = 1, !.name = b,
                               !.before = Live]
  <2>. 1 \in 0 .. Len(Exported) + 1
    BY ExportedKinds
  <2>1. j \in Job /\ j.op = "export" /\ j.kind = 1 /\ j.step = "list"
    BY <1>1, IdleFits DEF Job, Idle
  <2>2. job' = [job EXCEPT ![a] = j] /\ UNCHANGED <<row, file>>
    BY <1>2 DEF BeginExport
  <2> HIDE DEF j
  <2>. Fits(j)
    BY <2>1 DEF Fits
  <2>3. job' \in [Admins -> Job] /\ PositionsFit'
    BY <2>1, <2>2, JobStep
  <2> QED
    BY <2>2, <2>3, RowsUnchanged, FilesUnchanged DEF BackupInv, BackupTypeOK
<1>3. ASSUME NEW op \in {"restore", "import"}, NEW step \in {"clear", "create"},
             Begin(a, b, op, step)
      PROVE  BackupInv'
  <2> DEFINE j == [Idle EXCEPT !.op = op, !.step = step, !.kind = Len(Exported),
                               !.items = file[b], !.name = b, !.before = Live]
  <2>1. file[b] \in SUBSET Items
    BY <1>3 DEF Begin, BackupInv, BackupTypeOK
  <2>. Len(Exported) \in 0 .. Len(Exported) + 1
    BY ExportedKinds
  <2>2. j \in Job /\ j.op = op /\ j.kind = Len(Exported) /\ j.step = step
    BY <1>1, <2>1 DEF Job, Idle
  <2>3. job' = [job EXCEPT ![a] = j] /\ UNCHANGED <<row, file>>
    BY <1>3 DEF Begin
  <2> HIDE DEF j
  <2>. Fits(j)
    BY <2>2, ExportedKinds DEF Fits
  <2>4. job' \in [Admins -> Job] /\ PositionsFit'
    BY <2>2, <2>3, JobStep
  <2> QED
    BY <2>3, <2>4, RowsUnchanged, FilesUnchanged DEF BackupInv, BackupTypeOK
<1>4. CASE BeginRestore(a, b)
  BY <1>3, <1>4 DEF BeginRestore
<1>5. CASE BeginImport(a, b)
  BY <1>3, <1>5 DEF BeginImport
<1> QED
  BY <1>2, <1>4, <1>5

LEMMA InvExportKind ==
  ASSUME BackupInv, NEW a \in Admins, ExportKind(a)
  PROVE  BackupInv'
<1>1. PICK ok \in Outcomes :
        job' = [job EXCEPT
                 ![a].items = IF ok THEN @ \cup {ItemOf(i) :
                                            i \in OfKind(Exported[job[a].kind])}
                              ELSE @,
                 ![a].kind = @ + 1]
  BY DEF ExportKind
<1> DEFINE listed == {ItemOf(i) : i \in OfKind(Exported[job[a].kind])}
           items  == IF ok THEN job[a].items \cup listed ELSE job[a].items
           j      == [job[a] EXCEPT !.items = items, !.kind = job[a].kind + 1]
<1>2. job[a] \in Job /\ Fits(job[a]) /\ job[a].op = "export" /\ job[a].step = "list"
  BY DEF BackupInv, BackupTypeOK, PositionsFit, ExportKind, At
<1>3. job[a].kind \in 1 .. 3
  BY <1>2, ExportedKinds DEF ExportKind, Fits
<1>4. listed \in SUBSET Items
  BY <1>3, ExportedKinds, ItemsTyped
<1>5. job' = [job EXCEPT ![a] = j] /\ UNCHANGED <<row, file>>
  BY <1>1 DEF ExportKind, BackupInv, BackupTypeOK
<1> HIDE DEF listed
<1>6. items \in SUBSET Items
  BY <1>2, <1>4 DEF Job
<1>. job[a].kind + 1 \in 0 .. Len(Exported) + 1
  BY <1>3, ExportedKinds
<1> HIDE DEF items
<1>7. j \in Job /\ j.op = "export" /\ j.kind = job[a].kind + 1 /\ j.step = "list"
  BY <1>2, <1>6 DEF Job
<1> HIDE DEF j
<1>8. Fits(j)
  BY <1>3, <1>7 DEF Fits
<1> QED
  BY <1>5, <1>7, <1>8, JobStep, RowsUnchanged, FilesUnchanged
     DEF BackupInv, BackupTypeOK

LEMMA InvToIdle ==
  ASSUME BackupInv, NEW a \in Admins, WriteFile(a) \/ Answer(a) \/ Crash(a)
  PROVE  BackupInv'
<1>1. job' = [job EXCEPT ![a] = Idle] /\ UNCHANGED row
  BY DEF WriteFile, Answer, Crash
<1>2. job' \in [Admins -> Job] /\ PositionsFit'
  BY <1>1, IdleFits, JobStep
<1>3. job[a].items \in SUBSET Items
  BY DEF BackupInv, BackupTypeOK, Job
<1>4. file' \in [Backups -> (SUBSET Items) \cup {None}]
  BY <1>3 DEF WriteFile, Answer, Crash, BackupInv, BackupTypeOK
<1> QED
  BY <1>1, <1>2, <1>4, RowsUnchanged DEF BackupInv, BackupTypeOK

LEMMA InvListKind ==
  ASSUME BackupInv, NEW a \in Admins, ListKind(a)
  PROVE  BackupInv'
<1> DEFINE k    == job[a].kind
           rows == IF k = 0 THEN {} ELSE OfKind(Exported[k])
           step == IF k = 0 THEN "create" ELSE IF rows = {} THEN "clear" ELSE "delete"
           kind == IF k > 0 /\ rows = {} THEN k - 1 ELSE k
           j    == [job[a] EXCEPT !.step = step, !.kind = kind, !.todo = rows]
<1>1. job[a] \in Job /\ Fits(job[a]) /\ job[a].op = "restore"
  BY DEF BackupInv, BackupTypeOK, PositionsFit, ListKind, At
<1>2. k \in 0 .. 3
  BY <1>1 DEF Fits
<1>3. rows \in SUBSET Ids
  BY DEF OfKind
<1>4. job' = [job EXCEPT ![a] = j] /\ UNCHANGED <<row, file>>
  BY <1>1 DEF ListKind, BackupInv, BackupTypeOK
<1> HIDE DEF rows
<1>5. kind \in 0 .. Len(Exported) + 1 /\ kind \in 0 .. 3
  BY <1>2, ExportedKinds
<1>6. step \in {"list", "clear", "delete", "create"}
  OBVIOUS
<1>7. step = "delete" => kind \in 1 .. 3
  BY <1>2
<1> HIDE DEF step, kind
<1>8. j \in Job /\ j.op = "restore" /\ j.kind = kind /\ j.step = step
  BY <1>1, <1>3, <1>5, <1>6 DEF Job
<1> HIDE DEF j
<1>9. Fits(j)
  BY <1>5, <1>7, <1>8 DEF Fits
<1> QED
  BY <1>4, <1>8, <1>9, JobStep, RowsUnchanged, FilesUnchanged
     DEF BackupInv, BackupTypeOK

(* What the loop over a listed kind leaves, whether a row went or not.     *)
LEMMA AfterFits ==
  ASSUME BackupInv, NEW a \in Admins, At(a, {"restore"}, "delete"),
         NEW left \in SUBSET Ids, NEW i \in Ids
  PROVE  /\ After(a, left) \in Job /\ Fits(After(a, left))
         /\ Skip(a, i, left) \in Job /\ Fits(Skip(a, i, left))
<1> DEFINE step == IF left = {} THEN "clear" ELSE "delete"
           kind == IF left = {} THEN job[a].kind - 1 ELSE job[a].kind
<1>1. job[a] \in Job /\ Fits(job[a]) /\ job[a].op = "restore" /\ job[a].step = "delete"
  BY DEF BackupInv, BackupTypeOK, PositionsFit, At
<1>2. job[a].kind \in 1 .. 3
  BY <1>1 DEF Fits
<1>3. kind \in 0 .. Len(Exported) + 1 /\ kind \in 0 .. 3
  BY <1>2, ExportedKinds
<1>4. step = "delete" => kind \in 1 .. 3
  BY <1>2
<1>5. After(a, left) = [job[a] EXCEPT !.todo = left, !.step = step, !.kind = kind]
  BY <1>1 DEF After, Job
<1>. step \in {"list", "clear", "delete", "create"}
  OBVIOUS
<1> HIDE DEF step, kind
<1>6. /\ After(a, left) \in Job
      /\ After(a, left).op = "restore"
      /\ After(a, left).kind = kind
      /\ After(a, left).step = step
  BY <1>1, <1>3, <1>5 DEF Job
<1>7. /\ Skip(a, i, left) \in Job
      /\ Skip(a, i, left).op = "restore"
      /\ Skip(a, i, left).kind = kind
      /\ Skip(a, i, left).step = step
  BY <1>6 DEF Skip, Job
<1> QED
  BY <1>3, <1>4, <1>6, <1>7 DEF Fits

LEMMA InvDeleteNext ==
  ASSUME BackupInv, NEW a \in Admins, DeleteNext(a)
  PROVE  BackupInv'
<1>1. PICK i \in job[a].todo :
        \/ /\ row' = Deleted(i)
           /\ job' = [job EXCEPT ![a] = After(a, job[a].todo \ {i})]
        \/ /\ job' = [job EXCEPT ![a] = Skip(a, i, job[a].todo \ {i})]
           /\ UNCHANGED row
  BY DEF DeleteNext
<1>2. job[a].todo \in SUBSET Ids
  BY DEF BackupInv, BackupTypeOK, Job
<1> DEFINE left == job[a].todo \ {i}
<1>3. i \in Ids /\ left \in SUBSET Ids
  BY <1>2
<1>4. At(a, {"restore"}, "delete") /\ UNCHANGED file
  BY DEF DeleteNext
<1>5. /\ After(a, left) \in Job /\ Fits(After(a, left))
      /\ Skip(a, i, left) \in Job /\ Fits(Skip(a, i, left))
  BY <1>3, <1>4, AfterFits
<1>6. CASE row' = Deleted(i) /\ job' = [job EXCEPT ![a] = After(a, left)]
  <2>1. job' \in [Admins -> Job] /\ PositionsFit'
    BY <1>5, <1>6, JobStep
  <2> QED
    BY <1>3, <1>4, <1>6, <2>1, RowDeleted, FilesUnchanged DEF BackupInv, BackupTypeOK
<1>7. CASE job' = [job EXCEPT ![a] = Skip(a, i, left)] /\ UNCHANGED row
  <2>1. job' \in [Admins -> Job] /\ PositionsFit'
    BY <1>5, <1>7, JobStep
  <2> QED
    BY <1>4, <1>7, <2>1, RowsUnchanged, FilesUnchanged DEF BackupInv, BackupTypeOK
<1> QED
  BY <1>1, <1>6, <1>7

LEMMA InvImportNext ==
  ASSUME BackupInv, NEW a \in Admins, ImportNext(a)
  PROVE  BackupInv'
<1>1. PICK x \in job[a].items, i \in Ids :
        \/ /\ row' = [row EXCEPT ![i] = [kind |-> x.kind, parent |-> x.parent,
                                         origin |-> x.origin]]
           /\ job' = [job EXCEPT ![a].items = @ \ {x},
                                 ![a].imported = @ \cup {x}]
        \/ /\ job' = [job EXCEPT ![a].items = @ \ {x}]
           /\ UNCHANGED row
  BY DEF ImportNext, Frontier
<1>2. job[a] \in Job /\ Fits(job[a]) /\ job[a].step = "create"
  BY DEF BackupInv, BackupTypeOK, PositionsFit, ImportNext, At
<1>3. x \in Items /\ job[a].items \in SUBSET Items /\ job[a].imported \in SUBSET Items
  BY <1>2 DEF Job
<1>4. x.kind \in Kinds /\ x.parent \in Ids \cup {None} /\ x.origin \in Ids
  BY <1>3 DEF Items
<1> DEFINE left == job[a].items \ {x}
           done == job[a].imported \cup {x}
           j    == [job[a] EXCEPT !.items = left, !.imported = done]
           l    == [job[a] EXCEPT !.items = left]
<1>5. left \in SUBSET Items /\ done \in SUBSET Items
  BY <1>3
<1>6. /\ j \in Job /\ j.op = job[a].op /\ j.kind = job[a].kind /\ j.step = "create"
      /\ l \in Job /\ l.op = job[a].op /\ l.kind = job[a].kind /\ l.step = "create"
  BY <1>2, <1>5 DEF Job
<1>7. Fits(j) /\ Fits(l)
  BY <1>2, <1>6 DEF Fits
<1>8. UNCHANGED file
  BY DEF ImportNext
<1>9. CASE /\ row' = [row EXCEPT ![i] = [kind |-> x.kind, parent |-> x.parent,
                                         origin |-> x.origin]]
           /\ job' = [job EXCEPT ![a].items = @ \ {x},
                                 ![a].imported = @ \cup {x}]
  <2>1. job' = [job EXCEPT ![a] = j]
    BY <1>9 DEF BackupInv, BackupTypeOK
  <2> HIDE DEF j
  <2>2. job' \in [Admins -> Job] /\ PositionsFit'
    BY <1>6, <1>7, <2>1, JobStep
  <2>3. row' \in [Ids -> Rows] /\ OriginsKnown'
    BY <1>4, <1>9, RowAdded
  <2> QED
    BY <1>8, <2>2, <2>3, FilesUnchanged DEF BackupInv, BackupTypeOK
<1>10. CASE job' = [job EXCEPT ![a].items = @ \ {x}] /\ UNCHANGED row
  <2>1. job' = [job EXCEPT ![a] = l]
    BY <1>10 DEF BackupInv, BackupTypeOK
  <2> HIDE DEF l
  <2>2. job' \in [Admins -> Job] /\ PositionsFit'
    BY <1>6, <1>7, <2>1, JobStep
  <2> QED
    BY <1>8, <1>10, <2>2, RowsUnchanged, FilesUnchanged DEF BackupInv, BackupTypeOK
<1> QED
  BY <1>1, <1>9, <1>10

LEMMA InvClient ==
  ASSUME BackupInv,
         \/ \E k \in ClientKinds, p \in Ids \cup {None} : CreateRow(k, p)
         \/ \E i \in Ids : DeleteRow(i)
  PROVE  BackupInv'
<1>1. ASSUME NEW k \in ClientKinds, NEW p \in Ids \cup {None}, CreateRow(k, p)
      PROVE  BackupInv'
  <2>1. PICK i \in Ids :
          row' = [row EXCEPT ![i] = [kind |-> k, parent |-> p, origin |-> i]]
    BY <1>1 DEF CreateRow
  <2>2. k \in Kinds
    BY BackupAssumption
  <2>3. row' \in [Ids -> Rows] /\ OriginsKnown'
    BY <2>1, <2>2, RowAdded
  <2> QED
    BY <1>1, <2>3 DEF CreateRow, BackupInv, BackupTypeOK, PositionsFit, Fits
<1>2. ASSUME NEW i \in Ids, DeleteRow(i)
      PROVE  BackupInv'
  <2>1. row' \in [Ids -> Rows] /\ OriginsKnown'
    BY <1>2, RowDeleted DEF DeleteRow
  <2> QED
    BY <1>2, <2>1 DEF DeleteRow, BackupInv, BackupTypeOK, PositionsFit, Fits
<1> QED
  BY <1>1, <1>2

LEMMA InvNext == BackupInv /\ [Next]_vars => BackupInv'
<1> SUFFICES ASSUME BackupInv, [Next]_vars PROVE BackupInv'
  OBVIOUS
<1>1. CASE UNCHANGED vars
  BY <1>1 DEF vars, BackupInv, BackupTypeOK, PositionsFit, Fits, OriginsKnown, Exists
<1>2. CASE \/ \E k \in ClientKinds, p \in Ids \cup {None} : CreateRow(k, p)
           \/ \E i \in Ids : DeleteRow(i)
  BY <1>2, InvClient
<1>3. CASE \E a \in Admins, b \in Backups :
             BeginExport(a, b) \/ BeginRestore(a, b) \/ BeginImport(a, b)
  BY <1>3, InvBegin
<1>4. CASE \E a \in Admins : Serve(a) \/ Crash(a)
  BY <1>4, InvExportKind, InvToIdle, InvListKind, InvDeleteNext, InvImportNext
     DEF Serve
<1> QED
  BY <1>1, <1>2, <1>3, <1>4 DEF Next

(* Rows, files and requests keep their types, whatever fails or crashes.   *)
THEOREM BackupTypeCorrect == Spec => []BackupTypeOK
<1>1. BackupInv => BackupTypeOK
  BY DEF BackupInv
<1> QED
  BY <1>1, InvInit, InvNext, PTL DEF Spec
-----------------------------------------------------------------------------
(* References.                                                             *)

LEMMA ParentRow ==
  ASSUME ReferencesHold, NEW j \in Ids, row[j].kind \in DOMAIN ParentKind
  PROVE  /\ row[j].parent \in Ids
         /\ row[row[j].parent].kind = ParentKind[row[j].kind]
BY ParentKinds DEF ReferencesHold, Admissible, Exists, Kinds, OfKind

(* Three levels of cascade reach every row under the deleted one: from a   *)
(* cascading kind there are at most two more steps up.                     *)
LEMMA DoomedClosed ==
  ASSUME ReferencesHold, NEW i \in Ids, NEW j \in Ids,
         row[j].kind \in Cascading, row[j].parent \in Doomed(i)
  PROVE  j \in Doomed(i)
<1> DEFINE p == row[j].parent
           q == row[p].parent
           C == Cascade({i})
           D == Cascade(C)
<1>1. Doomed(i) = D \cup {n \in Ids : row[n].kind \in Cascading /\ row[n].parent \in D}
  BY DEF Doomed, Cascade
<1>2. D = C \cup {n \in Ids : row[n].kind \in Cascading /\ row[n].parent \in C}
  BY DEF Cascade
<1>3. C = {i} \cup {n \in Ids : row[n].kind \in Cascading /\ row[n].parent \in {i}}
  BY DEF Cascade
<1> HIDE DEF C, D
<1>4. p \in Ids /\ row[p].kind = ParentKind[row[j].kind]
  BY ParentRow, ParentKinds DEF Cascading
<1>5. row[p].kind \in {"portfolio", "property"}
  BY <1>4, ParentKinds DEF Cascading
<1>6. CASE p \in D
  BY <1>1, <1>6
<1>7. CASE p \notin D
  <2>1. row[p].kind \in Cascading /\ q \in D
    BY <1>1, <1>7
  <2>2. row[p].kind = "property"
    BY <1>5, <2>1 DEF Cascading
  <2>3. q \in Ids /\ row[q].kind = "portfolio"
    BY <1>4, <2>2, ParentRow, ParentKinds
  <2>4. q \notin C
    BY <1>2, <1>4, <1>7, <2>1
  <2> QED
    BY <1>2, <2>1, <2>3, <2>4 DEF Cascading
<1> QED
  BY <1>6, <1>7

LEMMA DeleteKeepsReferences ==
  ASSUME BackupTypeOK, ReferencesHold, NEW i \in Ids, Deletable(i),
         row' = Deleted(i)
  PROVE  ReferencesHold'
<1> SUFFICES ASSUME NEW j \in Ids, Exists(j)'
             PROVE  Admissible(row[j].kind, row[j].parent)'
  BY DEF ReferencesHold
<1>1. \A n \in Ids : n \notin Doomed(i) => row'[n] = row[n]
  BY DEF Deleted
<1>2. j \notin Doomed(i) /\ row'[j] = row[j] /\ Exists(j)
  BY <1>1, BackupAssumption DEF Deleted, Exists, NoRow
<1>3. Admissible(row[j].kind, row[j].parent)
  BY <1>2 DEF ReferencesHold
<1>4. CASE row[j].kind = "portfolio"
  BY <1>2, <1>3, <1>4 DEF Admissible
<1>5. CASE row[j].kind # "portfolio"
  <2>1. row[j].kind \in DOMAIN ParentKind
    BY <1>2, <1>5, ParentKinds DEF Exists, Kinds
  <2>2. row[j].parent \in Ids /\ row[row[j].parent].kind = ParentKind[row[j].kind]
    BY <2>1, ParentRow
  <2>3. row[j].parent \notin Doomed(i)
    <3>1. CASE row[j].kind \in Cascading
      BY <1>2, <3>1, DoomedClosed
    <3>2. CASE row[j].kind \notin Cascading
      BY <2>1, <3>2 DEF Deletable, Blocked
    <3> QED
      BY <3>1, <3>2
  <2>4. row'[row[j].parent] = row[row[j].parent]
    BY <1>1, <2>2, <2>3
  <2> QED
    BY <1>2, <1>5, <2>2, <2>4 DEF Admissible, OfKind
<1> QED
  BY <1>4, <1>5

LEMMA CreateKeepsReferences ==
  ASSUME BackupTypeOK, ReferencesHold, NEW i \in Free, NEW k \in Kinds, NEW p, NEW o,
         Admissible(k, p),
         row' = [row EXCEPT ![i] = [kind |-> k, parent |-> p, origin |-> o]]
  PROVE  ReferencesHold'
<1> SUFFICES ASSUME NEW j \in Ids, Exists(j)'
             PROVE  Admissible(row[j].kind, row[j].parent)'
  BY DEF ReferencesHold
<1>1. i \in Ids /\ row[i].kind = Unused /\ Unused \notin Kinds
  BY BackupAssumption DEF Free
<1>2. \A n \in Ids \ {i} : row'[n] = row[n]
  BY DEF BackupTypeOK
<1>3. row'[i].kind = k /\ row'[i].parent = p
  BY <1>1 DEF BackupTypeOK
<1>4. \A m \in Kinds : OfKind(m) \subseteq OfKind(m)'
  BY <1>1, <1>2 DEF OfKind
<1>5. \A m \in Kinds : \A n : Admissible(m, n) => Admissible(m, n)'
  BY <1>4, ParentKinds DEF Admissible, Kinds
<1>6. CASE j = i
  BY <1>3, <1>5, <1>6
<1>7. CASE j # i
  BY <1>2, <1>5, <1>7 DEF ReferencesHold, Exists
<1> QED
  BY <1>6, <1>7

LEMMA ReferencesNext ==
  BackupInv /\ ReferencesHold /\ [Next]_vars => ReferencesHold'
<1> SUFFICES ASSUME BackupInv, ReferencesHold, [Next]_vars PROVE ReferencesHold'
  OBVIOUS
<1>1. BackupTypeOK
  BY DEF BackupInv
<1>2. ASSUME UNCHANGED row PROVE ReferencesHold'
  BY <1>2 DEF ReferencesHold, Exists, Admissible, OfKind
<1>3. ASSUME NEW k \in ClientKinds, NEW p \in Ids \cup {None}, CreateRow(k, p)
      PROVE  ReferencesHold'
  <2>1. k \in Kinds
    BY BackupAssumption
  <2> QED
    BY <1>1, <1>3, <2>1, CreateKeepsReferences DEF CreateRow, Fresh
<1>4. ASSUME NEW i \in Ids, DeleteRow(i)
      PROVE  ReferencesHold'
  BY <1>1, <1>4, DeleteKeepsReferences DEF DeleteRow
<1>5. ASSUME NEW a \in Admins, DeleteNext(a)
      PROVE  ReferencesHold'
  <2>1. job[a].todo \in SUBSET Ids
    BY DEF BackupInv, BackupTypeOK, Job
  <2>2. CASE UNCHANGED row
    BY <1>2, <2>2
  <2>3. CASE \E i \in Ids : Deletable(i) /\ row' = Deleted(i)
    BY <1>1, <2>3, DeleteKeepsReferences
  <2> QED
    BY <1>5, <2>1, <2>2, <2>3 DEF DeleteNext
<1>6. ASSUME NEW a \in Admins, ImportNext(a)
      PROVE  ReferencesHold'
  <2>1. PICK x \in job[a].items, i \in Free :
          \/ /\ Admissible(x.kind, x.parent)
             /\ row' = [row EXCEPT ![i] = [kind |-> x.kind, parent |-> x.parent,
                                           origin |-> x.origin]]
          \/ UNCHANGED row
    BY <1>6 DEF ImportNext, Frontier, Fresh
  <2>2. x.kind \in Kinds
    BY DEF BackupInv, BackupTypeOK, Job, Items
  <2> QED
    BY <1>1, <1>2, <2>1, <2>2, CreateKeepsReferences
<1>7. CASE \E a \in Admins : ExportKind(a) \/ WriteFile(a) \/ ListKind(a)
                             \/ Answer(a) \/ Crash(a)
  BY <1>2, <1>7 DEF ExportKind, WriteFile, ListKind, Answer, Crash
<1>8. CASE \E a \in Admins, b \in Backups :
             BeginExport(a, b) \/ BeginRestore(a, b) \/ BeginImport(a, b)
  BY <1>2, <1>8 DEF BeginExport, BeginRestore, BeginImport, Begin
<1>9. CASE UNCHANGED vars
  BY <1>2, <1>9 DEF vars
<1> QED
  BY <1>3, <1>4, <1>5, <1>6, <1>7, <1>8, <1>9 DEF Next, Serve

(* Every row has the parent it names, for any number of rows and admins,   *)
(* whichever store calls fail and wherever the process dies.               *)
THEOREM ReferencesIntact == Spec => []ReferencesHold
<1>1. Init => ReferencesHold
  BY BackupAssumption DEF Init, ReferencesHold, Exists, NoRow
<1> QED
  BY <1>1, InvInit, InvNext, ReferencesNext, PTL DEF Spec
-----------------------------------------------------------------------------
(* Sweeps.  An export and a restore go through the kinds once each, while  *)
(* clients and other admins write: what was there when a sweep began and   *)
(* still is was seen when its kind came up, since a row keeps its kind     *)
(* until it is gone and an id never comes back.                            *)

RowsAge == \A i \in Ids : row[i].kind # Unused => row'[i].kind \in {row[i].kind, Gone}

\* The rows a request j found have been rows ever since.
Found(j) == \A i \in j.before : row[i].kind # Unused

\* What an export has listed, and what a restore has cleared, of them.
Listed(j) ==
  \A i \in j.before, m \in 1 .. 3 : row[i].kind = Exported[m] =>
    (j.op = "export" /\ m < j.kind => \E x \in j.items : x.id = i)
Cleared(j) ==
  \A i \in j.before, m \in 1 .. 3 : row[i].kind = Exported[m] =>
    /\ j.op = "restore" /\ j.step \in {"clear", "delete"} /\ m > j.kind
         => i \in j.skipped
    /\ j.op = "restore" /\ j.step = "delete" /\ m = j.kind
         => i \in j.todo \cup j.skipped
    /\ j.op = "restore" /\ j.step = "create" => i \in j.skipped

FoundInv == \A a \in Admins : Found(job[a])
ListInv  == \A a \in Admins : Listed(job[a])
ClearInv == \A a \in Admins : Cleared(job[a])

LEMMA RowAges == ASSUME BackupInv, [Next]_vars PROVE RowsAge
<1>1. ASSUME UNCHANGED row PROVE RowsAge
  BY <1>1 DEF RowsAge
<1>2. ASSUME NEW i, row' = Deleted(i) PROVE RowsAge
  BY <1>2 DEF RowsAge, Deleted, NoRow
<1>3. ASSUME NEW i \in Free, NEW r, row' = [row EXCEPT ![i] = r] PROVE RowsAge
  BY <1>3 DEF RowsAge, Free, BackupInv, BackupTypeOK
<1>4. ASSUME NEW k, NEW p, CreateRow(k, p) PROVE RowsAge
  BY <1>3, <1>4 DEF CreateRow, Fresh
<1>5. ASSUME NEW i \in Ids, DeleteRow(i) PROVE RowsAge
  BY <1>2, <1>5 DEF DeleteRow
<1>6. ASSUME NEW a \in Admins, DeleteNext(a) PROVE RowsAge
  BY <1>1, <1>2, <1>6 DEF DeleteNext
<1>7. ASSUME NEW a \in Admins, ImportNext(a) PROVE RowsAge
  <2>1. PICK x \in job[a].items, i \in Free :
          \/ row' = [row EXCEPT ![i] = [kind |-> x.kind, parent |-> x.parent,
                                        origin |-> x.origin]]
          \/ UNCHANGED row
    BY <1>7 DEF ImportNext, Frontier, Fresh
  <2> QED
    BY <1>1, <1>3, <2>1
<1>8. CASE \E a \in Admins : ExportKind(a) \/ WriteFile(a) \/ ListKind(a)
                             \/ Answer(a) \/ Crash(a)
  BY <1>1, <1>8 DEF ExportKind, WriteFile, ListKind, Answer, Crash
<1>9. CASE \E a \in Admins, b \in Backups :
             BeginExport(a, b) \/ BeginRestore(a, b) \/ BeginImport(a, b)
  BY <1>1, <1>9 DEF BeginExport, BeginRestore, BeginImport, Begin
<1>10. CASE UNCHANGED vars
  BY <1>1, <1>10 DEF vars
<1> QED
  BY <1>4, <1>5, <1>6, <1>7, <1>8, <1>9, <1>10 DEF Next, Serve

(* A row found that is still of an exported kind has always been.          *)
LEMMA FoundStays ==
  ASSUME BackupInv, RowsAge, NEW j, j.before \in SUBSET Ids, Found(j)
  PROVE  /\ Found(j)'
         /\ \A i \in j.before, m \in 1 .. 3 :
              row'[i].kind = Exported[m] => row[i].kind = Exported[m]
<1> SUFFICES ASSUME NEW i \in j.before
             PROVE  /\ row'[i].kind # Unused
                    /\ \A m \in 1 .. 3 :
                         row'[i].kind = Exported[m] => row[i].kind = Exported[m]
  BY DEF Found
<1>1. row[i].kind # Unused /\ row'[i].kind \in {row[i].kind, Gone}
  BY DEF Found, RowsAge
<1>2. Gone # Unused /\ \A m \in 1 .. 3 : Exported[m] # Gone
  BY ExportedKinds, BackupAssumption
<1> QED
  BY <1>1, <1>2

(* What a step does to a request: it begins, goes on, or ends.             *)
LEMMA SweepBegins ==
  ASSUME BackupInv, NEW a \in Admins, NEW b \in Backups,
         BeginExport(a, b) \/ BeginRestore(a, b) \/ BeginImport(a, b)
  PROVE  /\ Found(job[a])' /\ Listed(job[a])' /\ Cleared(job[a])'
         /\ \A c \in Admins \ {a} : job'[c] = job[c]
<1>1. /\ job'[a].before = Live
      /\ \/ job'[a].op = "export" /\ job'[a].kind = 1
         \/ job'[a].op = "restore" /\ job'[a].kind = 3 /\ job'[a].step = "clear"
         \/ job'[a].op = "import"
  <2>1. CASE BeginExport(a, b)
    BY <2>1 DEF BeginExport, Idle, BackupInv, BackupTypeOK
  <2>2. CASE BeginRestore(a, b)
    BY <2>2, ExportedKinds DEF BeginRestore, Begin, Idle, BackupInv, BackupTypeOK
  <2>3. CASE BeginImport(a, b)
    BY <2>3 DEF BeginImport, Begin, Idle, BackupInv, BackupTypeOK
  <2> QED
    BY <2>1, <2>2, <2>3
<1>2. UNCHANGED row /\ \A c \in Admins \ {a} : job'[c] = job[c]
  BY DEF BeginExport, BeginRestore, BeginImport, Begin, BackupInv, BackupTypeOK
<1>3. \A i \in Live : row'[i].kind # Unused
  BY <1>2, BackupAssumption DEF Live, Exists
<1>4. Found(job[a])'
  BY <1>1, <1>3 DEF Found
<1>5. Listed(job[a])'
  BY <1>1 DEF Listed
<1>6. Cleared(job[a])'
  BY <1>1 DEF Cleared
<1> QED
  BY <1>2, <1>4, <1>5, <1>6

LEMMA SweepEnds ==
  ASSUME BackupInv, NEW a \in Admins, WriteFile(a) \/ Answer(a) \/ Crash(a)
  PROVE  /\ Found(job[a])' /\ Listed(job[a])' /\ Cleared(job[a])'
         /\ \A c \in Admins \ {a} : job'[c] = job[c]
<1>1. job' = [job EXCEPT ![a] = Idle]
  BY DEF WriteFile, Answer, Crash
<1>2. job'[a] = Idle /\ \A c \in Admins \ {a} : job'[c] = job[c]
  BY <1>1 DEF BackupInv, BackupTypeOK
<1> QED
  BY <1>2 DEF Idle, Found, Listed, Cleared

LEMMA SweepGoesOn ==
  ASSUME BackupInv, NEW a \in Admins,
         ExportKind(a) \/ ListKind(a) \/ DeleteNext(a) \/ ImportNext(a)
  PROVE  /\ job'[a].op = job[a].op /\ job'[a].before = job[a].before
         /\ \A c \in Admins \ {a} : job'[c] = job[c]
<1>1. job[a] \in Job
  BY DEF BackupInv, BackupTypeOK
<1>2. CASE ExportKind(a)
  <2>1. \E items, kind : job' = [job EXCEPT ![a].items = items, ![a].kind = kind]
    BY <1>2 DEF ExportKind
  <2> QED
    BY <1>1, <2>1 DEF BackupInv, BackupTypeOK, Job
<1>3. CASE ListKind(a)
  <2>1. \E step, kind, todo :
          job' = [job EXCEPT ![a].step = step, ![a].kind = kind, ![a].todo = todo]
    BY <1>3 DEF ListKind
  <2> QED
    BY <1>1, <2>1 DEF BackupInv, BackupTypeOK, Job
<1>4. CASE DeleteNext(a)
  <2>1. PICK left, i : \/ job' = [job EXCEPT ![a] = After(a, left)]
                       \/ job' = [job EXCEPT ![a] = Skip(a, i, left)]
    BY <1>4 DEF DeleteNext
  <2>2. /\ After(a, left).op = job[a].op /\ After(a, left).before = job[a].before
        /\ Skip(a, i, left).op = job[a].op /\ Skip(a, i, left).before = job[a].before
    BY <1>1 DEF After, Skip, Job
  <2> QED
    BY <2>1, <2>2 DEF BackupInv, BackupTypeOK
<1>5. CASE ImportNext(a)
  BY <1>1, <1>5 DEF ImportNext, BackupInv, BackupTypeOK, Job
<1> QED
  BY <1>2, <1>3, <1>4, <1>5

\* A job that is as it was, while rows age.
LEMMA SweepWaits ==
  ASSUME BackupInv, RowsAge, NEW c \in Admins, job'[c] = job[c], Found(job[c])
  PROVE  /\ Found(job[c])'
         /\ Listed(job[c]) => Listed(job[c])'
         /\ Cleared(job[c]) => Cleared(job[c])'
<1>1. job[c].before \in SUBSET Ids
  BY DEF BackupInv, BackupTypeOK, Job
<1>2. /\ \A i \in job[c].before : row'[i].kind # Unused
      /\ \A i \in job[c].before, m \in 1 .. 3 :
           row'[i].kind = Exported[m] => row[i].kind = Exported[m]
  BY <1>1, FoundStays DEF Found
<1> QED
  BY <1>2 DEF Found, Listed, Cleared

LEMMA FoundNext ==
  ASSUME BackupInv, FoundInv, [Next]_vars
  PROVE  FoundInv'
<1>1. RowsAge
  BY RowAges
<1>2. ASSUME NEW c \in Admins, job'[c].before = job[c].before
      PROVE  Found(job[c])'
  <2>1. job[c].before \in SUBSET Ids
    BY DEF BackupInv, BackupTypeOK, Job
  <2>2. \A i \in job[c].before : row'[i].kind # Unused
    BY <1>1, <2>1, FoundStays DEF FoundInv, Found
  <2> QED
    BY <1>2, <2>2 DEF Found
<1>3. ASSUME NEW a \in Admins, Found(job[a])', \A c \in Admins \ {a} : job'[c] = job[c]
      PROVE  FoundInv'
  BY <1>2, <1>3 DEF FoundInv
<1>4. CASE \E a \in Admins, b \in Backups :
             BeginExport(a, b) \/ BeginRestore(a, b) \/ BeginImport(a, b)
  BY <1>3, <1>4, SweepBegins
<1>5. CASE \E a \in Admins : WriteFile(a) \/ Answer(a) \/ Crash(a)
  BY <1>3, <1>5, SweepEnds
<1>6. CASE \E a \in Admins : ExportKind(a) \/ ListKind(a) \/ DeleteNext(a) \/ ImportNext(a)
  BY <1>2, <1>3, <1>6, SweepGoesOn
<1>7. CASE UNCHANGED job
  BY <1>2, <1>7 DEF FoundInv
<1> QED
  BY <1>4, <1>5, <1>6, <1>7 DEF Next, Serve, CreateRow, DeleteRow, vars

LEMMA ListedExport ==
  ASSUME BackupInv, Outcomes = {TRUE}, NEW a \in Admins, Listed(job[a]), ExportKind(a)
  PROVE  Listed(job[a])'
<1> DEFINE k      == job[a].kind
           listed == {ItemOf(i) : i \in OfKind(Exported[k])}
<1>1. job[a] \in Job /\ Fits(job[a]) /\ job[a].op = "export" /\ job[a].step = "list"
  BY DEF BackupInv, BackupTypeOK, PositionsFit, ExportKind, At
<1>2. k \in 1 .. 3
  BY <1>1, ExportedKinds DEF ExportKind, Fits
<1> DEFINE items == job[a].items \cup listed
<1>3. job' = [job EXCEPT ![a].items = items, ![a].kind = k + 1]
  BY DEF ExportKind
<1> HIDE DEF items
<1>4. job'[a] = [job[a] EXCEPT !.items = items, !.kind = k + 1]
  BY <1>3 DEF BackupInv, BackupTypeOK
<1>5. /\ job'[a].op = "export" /\ job'[a].step = "list"
      /\ job'[a].items = items
      /\ job'[a].kind = k + 1 /\ job'[a].before = job[a].before
  BY <1>1, <1>4 DEF Job
<1> USE DEF items
<1>6. \A i \in Ids : row[i].kind = Exported[k] => \E x \in listed : x.id = i
  <2> TAKE i \in Ids
  <2>1. row[i].kind = Exported[k] => ItemOf(i) \in listed
    BY DEF OfKind
  <2>2. ItemOf(i).id = i
    BY DEF ItemOf
  <2> QED
    BY <2>1, <2>2
<1>7. job[a].before \in SUBSET Ids /\ UNCHANGED row
  BY <1>1 DEF Job, ExportKind
<1> HIDE DEF listed
<1> SUFFICES ASSUME NEW i \in job[a].before, NEW m \in 1 .. 3,
                    row[i].kind = Exported[m], m < k + 1
             PROVE  \E x \in job[a].items \cup listed : x.id = i
  BY <1>1, <1>5, <1>7 DEF Listed
<1>8. CASE m = k
  BY <1>6, <1>7, <1>8
<1>9. CASE m < k
  BY <1>1, <1>9 DEF Listed
<1> QED
  BY <1>2, <1>8, <1>9

LEMMA ClearedList ==
  ASSUME BackupInv, NEW a \in Admins, Cleared(job[a]), ListKind(a)
  PROVE  Cleared(job[a])'
<1> DEFINE k    == job[a].kind
           rows == IF k = 0 THEN {} ELSE OfKind(Exported[k])
<1>1. job[a] \in Job /\ Fits(job[a]) /\ job[a].op = "restore" /\ job[a].step = "clear"
  BY DEF BackupInv, BackupTypeOK, PositionsFit, ListKind, At
<1>2. k \in 0 .. 3
  BY <1>1 DEF Fits
<1>3. /\ job'[a].op = "restore" /\ job'[a].todo = rows
      /\ job'[a].step = IF k = 0 THEN "create" ELSE IF rows = {} THEN "clear" ELSE "delete"
      /\ job'[a].kind = IF k > 0 /\ rows = {} THEN k - 1 ELSE k
      /\ job'[a].before = job[a].before /\ job'[a].skipped = job[a].skipped
  BY <1>1 DEF ListKind, BackupInv, BackupTypeOK, Job
<1>4. \A i \in Ids : k > 0 /\ row[i].kind = Exported[k] => i \in rows
  BY DEF OfKind
<1>5. job[a].before \in SUBSET Ids /\ UNCHANGED row
  BY <1>1 DEF Job, ListKind
<1> HIDE DEF rows
<1>7. ASSUME NEW i \in job[a].before, NEW m \in 1 .. 3, row[i].kind = Exported[m], m > k
      PROVE  i \in job[a].skipped
  BY <1>1, <1>7 DEF Cleared
<1>8. ASSUME NEW i \in job[a].before, NEW m \in 1 .. 3, row[i].kind = Exported[m], m = k
      PROVE  i \in rows
  BY <1>4, <1>5, <1>8
<1>9. CASE k = 0
  BY <1>3, <1>5, <1>7, <1>9 DEF Cleared
<1>10. CASE k > 0 /\ rows = {}
  <2>1. ASSUME NEW i \in job[a].before, NEW m \in 1 .. 3, row[i].kind = Exported[m], m > k - 1
        PROVE  i \in job[a].skipped
    BY <1>2, <1>7, <1>8, <1>10, <2>1
  <2> QED
    BY <1>3, <1>5, <1>10, <2>1 DEF Cleared
<1>11. CASE k > 0 /\ rows # {}
  BY <1>3, <1>5, <1>7, <1>8, <1>11 DEF Cleared
<1> QED
  BY <1>2, <1>9, <1>10, <1>11

LEMMA ClearedDelete ==
  ASSUME BackupInv, RowsAge, NEW a \in Admins, Found(job[a]), Cleared(job[a]), DeleteNext(a)
  PROVE  Cleared(job[a])'
<1> DEFINE k == job[a].kind
<1>1. job[a] \in Job /\ Fits(job[a]) /\ job[a].op = "restore" /\ job[a].step = "delete"
  BY DEF BackupInv, BackupTypeOK, PositionsFit, DeleteNext, At
<1>2. k \in 1 .. 3 /\ job[a].before \in SUBSET Ids
  BY <1>1 DEF Fits, Job
<1>3. PICK t \in job[a].todo :
        \/ /\ row' = Deleted(t)
           /\ job' = [job EXCEPT ![a] = After(a, job[a].todo \ {t})]
        \/ /\ job' = [job EXCEPT ![a] = Skip(a, t, job[a].todo \ {t})]
           /\ UNCHANGED row
  BY DEF DeleteNext
<1> DEFINE left == job[a].todo \ {t}
<1>4. /\ job'[a].op = "restore" /\ job'[a].before = job[a].before
      /\ job'[a].todo = left
      /\ job'[a].step = IF left = {} THEN "clear" ELSE "delete"
      /\ job'[a].kind = IF left = {} THEN k - 1 ELSE k
      /\ job[a].skipped \subseteq job'[a].skipped
  <2> DEFINE step == IF left = {} THEN "clear" ELSE "delete"
             kind == IF left = {} THEN k - 1 ELSE k
             j    == [job[a] EXCEPT !.todo = left, !.step = step, !.kind = kind]
  <2>1. After(a, left) = j
    BY <1>1 DEF After, Job
  <2>2. Skip(a, t, left) = [j EXCEPT !.skipped = j.skipped \cup {t}]
    BY <2>1 DEF Skip
  <2> HIDE DEF step, kind, left
  <2>3. job'[a] \in {j, [j EXCEPT !.skipped = j.skipped \cup {t}]}
    <3> HIDE DEF j
    <3> QED BY <1>3, <2>1, <2>2 DEF BackupInv, BackupTypeOK, left
  <2>5. j.skipped = job[a].skipped
    BY <1>1 DEF Job
  <2>4. /\ job'[a].op = "restore" /\ job'[a].before = job[a].before
        /\ job'[a].todo = left /\ job'[a].step = step /\ job'[a].kind = kind
        /\ job[a].skipped \subseteq job'[a].skipped
    <3>1. CASE job'[a] = j
      BY <1>1, <3>1 DEF Job
    <3>2. CASE job'[a] = [j EXCEPT !.skipped = j.skipped \cup {t}]
      BY <1>1, <2>5, <3>2 DEF Job
    <3> QED BY <2>3, <3>1, <3>2
  <2> QED
    BY <2>4 DEF step, kind
<1>5. t \in job'[a].skipped \/ row'[t].kind = Gone
  <2>1. CASE row' = Deleted(t)
    <3>1. t \in Ids /\ t \in Doomed(t)
      BY <1>1 DEF Job, Doomed, Cascade
    <3> QED
      BY <2>1, <3>1 DEF Deleted, NoRow
  <2>2. CASE job' = [job EXCEPT ![a] = Skip(a, t, left)]
    BY <1>1, <2>2 DEF After, Skip, BackupInv, BackupTypeOK, Job
  <2> QED
    BY <1>3, <2>1, <2>2
<1>6. \A i \in job[a].before, m \in 1 .. 3 :
        row'[i].kind = Exported[m] => row[i].kind = Exported[m]
  BY <1>2, FoundStays
<1>7. \A m \in 1 .. 3 : Exported[m] # Gone
  BY ExportedKinds, BackupAssumption
<1> HIDE DEF left
<1>8. ASSUME NEW i \in job[a].before, NEW m \in 1 .. 3, row'[i].kind = Exported[m]
      PROVE  /\ m > k => i \in job'[a].skipped
             /\ m = k => i \in left \cup job'[a].skipped
  <2>1. row[i].kind = Exported[m]
    BY <1>6, <1>8
  <2>2. /\ m > k => i \in job[a].skipped
        /\ m = k => i \in job[a].todo \cup job[a].skipped
    BY <1>1, <2>1 DEF Cleared
  <2> QED
    BY <1>4, <1>5, <1>7, <1>8, <2>2 DEF left
<1>9. CASE left = {}
  <2>1. ASSUME NEW i \in job[a].before, NEW m \in 1 .. 3, row'[i].kind = Exported[m],
               m > k - 1
        PROVE  i \in job'[a].skipped
    BY <1>2, <1>8, <1>9, <2>1
  <2> QED
    BY <1>4, <1>9, <2>1 DEF Cleared
<1>10. CASE left # {}
  BY <1>4, <1>8, <1>10 DEF Cleared
<1> QED
  BY <1>9, <1>10

LEMMA ClearedImport ==
  ASSUME BackupInv, RowsAge, NEW a \in Admins, Found(job[a]), Cleared(job[a]), ImportNext(a)
  PROVE  Cleared(job[a])'
<1>1. job[a] \in Job /\ job[a].step = "create"
  BY DEF BackupInv, BackupTypeOK, ImportNext, At
<1>2. /\ job'[a].op = job[a].op /\ job'[a].step = "create"
      /\ job'[a].before = job[a].before /\ job'[a].skipped = job[a].skipped
  BY <1>1 DEF ImportNext, BackupInv, BackupTypeOK, Job
<1>3. \A i \in job[a].before, m \in 1 .. 3 :
        row'[i].kind = Exported[m] => row[i].kind = Exported[m]
  BY <1>1, FoundStays DEF Job
<1> QED
  BY <1>1, <1>2, <1>3 DEF Cleared

LEMMA ListNext ==
  ASSUME BackupInv, Outcomes = {TRUE}, FoundInv, ListInv, [Next]_vars
  PROVE  ListInv'
<1>1. ASSUME NEW a \in Admins, Listed(job[a])', \A c \in Admins \ {a} : job'[c] = job[c]
      PROVE  ListInv'
  BY <1>1, RowAges, SweepWaits DEF FoundInv, ListInv
<1>2. CASE \E a \in Admins, b \in Backups :
             BeginExport(a, b) \/ BeginRestore(a, b) \/ BeginImport(a, b)
  BY <1>1, <1>2, SweepBegins
<1>3. CASE \E a \in Admins : WriteFile(a) \/ Answer(a) \/ Crash(a)
  BY <1>1, <1>3, SweepEnds
<1>4. CASE \E a \in Admins : ExportKind(a)
  BY <1>1, <1>4, ListedExport, SweepGoesOn DEF ListInv
<1>5. ASSUME NEW a \in Admins, ListKind(a) \/ DeleteNext(a) \/ ImportNext(a)
      PROVE  ListInv'
  <2>1. job'[a].op # "export"
    BY <1>5, SweepGoesOn DEF ListKind, DeleteNext, ImportNext, At
  <2> QED
    BY <1>1, <1>5, <2>1, SweepGoesOn DEF Listed
<1>6. CASE UNCHANGED job
  BY <1>6, RowAges, SweepWaits DEF FoundInv, ListInv
<1> QED
  BY <1>2, <1>3, <1>4, <1>5, <1>6 DEF Next, Serve, CreateRow, DeleteRow, vars

LEMMA ClearNext ==
  ASSUME BackupInv, FoundInv, ClearInv, [Next]_vars
  PROVE  ClearInv'
<1>1. ASSUME NEW a \in Admins, Cleared(job[a])', \A c \in Admins \ {a} : job'[c] = job[c]
      PROVE  ClearInv'
  BY <1>1, RowAges, SweepWaits DEF FoundInv, ClearInv
<1>2. CASE \E a \in Admins, b \in Backups :
             BeginExport(a, b) \/ BeginRestore(a, b) \/ BeginImport(a, b)
  BY <1>1, <1>2, SweepBegins
<1>3. CASE \E a \in Admins : WriteFile(a) \/ Answer(a) \/ Crash(a)
  BY <1>1, <1>3, SweepEnds
<1>4. ASSUME NEW a \in Admins, ExportKind(a) PROVE ClearInv'
  <2>1. job'[a].op # "restore"
    BY <1>4, SweepGoesOn DEF ExportKind, At
  <2> QED
    BY <1>1, <1>4, <2>1, SweepGoesOn DEF Cleared
<1>5. ASSUME NEW a \in Admins, ListKind(a) \/ DeleteNext(a) \/ ImportNext(a)
      PROVE  ClearInv'
  <2>1. Cleared(job[a])'
    BY <1>5, RowAges, ClearedList, ClearedDelete, ClearedImport DEF FoundInv, ClearInv
  <2> QED
    BY <1>1, <1>5, <2>1, SweepGoesOn
<1>6. CASE UNCHANGED job
  BY <1>6, RowAges, SweepWaits DEF FoundInv, ClearInv
<1> QED
  BY <1>2, <1>3, <1>4, <1>5, <1>6 DEF Next, Serve, CreateRow, DeleteRow, vars

(* A restore that starts to import has deleted every row of an exported    *)
(* kind that it found, or logged that it could not, whatever clients and   *)
(* other admins write meanwhile and whichever deletes fail.                *)
THEOREM RestoreClears == Spec => []RestoreReplaces
<1>1. Init => FoundInv /\ ClearInv
  BY DEF Init, Idle, FoundInv, Found, ClearInv, Cleared
<1>2. BackupInv /\ ClearInv => RestoreReplaces
  <2> SUFFICES ASSUME BackupInv, ClearInv, NEW a \in Admins, At(a, {"restore"}, "create"),
                      NEW i \in job[a].before, NEW n \in DOMAIN Exported,
                      row[i].kind = Exported[n]
               PROVE  i \in job[a].skipped
    BY DEF RestoreReplaces
  <2>1. n \in 1 .. 3
    BY DEF Exported
  <2> QED
    BY <2>1 DEF ClearInv, Cleared, At
<1> QED
  BY <1>1, <1>2, InvInit, InvNext, FoundNext, ClearNext, PTL DEF Spec

(* As long as no list fails, an export holds every row of an exported kind *)
(* that was there from its begin to the writing of its file, whatever is   *)
(* created and deleted between its lists.                                  *)
THEOREM ExportsAll == Outcomes = {TRUE} /\ Spec => ExportComplete
<1> SUFFICES ASSUME Outcomes = {TRUE} PROVE Spec => ExportComplete
  OBVIOUS
<1>1. Init => FoundInv /\ ListInv
  BY DEF Init, Idle, FoundInv, Found, ListInv, Listed
<1>2. BackupInv /\ FoundInv /\ ListInv /\ [Next]_vars => ListInv'
  BY ListNext
<1>3. ASSUME BackupInv, ListInv
      PROVE  [\A a \in Admins : WriteFile(a) =>
                \A i \in job[a].before :
                  Exists(i) /\ row[i].kind \in {Exported[n] : n \in DOMAIN Exported}
                    => i \in {x.id : x \in job[a].items}]_vars
  <2> SUFFICES ASSUME NEW a \in Admins, WriteFile(a), NEW i \in job[a].before,
                      NEW n \in DOMAIN Exported, row[i].kind = Exported[n]
               PROVE  \E x \in job[a].items : x.id = i
    OBVIOUS
  <2>1. n \in 1 .. 3
    BY DEF Exported
  <2>2. job[a].op = "export" /\ job[a].kind \in 1 .. 4 /\ job[a].kind > 3
    BY <1>3, ExportedKinds DEF WriteFile, At, BackupInv, PositionsFit, Fits
  <2> QED
    BY <1>3, <2>1, <2>2 DEF ListInv, Listed
<1> QED
  BY <1>1, <1>2, <1>3, InvInit, InvNext, FoundNext, PTL DEF Spec, ExportComplete
=============================================================================
