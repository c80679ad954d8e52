---------------------------- MODULE BackupRestore ----------------------------
(***************************************************************************)
(* Export, import and restore of the store (backend/routers/admin.py,      *)
(* admin_runtime.py, data_exchange.py) while clients go on writing.        *)
(*                                                                         *)
(* An export lists one kind of entity after another; an import creates the *)
(* exported rows again, kind by kind, under new ids; a restore deletes     *)
(* every exported kind first.  All of them are sequences of store calls    *)
(* that commit one by one, and a store call that fails is logged and       *)
(* skipped.                                                                *)
(*                                                                         *)
(* Abstractions.  Of the 28 exported kinds the model has a chain of three, *)
(* and two that no export holds: meters, whose foreign key blocks the      *)
(* delete of their unit, and billing periods, which go with their          *)
(* property.  A row has one parent.  Its content is where it comes from:   *)
(* the row a client created, which an imported copy repeats.  Backups are  *)
(* names; two of them never get the same time stamp.                       *)
(***************************************************************************)
EXTENDS Integers, FiniteSets, Sequences

CONSTANTS
  Admins,      (* threads that serve admin requests                        *)
  MaxRows,     (* bound on the rows created: ids are never used twice      *)
  Backups,     (* names of backup files                                    *)
  ClientKinds, (* the kinds of rows clients create                         *)
  Outcomes,    (* of a store call: {TRUE} if none fails, or BOOLEAN        *)
  Crashes,     (* may the process die                                      *)
  Unused,      (* the id names no row yet                                  *)
  Gone,        (* the row was deleted                                      *)
  None         (* no row, no file                                          *)

Ids == 1 .. MaxRows  \* UUIDs in the code, named in the order of their use

\* The exported kinds, parents before children.
Exported == <<"portfolio", "property", "unit">>
Kinds    == {"portfolio", "property", "unit", "meter", "period"}

ParentKind == [property |-> "portfolio", unit |-> "property",
               meter |-> "unit", period |-> "property"]

\* Kinds whose rows go when their parent goes; others block its delete.
Cascading == {"property", "unit", "period"}

ASSUME BackupAssumption ==
  /\ ClientKinds \subseteq Kinds
  /\ Outcomes \subseteq BOOLEAN /\ Outcomes # {}
  /\ Crashes \in BOOLEAN
  /\ Unused # Gone /\ {Unused, Gone} \cap Kinds = {}
  /\ MaxRows \in Nat
  /\ None \notin Ids

VARIABLES
  row,   (* id -> kind, parent and origin of the row                       *)
  file,  (* backup -> the items it holds, or None                          *)
  job    (* admin thread -> the request it serves                          *)

vars == <<row, file, job>>
-----------------------------------------------------------------------------
Rows == [kind : Kinds \cup {Unused, Gone}, parent : Ids \cup {None},
         origin : Ids \cup {None}]
NoRow(mark) == [kind |-> mark, parent |-> None, origin |-> None]

\* What an export keeps of a row: its id and its fields.
Items == [id : Ids, kind : Kinds, parent : Ids \cup {None}, origin : Ids]

Exists(i) == row[i].kind \in Kinds
Live      == {i \in Ids : Exists(i)}
OfKind(k) == {i \in Ids : row[i].kind = k}
ItemOf(i) == [id |-> i, kind |-> row[i].kind, parent |-> row[i].parent,
              origin |-> row[i].origin]

\* The rows that go with those of S; the chain of kinds is four rows long.
Cascade(S) == S \cup {j \in Ids : row[j].kind \in Cascading /\ row[j].parent \in S}
Doomed(i)  == Cascade(Cascade(Cascade({i})))
Blocked(i) == \E j \in Ids : /\ row[j].kind \in DOMAIN ParentKind \ Cascading
                             /\ row[j].parent \in Doomed(i)
Deletable(i) == Exists(i) /\ ~Blocked(i)

\* Variant: the foreign keys are declared ON DELETE SET NULL.
DeletedSetsNull(i) ==
  [j \in Ids |-> IF j = i THEN NoRow(Gone)
                 ELSE IF row[j].parent = i THEN [row[j] EXCEPT !.parent = None]
                 ELSE row[j]]

Deleted(i) == [j \in Ids |-> IF j \in Doomed(i) THEN NoRow(Gone) ELSE row[j]]

\* The store refuses a row whose parent does not exist.
Admissible(kind, parent) ==
  IF kind = "portfolio" THEN parent = None
  ELSE parent \in OfKind(ParentKind[kind])

Job == [op : {"idle", "export", "restore", "import"},
        step : {"list", "clear", "delete", "create"},
        kind : 0 .. Len(Exported) + 1,   \* position in Exported
        todo : SUBSET Ids,               \* rows listed for deletion
        items : SUBSET Items,            \* exported, or left to import
        name : Backups \cup {None},
        before : SUBSET Ids,             \* history: the rows at the start
        skipped : SUBSET Ids,            \* deletes that failed and were logged
        imported : SUBSET Items]         \* counted in the answer

Idle == [op |-> "idle", step |-> "list", kind |-> 0, todo |-> {}, items |-> {},
         name |-> None, before |-> {}, skipped |-> {}, imported |-> {}]

Init == /\ row  = [i \in Ids |-> NoRow(Unused)]
        /\ file = [b \in Backups |-> None]
        /\ job  = [a \in Admins |-> Idle]

At(a, op, step) == job[a].op \in op /\ job[a].step = step

Free     == {i \in Ids : row[i].kind = Unused}
Fresh(i) == i \in Free /\ \A j \in Free : i <= j

\* Bound: ids are kept for the rows that admitted imports will create.
Reserved == UNION {{<<a, x>> : x \in job[a].items} :
                     a \in {b \in Admins : job[b].op \in {"restore", "import"}}}
-----------------------------------------------------------------------------
(* Clients.                                                                *)

CreateRow(kind, parent) ==
  /\ Admissible(kind, parent)
  /\ Cardinality(Free) > Cardinality(Reserved)
  /\ \E i \in {j \in Ids : Fresh(j)} :
       row' = [row EXCEPT ![i] = [kind |-> kind, parent |-> parent, origin |-> i]]
  /\ UNCHANGED <<file, job>>

DeleteRow(i) ==
  /\ Deletable(i)
  /\ row' = Deleted(i)
  /\ UNCHANGED <<file, job>>
-----------------------------------------------------------------------------
(* Export.                                                                 *)

BeginExport(a, b) ==
  /\ job[a].op = "idle"
  /\ file[b] = None
  /\ \A c \in Admins : job[c].name # b
  /\ job' = [job EXCEPT ![a] = [Idle EXCEPT !.op = "export", !.kind = 1,
                                            !.name = b, !.before = Live]]
  /\ UNCHANGED <<row, file>>

\* Variant: the last kind is forgotten.
ExportKindShort(a) ==
  /\ At(a, {"export"}, "list")
  /\ job[a].kind < Len(Exported)
  /\ job' = [job EXCEPT
               ![a].items = @ \cup {ItemOf(i) : i \in OfKind(Exported[job[a].kind])},
               ![a].kind = IF @ = Len(Exported) - 1 THEN @ + 2 ELSE @ + 1]
  /\ UNCHANGED <<row, file>>

\* _safe_list: a list that fails is exported empty.
ExportKind(a) ==
  /\ At(a, {"export"}, "list")
  /\ job[a].kind <= Len(Exported)
  /\ \E ok \in Outcomes :
       job' = [job EXCEPT
                 ![a].items = IF ok THEN @ \cup {ItemOf(i) :
                                            i \in OfKind(Exported[job[a].kind])}
                              ELSE @,
                 ![a].kind = @ + 1]
  /\ UNCHANGED <<row, file>>

WriteFile(a) ==
  /\ At(a, {"export"}, "list")
  /\ job[a].kind > Len(Exported)
  /\ file' = [file EXCEPT ![job[a].name] = job[a].items]
  /\ job' = [job EXCEPT ![a] = Idle]
  /\ UNCHANGED row
-----------------------------------------------------------------------------
(* Restore: clear, then import.  POST /data/import only imports.           *)

Begin(a, b, op, step) ==
  /\ job[a].op = "idle"
  /\ file[b] # None
  /\ Cardinality(Free) >= Cardinality(Reserved) + Cardinality(file[b])
  /\ job' = [job EXCEPT ![a] =
               [Idle EXCEPT !.op = op, !.step = step, !.kind = Len(Exported),
                            !.items = file[b], !.name = b, !.before = Live]]
  /\ UNCHANGED <<row, file>>

BeginRestore(a, b) == Begin(a, b, "restore", "clear")
BeginImport(a, b)  == Begin(a, b, "import", "create")

\* _clear_store_data: children before parents; each kind is listed once.
ListKind(a) ==
  /\ At(a, {"restore"}, "clear")
  /\ LET k    == job[a].kind
         rows == IF k = 0 THEN {} ELSE OfKind(Exported[k])
     IN  job' = [job EXCEPT
                   ![a].step = IF k = 0 THEN "create"
                               ELSE IF rows = {} THEN "clear" ELSE "delete",
                   ![a].kind = IF k > 0 /\ rows = {} THEN @ - 1 ELSE @,
                   ![a].todo = rows]
  /\ UNCHANGED <<row, file>>

\* Variant: the position moves on with every row.
AfterEvery(a, left) ==
  [job[a] EXCEPT !.todo = left,
                 !.step = IF left = {} THEN "clear" ELSE "delete",
                 !.kind = @ - 1]

\* The loop goes on, with the next kind when this one's list is done.
After(a, left) ==
  [job[a] EXCEPT !.todo = left,
                 !.step = IF left = {} THEN "clear" ELSE "delete",
                 !.kind = IF left = {} THEN @ - 1 ELSE @]
Skip(a, i, left) == [After(a, left) EXCEPT !.skipped = @ \cup {i}]

\* Variant: the first delete that fails ends the loop over the kind.
DeleteNextStops(a) ==
  /\ At(a, {"restore"}, "delete")
  /\ \E i \in job[a].todo :
       IF Deletable(i)
       THEN /\ row' = Deleted(i)
            /\ job' = [job EXCEPT ![a] = After(a, job[a].todo \ {i})]
       ELSE job' = [job EXCEPT ![a] = Skip(a, i, {})] /\ UNCHANGED row
  /\ UNCHANGED file

\* Variant: a row that cannot be deleted is tried again.
DeleteNextInsists(a) ==
  /\ At(a, {"restore"}, "delete")
  /\ \E i \in job[a].todo :
       IF Deletable(i)
       THEN /\ row' = Deleted(i)
            /\ job' = [job EXCEPT ![a] = After(a, job[a].todo \ {i})]
       ELSE UNCHANGED <<row, job>>
  /\ UNCHANGED file

\* A row that is gone already, or cannot go, is logged and passed over.
DeleteNext(a) ==
  /\ At(a, {"restore"}, "delete")
  /\ \E i \in job[a].todo, ok \in Outcomes :
       IF ok /\ Deletable(i)
       THEN /\ row' = Deleted(i)
            /\ job' = [job EXCEPT ![a] = After(a, job[a].todo \ {i})]
       ELSE /\ job' = [job EXCEPT ![a] = Skip(a, i, job[a].todo \ {i})]
            /\ UNCHANGED row
  /\ UNCHANGED file

\* The items of the first kind that is not done yet.
Frontier(items) ==
  {x \in items : \A y \in items : \E m, n \in 1 .. Len(Exported) :
     Exported[m] = x.kind /\ Exported[n] = y.kind /\ m <= n}

\* The id of the item is dropped and its parent's id kept; a row the store
\* refuses is passed over.
ImportNext(a) ==
  /\ At(a, {"restore", "import"}, "create")
  /\ \E x \in Frontier(job[a].items), i \in {j \in Ids : Fresh(j)}, ok \in Outcomes :
       IF ok /\ Admissible(x.kind, x.parent)
       THEN /\ row' = [row EXCEPT ![i] = [kind |-> x.kind, parent |-> x.parent,
                                          origin |-> x.origin]]
            /\ job' = [job EXCEPT ![a].items = @ \ {x},
                                  ![a].imported = @ \cup {x}]
       ELSE /\ job' = [job EXCEPT ![a].items = @ \ {x}]
            /\ UNCHANGED row
  /\ UNCHANGED file

Answer(a) ==
  /\ At(a, {"restore", "import"}, "create")
  /\ job[a].items = {}
  /\ job' = [job EXCEPT ![a] = Idle]
  /\ UNCHANGED <<row, file>>

\* The process dies, or a list that is not guarded raises.
Crash(a) ==
  /\ Crashes
  /\ job[a].op # "idle"
  /\ job' = [job EXCEPT ![a] = Idle]
  /\ UNCHANGED <<row, file>>
-----------------------------------------------------------------------------
Serve(a) ==
  \/ ExportKind(a) \/ WriteFile(a)
  \/ ListKind(a) \/ DeleteNext(a) \/ ImportNext(a) \/ Answer(a)

Next ==
  \/ \E k \in ClientKinds, p \in Ids \cup {None} : CreateRow(k, p)
  \/ \E i \in Ids : DeleteRow(i)
  \/ \E a \in Admins, b \in Backups :
       BeginExport(a, b) \/ BeginRestore(a, b) \/ BeginImport(a, b)
  \/ \E a \in Admins : Serve(a) \/ Crash(a)

Spec     == Init /\ [][Next]_vars
FairSpec == Spec /\ \A a \in Admins : WF_vars(Serve(a))
=============================================================================
