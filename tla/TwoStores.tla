----------------------------- MODULE TwoStores ------------------------------
(***************************************************************************)
(* The two stores of the application beside each other, given the same     *)
(* calls.  A deployment runs one of them: the SQL store, or the in-memory  *)
(* store when it is configured or when the database cannot be opened       *)
(* (backend/dependencies.py); nothing above them knows which.              *)
(*                                                                         *)
(* Abstractions.  A call is one step.  A row is its kind, its references   *)
(* and what it holds that no request body gives: a thread's count of       *)
(* messages, or 1 for a notification that was read.  Other fields, and the *)
(* uniqueness of contract numbers, are left out.  One row of each kind *)
(* of an area exists at the start, and is named like its kind.             *)
(***************************************************************************)
EXTENDS StoreTables, Integers, FiniteSets

CONSTANTS
  Areas,    (* sets of kinds; a behaviour has the rows of one              *)
  NewIds,   (* ids for the rows that are created                           *)
  MaxCalls, (* bound on the calls                                          *)
  Unused,   (* the id names no row yet                                     *)
  Gone,     (* the row was deleted                                         *)
  None      (* an empty reference                                          *)

AllKinds == UNION Areas

\* Anything that may be a row, of any area.
AnyRow == [kind  : Kinds,
           refs  : UNION {[ParentsOf[k] -> AllKinds \cup NewIds \cup {None}] : k \in Kinds},
           count : Nat]

ASSUME StoreAssumption ==
  /\ MaxCalls \in Nat
  /\ AllKinds \subseteq Kinds
  /\ IsFiniteSet(AllKinds) /\ IsFiniteSet(NewIds)
  /\ Unused # Gone
  /\ {Unused, Gone} \cap AnyRow = {}
  /\ None \notin AllKinds \cup NewIds
  /\ AllKinds \cap NewIds = {}
  /\ \A area \in Areas, k \in AllKinds : k \in area =>
       \A p \in ParentsOf[k] : <<k, p>> \in Required => p \in area

VARIABLES
  sql,    (* the database: id -> row                                       *)
  mem,    (* the dictionaries of the in-memory store                       *)
  agreed, (* history: have the stores accepted the same calls              *)
  calls   (* how many calls there were                                     *)

vars == <<sql, mem, agreed, calls>>
-----------------------------------------------------------------------------
\* The ids of this behaviour, and the kinds of its area.
Ids     == DOMAIN sql
Present == Ids \ NewIds

Row(k) == [kind : {k}, refs : [ParentsOf[k] -> Ids \cup {None}], count : 0 .. Cardinality(NewIds) + 1]

Live(rows, i)     == rows[i] \notin {Unused, Gone}
HasRow(rows, k, i) == i \in Ids /\ Live(rows, i) /\ rows[i].kind = k
NewRow(k, refs)   == [kind |-> k, refs |-> refs, count |-> 0]

SeedRow(i, area) ==
  [kind  |-> i,
   refs  |-> [p \in ParentsOf[i] |-> IF p \in area \ {i} /\ <<i, p>> \in Required \cup Optional
                                     THEN p ELSE None],
   count |-> IF i = "thread" /\ "message" \in area THEN 1 ELSE 0]

Dataset(area) == [i \in area \cup NewIds |-> IF i \in area THEN SeedRow(i, area) ELSE Unused]

Init == /\ \E area \in Areas : sql = Dataset(area)
        /\ mem = sql
        /\ agreed = TRUE
        /\ calls = 0

\* What a client may name as a parent: a row of that kind, deleted or not,
\* or nothing where that is allowed.
Candidates(k, p) ==
  {i \in Ids : /\ <<k, p>> \in Required \cup Optional
              /\ \/ i = p /\ p \in Present
                 \/ HasRow(sql, p, i) \/ HasRow(mem, p, i)}
  \cup (IF <<k, p>> \in Required THEN {} ELSE {None})

\* All references filled in where they can be, but for one.
Usual(k)  == [p \in ParentsOf[k] |->
                IF p \in Present /\ <<k, p>> \in Required \cup Optional THEN p ELSE None]
Inputs(k) == {Usual(k)} \cup
  UNION {{[Usual(k) EXCEPT ![p] = i] : i \in Candidates(k, p)} : p \in ParentsOf[k]}
-----------------------------------------------------------------------------
(* What the stores answer to a create or update with these references.     *)

Found(rows, checks, k, refs) ==
  \A p \in ParentsOf[k] :
    <<k, p>> \in checks /\ refs[p] # None => HasRow(rows, p, refs[p])

\* Both stores check that the unit of a contract lies in its property.
UnitInProperty(rows, k, refs) ==
  k = "contract" => rows[refs["unit"]].refs["property"] = refs["property"]

Checked(rows, checks, k, refs) ==
  Found(rows, checks, k, refs) /\ UnitInProperty(rows, k, refs)

\* The constraints of the table.
Constrained(r, value) ==
  IF value = None THEN r.rule = "null"
  ELSE HasRow(sql, r.parent, value)

SqlAccepts(op, k, refs) ==
  /\ Checked(sql, RepoChecks[op], k, refs)
  /\ \A r \in ForeignKeys[k] : Constrained(r, refs[r.parent])

MemoryAccepts(op, k, refs) == Checked(mem, MemoryChecks[op], k, refs)

\* A patch sets one reference, and its schema lets every one be empty.
SqlAcceptsPatch(i, p, value) ==
  \A r \in ForeignKeys[sql[i].kind] : r.parent = p => Constrained(r, value)
-----------------------------------------------------------------------------
(* Deletes.  The rows that go with those of S, along the pairs of drops;   *)
(* the longest chain of the tables has five rows.                          *)

Children(rows, drops, S) ==
  {j \in Ids : Live(rows, j) /\ \E p \in ParentsOf[rows[j].kind] :
                  <<rows[j].kind, p>> \in drops /\ rows[j].refs[p] \in S}
Spread(rows, drops, S)  == S \cup Children(rows, drops, S)
Doomed(rows, drops, i) ==
  LET two == Spread(rows, drops, Spread(rows, drops, {i}))
  IN  Spread(rows, drops, Spread(rows, drops, two))

\* The rows without those of S, and without references to them in unlinks.
Without(rows, unlinks, S) ==
  [j \in Ids |->
     IF j \in S THEN Gone
     ELSE IF ~Live(rows, j) THEN rows[j]
     ELSE [rows[j] EXCEPT !.refs =
             [p \in DOMAIN @ |-> IF <<rows[j].kind, p>> \in unlinks /\ @[p] \in S
                                 THEN None ELSE @[p]]]]

SqlDoomed(i)   == Doomed(sql, Cascading, i)
SqlDeletes(i)  == /\ Live(sql, i)
                  /\ Children(sql, Blocking, SqlDoomed(i)) \subseteq SqlDoomed(i)

\* Variant: the columns that should be emptied keep their values.
SqlWithoutKept(i) == Without(sql, {}, SqlDoomed(i))

\* Variant: rows go with the parents they could do without.
SqlWithoutGreedy(i) ==
  Without(sql, {}, Doomed(sql, Cascading \cup Nullable, i))

SqlWithout(i)    == Without(sql, Nullable, SqlDoomed(i))
MemoryWithout(i) == Without(mem, MemoryUnlinks, Doomed(mem, MemoryDrops, i))
-----------------------------------------------------------------------------
\* Variant: the thread's statistics are written before the row exists.
CountedLate(rows, i) == rows

\* Variant: the store and the repository both count it.
CountedTwice(rows, i) ==
  LET t == rows[i].refs["thread"]
  IN  IF rows[i].kind = "message" /\ HasRow(rows, "thread", t)
      THEN [rows EXCEPT ![t].count = @ + 2] ELSE rows

\* A message that is created is counted by its thread.
Counted(rows, i) ==
  LET t == rows[i].refs["thread"]
  IN  IF rows[i].kind = "message" /\ HasRow(rows, "thread", t)
      THEN [rows EXCEPT ![t].count = @ + 1] ELSE rows

\* The stores answer; a store that refuses changes nothing.
Answer(sqlOk, newSql, memOk, newMem) ==
  /\ calls < MaxCalls
  /\ calls' = calls + 1
  /\ sql' = IF sqlOk THEN newSql ELSE sql
  /\ mem' = IF memOk THEN newMem ELSE mem
  /\ agreed' = (agreed /\ sqlOk = memOk)

Create(i, k, refs) ==
  /\ Offers(k, "create")
  /\ sql[i] = Unused /\ mem[i] = Unused
  /\ LET row == NewRow(k, refs)
     IN  Answer(SqlAccepts("create", k, refs), Counted([sql EXCEPT ![i] = row], i),
                MemoryOffers(k, "create") /\ MemoryAccepts("create", k, refs),
                Counted([mem EXCEPT ![i] = row], i))

\* An update in memory builds the row anew: what no body gives starts again.
Update(i, k, refs) ==
  /\ Offers(k, "update")
  /\ HasRow(sql, k, i) \/ HasRow(mem, k, i)
  /\ Answer(HasRow(sql, k, i) /\ SqlAccepts("update", k, refs),
            [sql EXCEPT ![i].refs = refs],
            /\ HasRow(mem, k, i)
            /\ MemoryOffers(k, "update") /\ MemoryAccepts("update", k, refs),
            [mem EXCEPT ![i] = IF k \in Owning THEN NewRow(k, refs) ELSE [@ EXCEPT !.refs = refs]])

\* No store looks up what a patch names; the database has its constraints.
Patch(i, k, p, value) ==
  /\ p \in Patchable(k)
  /\ HasRow(sql, k, i) \/ HasRow(mem, k, i)
  /\ Answer(k \in SqlPatches /\ HasRow(sql, k, i) /\ SqlAcceptsPatch(i, p, value),
            [sql EXCEPT ![i].refs[p] = value],
            k \in MemoryPatches /\ HasRow(mem, k, i), [mem EXCEPT ![i].refs[p] = value])

\* A notification is read.
MarkRead(i) ==
  /\ HasRow(sql, "notification", i) \/ HasRow(mem, "notification", i)
  /\ Answer(HasRow(sql, "notification", i), [sql EXCEPT ![i].count = 1],
            HasRow(mem, "notification", i), [mem EXCEPT ![i].count = 1])

Delete(i) ==
  /\ Live(sql, i) \/ Live(mem, i)
  /\ Answer(SqlDeletes(i), SqlWithout(i), Live(mem, i), MemoryWithout(i))

Next ==
  \/ \E i \in NewIds, k \in Present : \E refs \in Inputs(k) : Create(i, k, refs)
  \/ \E i \in Ids, k \in Present : \E refs \in Inputs(k) : Update(i, k, refs)
  \/ \E i \in Ids, k \in Present : \E p \in ParentsOf[k] :
       \E value \in Candidates(k, p) \cup {None} : Patch(i, k, p, value)
  \/ \E i \in Ids : MarkRead(i)
  \/ \E i \in Ids : Delete(i)

Spec == Init /\ [][Next]_vars
=============================================================================
