---------------------------- MODULE StoreProofs -----------------------------
(***************************************************************************)
(* Proofs about the two stores.  In the database the foreign keys hold     *)
(* after any calls, a delete takes only what depends on what it deletes,   *)
(* and a thread counts its messages.  As long as the in-memory store       *)
(* accepts the same calls, it keeps the same rows of the kinds most others *)
(* refer to, forgets no reference but those listed, and refuses no         *)
(* creation the repositories allow.  For any areas, any number of rows and *)
(* of calls.                                                               *)
(***************************************************************************)
EXTENDS StoreProperties, FiniteSetTheorems, TLAPS

-----------------------------------------------------------------------------
(* What the tables have in common.                                         *)

\* The cascades above a kind, at most; a kind that is not named has most.
Level(k) ==
  IF k \in {"portfolio", "tenant", "lead", "handover", "meter", "thread"} THEN 0
  ELSE IF k \in {"property", "account", "category"} THEN 1
  ELSE IF k \in {"unit", "period", "key"} THEN 2
  ELSE IF k \in {"contract", "listing"} THEN 3 ELSE 4

\* References that may be left out.
Loose(k, p) ==
  \/ k = "booking" /\ p \in {"category", "property", "unit", "tenant"}
  \/ k \in {"invoice", "document", "task", "calendar", "thread", "entity_photo"} /\ p = "property"
  \/ k \in {"document", "task", "calendar", "lead", "thread", "entity_photo"} /\ p = "unit"
  \/ k \in {"document", "thread"} /\ p = "contract"
  \/ k = "task" /\ p = "task"
  \/ k = "lead" /\ p = "listing"
  \/ k = "receivable" /\ p = "statement"
  \/ k \in {"maintenance", "insurance"} /\ p = "unit"
  \/ k = "cost_item" /\ p = "document"

LEMMA OptionalLoose == ASSUME NEW k, NEW p, <<k, p>> \in Optional PROVE Loose(k, p)
<1>1. PICK b \in Bodies : <<k, p>> \in b.may
  BY DEF Optional
<1>2. CASE b \in {MasterBodies, ListingBodies, DepositBodies, NoticeBodies, TenancyBodies,
                  BudgetBodies}
  BY <1>1, <1>2 DEF MasterBodies, ListingBodies, DepositBodies, NoticeBodies, TenancyBodies,
                    BudgetBodies, Body
<1>3. CASE b = LedgerBodies
  BY <1>1, <1>3 DEF LedgerBodies, Body, Pairs, Loose
<1>4. CASE b = FileBodies
  BY <1>1, <1>4 DEF FileBodies, Body, Pairs, Loose
<1>5. CASE b \in {LettingBodies, BillingBodies, MeterBodies}
  BY <1>1, <1>5 DEF LettingBodies, BillingBodies, MeterBodies, Body, Pairs, Loose
<1>6. CASE b \in {MessageBodies, ChargeBodies}
  BY <1>1, <1>6 DEF MessageBodies, ChargeBodies, Body, Pairs, Loose
<1> QED
  BY <1>2, <1>3, <1>4, <1>5, <1>6 DEF Bodies

LEMMA LinkRows ==
  ASSUME NEW c, NEW ps, NEW l, NEW r \in Link(c, ps, l)
  PROVE  r.child = c /\ r.parent \in ps /\ r.rule = l
  BY DEF Link

\* A table's reference: a rule, and where the rule is to cascade, one that
\* leads up and must not be left out.
Sound(r) ==
  /\ r.rule \in {"cascade", "null", "block", "soft"}
  /\ r.rule = "cascade" => /\ Level(r.parent) \in 0 .. 3
                           /\ Level(r.child) > Level(r.parent)
                           /\ ~Loose(r.child, r.parent)

LEMMA TablesSound == ASSUME NEW r \in Tables PROVE Sound(r)
<1>1. CASE r \in MasterTables
  BY <1>1, LinkRows DEF MasterTables, Sound, Level, Loose
<1>2. CASE r \in LedgerTables
  BY <1>2, LinkRows DEF LedgerTables, Sound, Level, Loose
<1>3. CASE r \in FileTables
  BY <1>3, LinkRows DEF FileTables, Sound, Level, Loose
<1>4. CASE r \in LettingTables
  BY <1>4, LinkRows DEF LettingTables, Sound, Level, Loose
<1>5. CASE r \in BillingTables
  BY <1>5, LinkRows DEF BillingTables, Sound, Level, Loose
<1>6. CASE r \in TenancyTables
  BY <1>6, LinkRows DEF TenancyTables, Sound, Level, Loose
<1>7. CASE r \in InsuranceTable
  BY <1>7, LinkRows DEF InsuranceTable, Sound, Level, Loose
<1>8. CASE r \in MeterTables
  BY <1>8, LinkRows DEF MeterTables, Sound, Level, Loose
<1>9. CASE r \in PhotoTable
  BY <1>9, LinkRows DEF PhotoTable, Sound, Level, Loose
<1> QED
  BY <1>1, <1>2, <1>3, <1>4, <1>5, <1>6, <1>7, <1>8, <1>9 DEF Tables

LEMMA CascadesUp ==
  ASSUME NEW k, NEW p, <<k, p>> \in Cascading
  PROVE  /\ \E r \in ForeignKeys[k] : r.parent = p /\ r.rule = "cascade"
         /\ k \in Kinds
         /\ Level(p) \in 0 .. 3 /\ Level(k) > Level(p)
         /\ <<k, p>> \notin Optional
<1>1. PICK r \in Tables : r.rule = "cascade" /\ r.child = k /\ r.parent = p
  BY DEF Cascading, Linked
<1>2. Sound(r)
  BY TablesSound
<1>3. k \in Kinds
  BY <1>1 DEF Kinds
<1>4. r \in ForeignKeys[k]
  BY <1>1, <1>3 DEF ForeignKeys
<1>5. <<k, p>> \notin Optional
  BY <1>1, <1>2, OptionalLoose DEF Sound
<1> QED
  BY <1>1, <1>2, <1>3, <1>4, <1>5 DEF Sound

\* References that must be given.
Firm(k, p) ==
  \/ k \in {"property", "account", "category"} /\ p = "portfolio"
  \/ k \in {"unit", "contract", "maintenance", "period", "key", "budget", "insurance"}
       /\ p = "property"
  \/ k \in {"contract", "listing", "viewing", "statement", "handover", "meter"} /\ p = "unit"
  \/ k = "contract" /\ p = "tenant"
  \/ k = "booking" /\ p = "account"
  \/ k \in {"receivable", "statement", "deposit", "rent_adjustment", "handover", "rent_charge"}
       /\ p = "contract"
  \/ k = "photo" /\ p = "listing"
  \/ k = "viewing" /\ p = "lead"
  \/ k \in {"cost_item", "statement"} /\ p = "period"
  \/ k = "cost_item" /\ p = "key"
  \/ k = "reading" /\ p = "handover"
  \/ k = "meter_value" /\ p = "meter"
  \/ k = "message" /\ p = "thread"

LEMMA FirmRequired == ASSUME NEW k, NEW p, Firm(k, p) PROVE <<k, p>> \in Required /\ k # p
<1>1. k # p
  BY DEF Firm
<1>2. UNION {b.needs : b \in Bodies} = Required
  BY DEF Required
<1>3. \/ <<k, p>> \in MasterBodies.needs
      \/ <<k, p>> \in LedgerBodies.needs
      \/ <<k, p>> \in FileBodies.needs
      \/ <<k, p>> \in ListingBodies.needs
      \/ <<k, p>> \in LettingBodies.needs
      \/ <<k, p>> \in BillingBodies.needs
      \/ <<k, p>> \in DepositBodies.needs
      \/ <<k, p>> \in TenancyBodies.needs
      \/ <<k, p>> \in BudgetBodies.needs
      \/ <<k, p>> \in MeterBodies.needs
      \/ <<k, p>> \in MessageBodies.needs
      \/ <<k, p>> \in ChargeBodies.needs
  BY DEF Firm, Pairs, Body, MasterBodies, LedgerBodies, FileBodies, ListingBodies,
         LettingBodies, BillingBodies, DepositBodies, TenancyBodies, BudgetBodies, MeterBodies,
         MessageBodies, ChargeBodies
<1> QED
  BY <1>1, <1>2, <1>3 DEF Bodies

LEMMA FirmRules ==
  ASSUME NEW r \in Tables, r.rule \in {"cascade", "block"} PROVE Firm(r.child, r.parent)
<1>1. CASE r \in MasterTables
  BY <1>1, LinkRows DEF MasterTables, Firm
<1>2. CASE r \in LedgerTables
  BY <1>2, LinkRows DEF LedgerTables, Firm
<1>3. CASE r \in FileTables
  BY <1>3, LinkRows DEF FileTables, Firm
<1>4. CASE r \in LettingTables
  BY <1>4, LinkRows DEF LettingTables, Firm
<1>5. CASE r \in BillingTables
  BY <1>5, LinkRows DEF BillingTables, Firm
<1>6. CASE r \in TenancyTables
  BY <1>6, LinkRows DEF TenancyTables, Firm
<1>7. CASE r \in InsuranceTable
  BY <1>7, LinkRows DEF InsuranceTable, Firm
<1>8. CASE r \in MeterTables
  BY <1>8, LinkRows DEF MeterTables, Firm
<1>9. CASE r \in PhotoTable
  BY <1>9, LinkRows DEF PhotoTable, Firm
<1> QED
  BY <1>1, <1>2, <1>3, <1>4, <1>5, <1>6, <1>7, <1>8, <1>9 DEF Tables

\* A key of the database that must not be empty cascades or blocks.
LEMMA KeyRules ==
  ASSUME NEW k \in Kinds, NEW r \in ForeignKeys[k]
  PROVE  /\ r.parent \in ParentsOf[k]
         /\ \/ r.rule = "null"
            \/ r.rule = "cascade" /\ <<k, r.parent>> \in Cascading
            \/ r.rule = "block" /\ <<k, r.parent>> \in Blocking
<1>1. r \in Tables /\ r.child = k /\ r.rule # "soft"
  BY DEF ForeignKeys
<1>2. Sound(r)
  BY <1>1, TablesSound
<1>3. r.parent \in ParentsOf[k]
  BY <1>1 DEF ParentsOf
<1> QED
  BY <1>1, <1>2, <1>3 DEF Sound, Cascading, Blocking, Linked
-----------------------------------------------------------------------------
(* Types.  The rows of a store are rows of their kind, and no row counts   *)
(* more messages than were created, and one.                               *)

Used(rows)     == {i \in NewIds : rows[i] # Unused}
RowUpTo(k, n)  ==
  [kind : {k}, refs : [ParentsOf[k] -> Ids \cup {None}], count : 0 .. n + 1]
Typed(rows)    ==
  /\ DOMAIN rows = Ids
  /\ \A i \in Ids : Live(rows, i) =>
       /\ rows[i].kind \in Kinds
       /\ rows[i] \in RowUpTo(rows[i].kind, Cardinality(Used(rows)))
AreaInv  == \E area \in Areas : Ids = area \cup NewIds
StoreInv == /\ AreaInv
            /\ Typed(sql) /\ Typed(mem)
            /\ agreed \in BOOLEAN
            /\ calls \in 0 .. MaxCalls

LEMMA AreaIds ==
  ASSUME AreaInv
  PROVE  /\ NewIds \subseteq Ids
         /\ Ids \subseteq AllKinds \cup NewIds
         /\ None \notin Ids
         /\ Present \subseteq Kinds
  BY StoreAssumption DEF AreaInv, AllKinds, Present

LEMMA MarksNoRows ==
  ASSUME AreaInv, NEW k \in Kinds, NEW n, NEW row \in RowUpTo(k, n)
  PROVE  row \notin {Unused, Gone}
<1>1. row.refs \in [ParentsOf[k] -> AllKinds \cup NewIds \cup {None}]
  BY AreaIds DEF RowUpTo
<1>2. row \in AnyRow
  BY <1>1 DEF AnyRow, RowUpTo
<1> QED
  BY <1>2, StoreAssumption

LEMMA UsedFinite ==
  ASSUME NEW rows
  PROVE  /\ IsFiniteSet(Used(rows))
         /\ Cardinality(Used(rows)) \in Nat
         /\ Cardinality(NewIds) \in Nat
         /\ Cardinality(Used(rows)) <= Cardinality(NewIds)
<1>1. Used(rows) \in SUBSET NewIds
  BY DEF Used
<1> QED
  BY <1>1, StoreAssumption, FS_Subset, FS_CardinalityType

LEMMA UsedGrows ==
  ASSUME NEW rows, NEW new, Used(rows) \subseteq Used(new)
  PROVE  Cardinality(Used(rows)) <= Cardinality(Used(new))
  BY UsedFinite, FS_Subset

LEMMA RowsWiden ==
  ASSUME NEW k, NEW n \in Nat, NEW m \in Nat, n <= m, NEW row \in RowUpTo(k, n)
  PROVE  row \in RowUpTo(k, m)
  BY DEF RowUpTo

\* One row takes a new value.
LEMMA OneRow ==
  ASSUME AreaInv, NEW rows, Typed(rows), NEW i \in Ids, NEW k \in Kinds, NEW row, NEW new,
         new = [rows EXCEPT ![i] = row], row \in RowUpTo(k, Cardinality(Used(new)))
  PROVE  Typed(new) /\ Used(rows) \subseteq Used(new) /\ new[i] = row /\ Live(new, i)
<1>1. DOMAIN new = Ids /\ new[i] = row /\ \A j \in Ids \ {i} : new[j] = rows[j]
  BY DEF Typed
<1>2. Live(new, i)
  BY <1>1, MarksNoRows DEF Live
<1>3. Used(rows) \subseteq Used(new)
  BY <1>1, <1>2, AreaIds DEF Used, Live
<1>4. ASSUME NEW j \in Ids, Live(new, j)
      PROVE  new[j].kind \in Kinds /\ new[j] \in RowUpTo(new[j].kind, Cardinality(Used(new)))
  <2>1. CASE j = i
    <3>1. row.kind = k
      BY DEF RowUpTo
    <3> QED
      BY <1>1, <2>1, <3>1
  <2>2. CASE j # i
    <3>1. Live(rows, j)
      BY <1>1, <1>4, <2>2 DEF Live
    <3> QED
      BY <1>1, <1>3, <2>2, <3>1, UsedFinite, UsedGrows, RowsWiden DEF Typed
  <2> QED
    BY <2>1, <2>2
<1> QED
  BY <1>1, <1>2, <1>3, <1>4 DEF Typed

LEMMA InputsTyped ==
  ASSUME AreaInv, NEW k \in Present, NEW refs \in Inputs(k)
  PROVE  refs \in [ParentsOf[k] -> Ids \cup {None}]
<1>1. Usual(k) \in [ParentsOf[k] -> Ids \cup {None}]
  BY DEF Usual, Present
<1>2. ASSUME NEW p \in ParentsOf[k], NEW i \in Candidates(k, p)
      PROVE  i \in Ids \cup {None}
  BY <1>2 DEF Candidates
<1> QED
  BY <1>1, <1>2 DEF Inputs

\* A row that changes its references, or only its count.
LEMMA RowChanged ==
  ASSUME AreaInv, NEW rows, Typed(rows), NEW i \in Ids, Live(rows, i),
         NEW refs \in [ParentsOf[rows[i].kind] -> Ids \cup {None}],
         NEW n \in {rows[i].count, 0, 1}, NEW row,
         row = [kind |-> rows[i].kind, refs |-> refs, count |-> n]
  PROVE  Typed([rows EXCEPT ![i] = row])
<1>1. /\ rows[i].kind \in Kinds
      /\ rows[i] \in RowUpTo(rows[i].kind, Cardinality(Used(rows)))
  BY DEF Typed
<1>2. row \in RowUpTo(rows[i].kind, Cardinality(Used(rows)))
  BY <1>1, UsedFinite DEF RowUpTo
<1>3. Live([rows EXCEPT ![i] = row], i)
  BY <1>1, <1>2, MarksNoRows DEF Live, Typed
<1>4. Used(rows) \subseteq Used([rows EXCEPT ![i] = row])
  BY <1>3, AreaIds DEF Used, Live, Typed
<1>5. row \in RowUpTo(rows[i].kind, Cardinality(Used([rows EXCEPT ![i] = row])))
  BY <1>2, <1>4, UsedFinite, UsedGrows, RowsWiden
<1> QED
  BY <1>1, <1>5, OneRow

\* A row that is created, and counted if it is a message.
LEMMA CreateTyped ==
  ASSUME AreaInv, NEW rows, Typed(rows), NEW i \in NewIds, rows[i] = Unused,
         NEW k \in Present, NEW refs \in Inputs(k), NEW first,
         first = [rows EXCEPT ![i] = NewRow(k, refs)]
  PROVE  Typed(first) /\ Typed(Counted(first, i))
<1> DEFINE new == Counted(first, i)
           t   == refs["thread"]
<1>1. /\ i \in Ids /\ k \in Kinds
      /\ NewRow(k, refs) \in RowUpTo(k, Cardinality(Used(first)))
  BY AreaIds, InputsTyped, UsedFinite DEF NewRow, RowUpTo
<1>2. /\ Typed(first) /\ Used(rows) \subseteq Used(first)
      /\ first[i] = NewRow(k, refs) /\ Live(first, i)
  <2> DEFINE row == NewRow(k, refs)
  <2>1. /\ row \in RowUpTo(k, Cardinality(Used(first)))
        /\ first = [rows EXCEPT ![i] = row]
    BY <1>1
  <2> HIDE DEF row
  <2>2. Typed(first) /\ Used(rows) \subseteq Used(first) /\ first[i] = row /\ Live(first, i)
    BY <1>1, <2>1, OneRow
  <2> QED
    BY <2>2 DEF row
<1>3. Used(first) = Used(rows) \cup {i} /\ i \notin Used(rows)
  BY <1>1, <1>2 DEF Used, Live, Typed
<1>4. Cardinality(Used(first)) = Cardinality(Used(rows)) + 1
  BY <1>3, UsedFinite, FS_AddElement
<1>5. CASE ~(k = "message" /\ HasRow(first, "thread", t))
  BY <1>2, <1>5 DEF Counted, NewRow
<1>6. CASE k = "message" /\ HasRow(first, "thread", t)
  <2>1. t \in Ids /\ t # i /\ first[t] = rows[t] /\ Live(rows, t) /\ rows[t].kind = "thread"
    BY <1>1, <1>2, <1>6 DEF HasRow, NewRow, Typed, Live
  <2>2. /\ rows[t].kind \in Kinds
        /\ rows[t] \in RowUpTo("thread", Cardinality(Used(rows)))
    BY <2>1 DEF Typed
  <2> DEFINE row == [rows[t] EXCEPT !.count = @ + 1]
  <2>3. row \in RowUpTo("thread", Cardinality(Used(first)))
    BY <1>4, <2>2, UsedFinite DEF RowUpTo
  <2>4. new = [first EXCEPT ![t] = row]
    <3>1. first[i].kind = "message" /\ first[i].refs["thread"] = t
      BY <1>2, <1>6 DEF NewRow
    <3> QED
      BY <1>6, <2>1, <3>1 DEF Counted
  <2> HIDE DEF new, row
  <2>5. row \notin {Unused, Gone}
    BY <2>1, <2>2, <2>3, MarksNoRows
  <2>6. Used(first) \subseteq Used(new)
    <3>1. \A j \in Ids : j # t => new[j] = first[j]
      BY <1>2, <2>4 DEF Typed
    <3>2. new[t] = row
      BY <1>2, <2>1, <2>4 DEF Typed
    <3> QED
      BY <2>5, <3>1, <3>2, AreaIds DEF Used
  <2>7. row \in RowUpTo("thread", Cardinality(Used(new)))
    BY <2>3, <2>6, UsedFinite, UsedGrows, RowsWiden
  <2>8. Typed(new)
    BY <1>2, <2>1, <2>2, <2>4, <2>7, OneRow
  <2> QED
    BY <1>2, <2>8 DEF new
<1> QED
  BY <1>2, <1>5, <1>6

\* What a delete leaves.
LEMMA WithoutTyped ==
  ASSUME AreaInv, NEW rows, Typed(rows), NEW unlinks, NEW S
  PROVE  Typed(Without(rows, unlinks, S))
<1> DEFINE new  == Without(rows, unlinks, S)
           n    == Cardinality(Used(rows))
           refs(j) == [p \in DOMAIN rows[j].refs |->
                         IF <<rows[j].kind, p>> \in unlinks /\ rows[j].refs[p] \in S
                           THEN None ELSE rows[j].refs[p]]
<1>1. ASSUME NEW j \in Ids, j \notin S, Live(rows, j)
      PROVE  /\ new[j] = [rows[j] EXCEPT !.refs = refs(j)]
             /\ rows[j].kind \in Kinds
             /\ new[j] \in RowUpTo(rows[j].kind, n)
             /\ new[j] \notin {Unused, Gone}
  <2>1. new[j] = [rows[j] EXCEPT !.refs = refs(j)]
    BY <1>1 DEF Without
  <2>2. rows[j].kind \in Kinds /\ rows[j] \in RowUpTo(rows[j].kind, n)
    BY <1>1 DEF Typed
  <2>3. refs(j) \in [ParentsOf[rows[j].kind] -> Ids \cup {None}]
    BY <2>2 DEF RowUpTo
  <2> HIDE DEF refs
  <2>4. new[j] \in RowUpTo(rows[j].kind, n)
    BY <2>1, <2>2, <2>3 DEF RowUpTo
  <2> QED
    BY <2>1, <2>2, <2>4, MarksNoRows
<1>2. DOMAIN new = Ids
  BY DEF Without
<1>3. \A j \in Ids : /\ j \in S => new[j] = Gone
                     /\ j \notin S /\ ~Live(rows, j) => new[j] = rows[j]
  BY DEF Without
<1> HIDE DEF new
<1>4. Used(rows) \subseteq Used(new)
  BY <1>1, <1>3, AreaIds, StoreAssumption DEF Used, Live
<1>5. ASSUME NEW j \in Ids, Live(new, j)
      PROVE  new[j].kind \in Kinds /\ new[j] \in RowUpTo(new[j].kind, Cardinality(Used(new)))
  <2>1. j \notin S /\ Live(rows, j)
    BY <1>3, <1>5 DEF Live
  <2>2. new[j] \in RowUpTo(rows[j].kind, n) /\ new[j].kind = rows[j].kind
    BY <1>1, <2>1 DEF RowUpTo
  <2> QED
    BY <1>1, <1>4, <2>1, <2>2, UsedFinite, UsedGrows, RowsWiden
<1> QED
  BY <1>2, <1>5 DEF Typed, new

LEMMA AnswerTyped ==
  ASSUME StoreInv, NEW sqlOk, NEW newSql, NEW memOk, NEW newMem,
         Answer(sqlOk, newSql, memOk, newMem),
         sqlOk => Typed(newSql), memOk => Typed(newMem)
  PROVE  StoreInv' /\ Ids' = Ids
<1>1. Typed(sql') /\ Typed(mem')
  BY DEF Answer, StoreInv
<1>2. Ids' = Ids
  BY <1>1 DEF Typed, Ids
<1>3. AreaInv' /\ Typed(sql)' /\ Typed(mem)'
  BY <1>1, <1>2 DEF StoreInv, AreaInv, Typed, RowUpTo
<1>4. agreed' \in BOOLEAN
  BY DEF Answer, StoreInv
<1>5. calls' \in 0 .. MaxCalls
  BY StoreAssumption DEF Answer, StoreInv
<1> QED
  BY <1>2, <1>3, <1>4, <1>5 DEF StoreInv

LEMMA CandidatesTyped ==
  ASSUME NEW k, NEW p, NEW value \in Candidates(k, p) \cup {None}
  PROVE  value \in Ids \cup {None}
  BY DEF Candidates

\* A row whose references an update or a patch sets.
LEMMA UpdateTyped ==
  ASSUME AreaInv, NEW rows, Typed(rows), NEW i \in Ids, NEW k \in Present, HasRow(rows, k, i),
         NEW refs \in [ParentsOf[k] -> Ids \cup {None}]
  PROVE  /\ Typed([rows EXCEPT ![i].refs = refs])
         /\ Typed([rows EXCEPT ![i] = NewRow(k, refs)])
<1>1. Live(rows, i) /\ rows[i].kind = k /\ k \in Kinds
  BY AreaIds DEF HasRow
<1>2. rows[i] \in RowUpTo(k, Cardinality(Used(rows)))
  BY <1>1 DEF Typed
<1>3. [rows[i] EXCEPT !.refs = refs] = [kind |-> k, refs |-> refs, count |-> rows[i].count]
  BY <1>2 DEF RowUpTo
<1>4. Typed([rows EXCEPT ![i] = [rows[i] EXCEPT !.refs = refs]])
  BY <1>1, <1>3, RowChanged
<1>5. Typed([rows EXCEPT ![i] = [kind |-> k, refs |-> refs, count |-> 0]])
  BY <1>1, RowChanged
<1> QED
  BY <1>4, <1>5 DEF NewRow

LEMMA PatchTyped ==
  ASSUME AreaInv, NEW rows, Typed(rows), NEW i \in Ids, NEW k \in Present, HasRow(rows, k, i),
         NEW p \in ParentsOf[k], NEW value \in Ids \cup {None}
  PROVE  Typed([rows EXCEPT ![i].refs[p] = value])
<1>1. Live(rows, i) /\ rows[i].kind = k /\ k \in Kinds
  BY AreaIds DEF HasRow
<1>2. rows[i] \in RowUpTo(k, Cardinality(Used(rows)))
  BY <1>1 DEF Typed
<1> DEFINE refs == [rows[i].refs EXCEPT ![p] = value]
<1>3. refs \in [ParentsOf[k] -> Ids \cup {None}]
  BY <1>2 DEF RowUpTo
<1>4. [rows EXCEPT ![i].refs[p] = value] = [rows EXCEPT ![i].refs = refs]
  OBVIOUS
<1> HIDE DEF refs
<1> QED
  BY <1>3, <1>4, UpdateTyped

LEMMA ReadTyped ==
  ASSUME AreaInv, NEW rows, Typed(rows), NEW i \in Ids, HasRow(rows, "notification", i)
  PROVE  Typed([rows EXCEPT ![i].count = 1])
<1>1. Live(rows, i) /\ rows[i].kind = "notification" /\ rows[i].kind \in Kinds
  BY DEF HasRow, Typed
<1>2. rows[i] \in RowUpTo("notification", Cardinality(Used(rows)))
  BY <1>1 DEF Typed
<1>3. [rows[i] EXCEPT !.count = 1]
        = [kind |-> rows[i].kind, refs |-> rows[i].refs, count |-> 1]
  BY <1>2 DEF RowUpTo
<1>4. rows[i].refs \in [ParentsOf[rows[i].kind] -> Ids \cup {None}]
  BY <1>1, <1>2 DEF RowUpTo
<1>5. Typed([rows EXCEPT ![i] = [rows[i] EXCEPT !.count = 1]])
  BY <1>1, <1>3, <1>4, RowChanged
<1> QED
  BY <1>5

LEMMA TypedNext == ASSUME StoreInv, [Next]_vars PROVE StoreInv' /\ Ids' = Ids
<1>1. AreaInv /\ Typed(sql) /\ Typed(mem)
  BY DEF StoreInv
<1>2. ASSUME NEW i \in NewIds, NEW k \in Present, NEW refs \in Inputs(k), Create(i, k, refs)
      PROVE  StoreInv' /\ Ids' = Ids
  <2> DEFINE new(rows) == Counted([rows EXCEPT ![i] = NewRow(k, refs)], i)
  <2>1. Typed(new(sql)) /\ Typed(new(mem))
    BY <1>1, <1>2, CreateTyped DEF Create
  <2>2. \E so, mo : Answer(so, new(sql), mo, new(mem))
    BY <1>2 DEF Create
  <2> HIDE DEF new
  <2> QED
    BY <2>1, <2>2, AnswerTyped
<1>3. ASSUME NEW i \in Ids, NEW k \in Present, NEW refs \in Inputs(k), Update(i, k, refs)
      PROVE  StoreInv' /\ Ids' = Ids
  <2> DEFINE ns == [sql EXCEPT ![i].refs = refs]
             nm == [mem EXCEPT ![i] = IF k \in Owning THEN NewRow(k, refs)
                                      ELSE [@ EXCEPT !.refs = refs]]
  <2>1. refs \in [ParentsOf[k] -> Ids \cup {None}]
    BY <1>1, InputsTyped
  <2>2. HasRow(sql, k, i) => Typed(ns)
    BY <1>1, <2>1, UpdateTyped
  <2>3. HasRow(mem, k, i) => Typed(nm)
    <3>1. CASE k \in Owning
      BY <1>1, <2>1, <3>1, UpdateTyped
    <3>2. CASE k \notin Owning
      BY <1>1, <2>1, <3>2, UpdateTyped
    <3> QED
      BY <3>1, <3>2
  <2>4. \E so, mo : /\ Answer(so, ns, mo, nm)
                    /\ so => HasRow(sql, k, i)
                    /\ mo => HasRow(mem, k, i)
    BY <1>3 DEF Update
  <2> HIDE DEF ns, nm
  <2> QED
    BY <2>2, <2>3, <2>4, AnswerTyped
<1>4. ASSUME NEW i \in Ids, NEW k \in Present, NEW p \in ParentsOf[k],
             NEW value \in Candidates(k, p) \cup {None}, Patch(i, k, p, value)
      PROVE  StoreInv' /\ Ids' = Ids
  <2> DEFINE new(rows) == [rows EXCEPT ![i].refs[p] = value]
  <2>1. value \in Ids \cup {None}
    BY CandidatesTyped
  <2>2. /\ HasRow(sql, k, i) => Typed(new(sql))
        /\ HasRow(mem, k, i) => Typed(new(mem))
    BY <1>1, <2>1, PatchTyped
  <2>3. \E so, mo : /\ Answer(so, new(sql), mo, new(mem))
                    /\ so => HasRow(sql, k, i)
                    /\ mo => HasRow(mem, k, i)
    BY <1>4 DEF Patch
  <2> HIDE DEF new
  <2> QED
    BY <2>2, <2>3, AnswerTyped
<1>5. ASSUME NEW i \in Ids, MarkRead(i) PROVE StoreInv' /\ Ids' = Ids
  <2> DEFINE new(rows) == [rows EXCEPT ![i].count = 1]
  <2>1. /\ HasRow(sql, "notification", i) => Typed(new(sql))
        /\ HasRow(mem, "notification", i) => Typed(new(mem))
    BY <1>1, ReadTyped
  <2>2. \E so, mo : /\ Answer(so, new(sql), mo, new(mem))
                    /\ so => HasRow(sql, "notification", i)
                    /\ mo => HasRow(mem, "notification", i)
    BY <1>5 DEF MarkRead
  <2> HIDE DEF new
  <2> QED
    BY <2>1, <2>2, AnswerTyped
<1>6. ASSUME NEW i \in Ids, Delete(i) PROVE StoreInv' /\ Ids' = Ids
  <2>1. Typed(SqlWithout(i)) /\ Typed(MemoryWithout(i))
    BY <1>1, WithoutTyped DEF SqlWithout, MemoryWithout
  <2>2. \E so, mo : Answer(so, SqlWithout(i), mo, MemoryWithout(i))
    BY <1>6 DEF Delete
  <2> QED
    BY <2>1, <2>2, AnswerTyped
<1>7. CASE UNCHANGED vars
  <2>1. Ids' = Ids
    BY <1>7 DEF vars, Ids
  <2> QED
    BY <1>7, <2>1 DEF vars, StoreInv, AreaInv, Typed, RowUpTo
<1> QED
  BY <1>2, <1>3, <1>4, <1>5, <1>6, <1>7 DEF Next

LEMMA TypedInit == ASSUME Init PROVE StoreInv
<1>1. PICK area \in Areas : sql = Dataset(area)
  BY DEF Init
<1>2. Ids = area \cup NewIds /\ AreaInv
  BY <1>1 DEF Dataset, Ids, AreaInv
<1>3. area \subseteq Kinds /\ area \cap NewIds = {}
  BY StoreAssumption DEF AllKinds
<1>4. Cardinality(Used(sql)) \in Nat
  BY UsedFinite
<1>5. ASSUME NEW i \in area
      PROVE  SeedRow(i, area) \in RowUpTo(i, Cardinality(Used(sql))) /\ SeedRow(i, area).kind = i
  BY <1>2, <1>4 DEF SeedRow, RowUpTo
<1>6. Typed(sql)
  BY <1>1, <1>2, <1>3, <1>5 DEF Typed, Dataset, Live
<1> QED
  BY <1>2, <1>6, StoreAssumption DEF Init, StoreInv

(* Rows of both stores, references included, are rows of their kind.       *)
THEOREM StoresTypeCorrect == Spec => []StoreTypeOK
<1>1. StoreInv => StoreTypeOK
  <2> SUFFICES ASSUME StoreInv PROVE StoreTypeOK
    OBVIOUS
  <2>1. ASSUME NEW rows, Typed(rows)
        PROVE  /\ DOMAIN rows = Ids
               /\ \A i \in Ids : Live(rows, i) => rows[i] \in Row(rows[i].kind)
    BY <2>1, UsedFinite DEF Typed, RowUpTo, Row
  <2> QED
    BY <2>1 DEF StoreInv, StoreTypeOK
<1> QED
  BY <1>1, TypedInit, TypedNext, PTL DEF Spec
-----------------------------------------------------------------------------
(* Deletes.  A row has a row of each kind it cascades from above it, so    *)
(* what Doomed finds beside the row itself was reached over one, and after *)
(* four rounds nothing is left to reach: each round goes a level down.  In *)
(* memory the same holds of the children that are dropped by hand.         *)

KeysInv == StoreInv /\ ForeignKeysHold

LEMMA RowAbove ==
  ASSUME KeysInv, NEW j \in Ids, Live(sql, j), NEW p, <<sql[j].kind, p>> \in Cascading
  PROVE  HasRow(sql, p, sql[j].refs[p])
<1>1. PICK r \in ForeignKeys[sql[j].kind] : r.parent = p /\ r.rule = "cascade"
  BY CascadesUp
<1>2. Constrained(r, sql[j].refs[p])
  BY <1>1 DEF KeysInv, ForeignKeysHold
<1> QED
  BY <1>1, <1>2 DEF Constrained

\* The rows of a store whose deletes take children along the pairs of drops.
Rooted(rows, drops) ==
  \A j \in Ids : Live(rows, j) =>
    /\ rows[j].kind \in Kinds
    /\ \A p \in ParentsOf[rows[j].kind] :
         <<rows[j].kind, p>> \in drops /\ rows[j].refs[p] # None
           => HasRow(rows, p, rows[j].refs[p])
Descends(drops) == \A k, p : <<k, p>> \in drops => Level(k) > Level(p)

LEMMA LevelRange == ASSUME NEW k PROVE Level(k) \in 0 .. 4
  BY DEF Level

LEMMA ChildBelow ==
  ASSUME AreaInv, NEW rows, NEW drops, Rooted(rows, drops), Descends(drops),
         NEW S \in SUBSET Ids, NEW j \in Children(rows, drops, S)
  PROVE  /\ j \in Ids /\ Live(rows, j)
         /\ Level(rows[j].kind) >= 1
         /\ \E q \in S : /\ Level(rows[q].kind) < Level(rows[j].kind)
                         /\ \A T : q \in T => j \in Children(rows, drops, T)
<1>1. PICK p \in ParentsOf[rows[j].kind] :
             <<rows[j].kind, p>> \in drops /\ rows[j].refs[p] \in S
  BY DEF Children
<1>2. j \in Ids /\ Live(rows, j)
  BY DEF Children
<1>3. HasRow(rows, p, rows[j].refs[p])
  BY <1>1, <1>2, AreaIds DEF Rooted
<1>4. Level(p) < Level(rows[j].kind) /\ Level(p) \in 0 .. 4 /\ Level(rows[j].kind) \in 0 .. 4
  BY <1>1, LevelRange DEF Descends
<1>5. \A T : rows[j].refs[p] \in T => j \in Children(rows, drops, T)
  BY <1>1, <1>2 DEF Children
<1> QED
  BY <1>1, <1>2, <1>3, <1>4, <1>5 DEF HasRow

\* What a round adds lies below what the round before it added.
LEMMA RoundDown ==
  ASSUME AreaInv, NEW rows, NEW drops, Rooted(rows, drops), Descends(drops),
         NEW S \in SUBSET Ids, NEW T, NEW U, NEW n \in Int,
         T = Spread(rows, drops, S), U = Spread(rows, drops, T),
         \A q \in T \ S : Level(rows[q].kind) >= n
  PROVE  T \in SUBSET Ids /\ \A j \in U \ T : Level(rows[j].kind) >= n + 1
<1>0. T \in SUBSET Ids
  BY DEF Spread, Children
<1> SUFFICES ASSUME NEW j \in U, j \notin T PROVE Level(rows[j].kind) >= n + 1
  BY <1>0
<1>1. /\ S \subseteq T /\ Children(rows, drops, S) \subseteq T
      /\ j \in Children(rows, drops, T)
  BY DEF Spread
<1>2. PICK q \in T : /\ Level(rows[q].kind) < Level(rows[j].kind)
                     /\ \A V : q \in V => j \in Children(rows, drops, V)
  BY <1>0, <1>1, ChildBelow
<1>3. q \notin S
  BY <1>1, <1>2
<1>4. Level(rows[q].kind) >= n
  BY <1>1, <1>3
<1> QED
  BY <1>2, <1>4, LevelRange

LEMMA DoomedClosed ==
  ASSUME AreaInv, NEW rows, NEW drops, Rooted(rows, drops), Descends(drops), NEW i \in Ids
  PROVE  Children(rows, drops, Doomed(rows, drops, i)) \subseteq Doomed(rows, drops, i)
<1> DEFINE D0 == {i}
           D1 == Spread(rows, drops, D0)
           D2 == Spread(rows, drops, D1)
           D3 == Spread(rows, drops, D2)
           D4 == Spread(rows, drops, D3)
           D5 == Spread(rows, drops, D4)
<1>1. Doomed(rows, drops, i) = D4
  BY DEF Doomed
<1>2. D0 \in SUBSET Ids /\ \A j \in D1 \ D0 : Level(rows[j].kind) >= 1
  BY ChildBelow DEF Spread
<1> HIDE DEF D0
<1>3. D1 \in SUBSET Ids /\ \A j \in D2 \ D1 : Level(rows[j].kind) >= 2
  BY <1>2, RoundDown
<1>4. D2 \in SUBSET Ids /\ \A j \in D3 \ D2 : Level(rows[j].kind) >= 3
  BY <1>3, RoundDown
<1>5. D3 \in SUBSET Ids /\ \A j \in D4 \ D3 : Level(rows[j].kind) >= 4
  BY <1>4, RoundDown
<1>6. \A j \in D5 \ D4 : Level(rows[j].kind) >= 5
  BY <1>5, RoundDown
<1>7. D5 \subseteq D4
  <2> HIDE DEF D5, D4
  <2> QED
    BY <1>6, LevelRange
<1>8. D5 = D4 \cup Children(rows, drops, D4)
  BY DEF Spread
<1> QED
  BY <1>1, <1>7, <1>8

\* A doomed row is the one that is deleted or a child of a doomed row.
LEMMA DoomedRows ==
  ASSUME NEW rows, NEW drops, NEW i \in Ids
  PROVE  /\ i \in Doomed(rows, drops, i)
         /\ \A j \in Doomed(rows, drops, i) :
              j = i \/ j \in Children(rows, drops, Doomed(rows, drops, i))
<1> DEFINE D1 == Spread(rows, drops, {i})
           D2 == Spread(rows, drops, D1)
           D3 == Spread(rows, drops, D2)
           D4 == Spread(rows, drops, D3)
<1>1. Doomed(rows, drops, i) = D4
  BY DEF Doomed
<1>2. /\ D1 = {i} \cup Children(rows, drops, {i})
      /\ D2 = D1 \cup Children(rows, drops, D1)
      /\ D3 = D2 \cup Children(rows, drops, D2)
      /\ D4 = D3 \cup Children(rows, drops, D3)
  BY DEF Spread
<1> HIDE DEF D1, D2, D3, D4
<1>3. ASSUME NEW S, NEW T, S \subseteq T
      PROVE  Children(rows, drops, S) \subseteq Children(rows, drops, T)
  BY <1>3 DEF Children
<1> QED
  BY <1>1, <1>2, <1>3

LEMMA SqlDoomedClosed ==
  ASSUME KeysInv, NEW i \in Ids
  PROVE  /\ i \in SqlDoomed(i)
         /\ Children(sql, Cascading, SqlDoomed(i)) \subseteq SqlDoomed(i)
         /\ \A j \in SqlDoomed(i) \ {i} : j \in Children(sql, Cascading, SqlDoomed(i))
<1>1. Rooted(sql, Cascading)
  BY RowAbove DEF Rooted, KeysInv, StoreInv, Typed
<1>2. Descends(Cascading)
  BY CascadesUp DEF Descends
<1> QED
  BY <1>1, <1>2, DoomedClosed, DoomedRows DEF SqlDoomed, KeysInv, StoreInv
-----------------------------------------------------------------------------
(* What a call does to the rows of the database: it deletes, or it keeps   *)
(* every row and leaves no reference that the old rows do not bear out.    *)

Keeps ==
  /\ \A j \in Ids : Live(sql, j) => Live(sql', j) /\ sql'[j].kind = sql[j].kind
  /\ \A j \in Ids : Live(sql', j) =>
       \A r \in ForeignKeys[sql'[j].kind] : Constrained(r, sql'[j].refs[r.parent])

Deletes(i) == SqlDeletes(i) /\ sql' = SqlWithout(i)

LEMMA CountedRows ==
  ASSUME AreaInv, NEW rows, Typed(rows), NEW i \in Ids, NEW j \in Ids,
         NEW new, new = Counted(rows, i)
  PROVE  /\ Live(new, j) <=> Live(rows, j)
         /\ Live(rows, j) => new[j].kind = rows[j].kind /\ new[j].refs = rows[j].refs
         /\ rows[j].kind # "thread" => new[j] = rows[j]
<1> DEFINE t == rows[i].refs["thread"]
<1>1. CASE ~(rows[i].kind = "message" /\ HasRow(rows, "thread", t))
  BY <1>1 DEF Counted
<1>2. CASE rows[i].kind = "message" /\ HasRow(rows, "thread", t) /\ j # t
  BY <1>2 DEF Counted, Typed, Live
<1>3. CASE rows[i].kind = "message" /\ HasRow(rows, "thread", t) /\ j = t
  <2>1. Live(rows, j) /\ rows[j].kind \in Kinds
        /\ rows[j] \in RowUpTo(rows[j].kind, Cardinality(Used(rows)))
    BY <1>3 DEF HasRow, Typed
  <2>2. [rows[j] EXCEPT !.count = @ + 1]
          \in RowUpTo(rows[j].kind, Cardinality(Used(rows)) + 1)
    BY <2>1, UsedFinite DEF RowUpTo
  <2>3. new[j] = [rows[j] EXCEPT !.count = @ + 1]
    BY <1>3 DEF Counted, Typed
  <2> QED
    BY <1>3, <2>1, <2>2, <2>3, MarksNoRows DEF Live, RowUpTo, HasRow
<1> QED
  BY <1>1, <1>2, <1>3

LEMMA KeepsSame == ASSUME ForeignKeysHold, UNCHANGED sql PROVE Keeps
  BY DEF Keeps, ForeignKeysHold

LEMMA KeepsCreate ==
  ASSUME KeysInv, NEW i \in NewIds, NEW k \in Present, NEW refs \in Inputs(k),
         Create(i, k, refs)
  PROVE  Keeps
<1> DEFINE first == [sql EXCEPT ![i] = NewRow(k, refs)]
<1>1. CASE UNCHANGED sql
  BY <1>1, KeepsSame DEF KeysInv
<1>2. CASE SqlAccepts("create", k, refs) /\ sql' = Counted(first, i)
  <2>1. AreaInv /\ Typed(sql) /\ i \in Ids /\ sql[i] = Unused
    BY AreaIds DEF KeysInv, StoreInv, Create
  <2>2. Typed(first)
    BY <2>1, CreateTyped
  <2>3. \A j \in Ids \ {i} : first[j] = sql[j]
    BY <2>1 DEF Typed
  <2>4. first[i].kind = k /\ first[i].refs = refs
    BY <2>1 DEF Typed, NewRow
  <2> HIDE DEF first
  <2>5. \A j \in Ids :
          /\ Live(sql', j) <=> Live(first, j)
          /\ Live(first, j) => sql'[j].kind = first[j].kind /\ sql'[j].refs = first[j].refs
    BY <1>2, <2>1, <2>2, CountedRows
  <2>6. \A j \in Ids \ {i} : Live(first, j) <=> Live(sql, j)
    BY <2>3 DEF Live
  <2>7. ~Live(sql, i)
    BY <2>1 DEF Live
  <2>8. \A r \in ForeignKeys[k] : Constrained(r, refs[r.parent])
    BY <1>2 DEF SqlAccepts
  <2>9. ASSUME NEW j \in Ids, Live(sql', j), NEW r \in ForeignKeys[sql'[j].kind]
        PROVE  Constrained(r, sql'[j].refs[r.parent])
    <3>1. CASE j = i
      BY <2>4, <2>5, <2>8, <2>9, <3>1
    <3>2. CASE j # i
      BY <2>3, <2>5, <2>6, <2>9, <3>2 DEF KeysInv, ForeignKeysHold
    <3> QED
      BY <3>1, <3>2
  <2>10. ASSUME NEW j \in Ids, Live(sql, j)
         PROVE  Live(sql', j) /\ sql'[j].kind = sql[j].kind
    BY <2>3, <2>5, <2>6, <2>7, <2>10
  <2> QED
    BY <2>9, <2>10 DEF Keeps
<1> QED
  BY <1>1, <1>2 DEF Create, Answer

\* One row gets references that its foreign keys allow, or a count.
LEMMA KeepsRow ==
  ASSUME KeysInv, NEW i \in Ids, Live(sql, i), NEW row, sql' = [sql EXCEPT ![i] = row],
         row.kind = sql[i].kind, row \notin {Unused, Gone},
         \A r \in ForeignKeys[row.kind] : Constrained(r, row.refs[r.parent])
  PROVE  Keeps
<1>1. sql'[i] = row /\ \A j \in Ids \ {i} : sql'[j] = sql[j]
  BY DEF KeysInv, StoreInv, Typed
<1>2. \A j \in Ids : Live(sql', j) <=> Live(sql, j)
  BY <1>1 DEF Live
<1> QED
  BY <1>1, <1>2 DEF Keeps, KeysInv, ForeignKeysHold

LEMMA KeepsRefs ==
  ASSUME KeysInv, NEW k \in Present, NEW i \in Ids, HasRow(sql, k, i),
         NEW refs \in [ParentsOf[k] -> Ids \cup {None}], sql' = [sql EXCEPT ![i].refs = refs],
         \A r \in ForeignKeys[k] : Constrained(r, refs[r.parent])
  PROVE  Keeps
<1> DEFINE row == [sql[i] EXCEPT !.refs = refs]
<1>1. Live(sql, i) /\ sql[i].kind = k /\ k \in Kinds /\ AreaInv /\ Typed(sql)
  BY AreaIds DEF HasRow, KeysInv, StoreInv
<1>2. sql[i] \in RowUpTo(k, Cardinality(Used(sql)))
  BY <1>1 DEF Typed
<1>3. row \in RowUpTo(k, Cardinality(Used(sql))) /\ row.kind = k /\ row.refs = refs
  BY <1>2 DEF RowUpTo
<1>4. sql' = [sql EXCEPT ![i] = row]
  OBVIOUS
<1> HIDE DEF row
<1>5. row \notin {Unused, Gone}
  BY <1>1, <1>3, MarksNoRows
<1> QED
  BY <1>1, <1>3, <1>4, <1>5, KeepsRow

LEMMA KeepsPatch ==
  ASSUME KeysInv, NEW i \in Ids, NEW k \in Present, NEW p \in ParentsOf[k],
         NEW value \in Candidates(k, p) \cup {None}, Patch(i, k, p, value)
  PROVE  Keeps
<1>1. CASE UNCHANGED sql
  BY <1>1, KeepsSame DEF KeysInv
<1>2. CASE /\ HasRow(sql, k, i) /\ SqlAcceptsPatch(i, p, value)
           /\ sql' = [sql EXCEPT ![i].refs[p] = value]
  <2> DEFINE refs == [sql[i].refs EXCEPT ![p] = value]
  <2>1. Live(sql, i) /\ sql[i].kind = k /\ k \in Kinds /\ Typed(sql)
    BY <1>2, AreaIds DEF HasRow, KeysInv, StoreInv
  <2>2. sql[i].refs \in [ParentsOf[k] -> Ids \cup {None}]
    BY <2>1 DEF Typed, RowUpTo
  <2>3. refs \in [ParentsOf[k] -> Ids \cup {None}]
    BY <2>2, CandidatesTyped
  <2>4. ASSUME NEW r \in ForeignKeys[k] PROVE Constrained(r, refs[r.parent])
    <3>1. r.parent \in ParentsOf[k]
      BY <2>1, KeyRules
    <3>2. CASE r.parent = p
      BY <1>2, <2>1, <2>2, <3>1, <3>2 DEF SqlAcceptsPatch
    <3>3. CASE r.parent # p
      BY <2>1, <2>2, <3>1, <3>3 DEF KeysInv, ForeignKeysHold
    <3> QED
      BY <3>2, <3>3
  <2>5. sql' = [sql EXCEPT ![i].refs = refs]
    BY <1>2
  <2> HIDE DEF refs
  <2> QED
    BY <1>2, <2>3, <2>4, <2>5, KeepsRefs
<1> QED
  BY <1>1, <1>2 DEF Patch, Answer

LEMMA KeepsRead == ASSUME KeysInv, NEW i \in Ids, MarkRead(i) PROVE Keeps
<1>1. CASE UNCHANGED sql
  BY <1>1, KeepsSame DEF KeysInv
<1>2. CASE HasRow(sql, "notification", i) /\ sql' = [sql EXCEPT ![i].count = 1]
  <2> DEFINE row == [sql[i] EXCEPT !.count = 1]
  <2>1. /\ Live(sql, i) /\ sql[i].kind \in Kinds /\ AreaInv
        /\ sql[i] \in RowUpTo(sql[i].kind, Cardinality(Used(sql)))
    BY <1>2 DEF HasRow, KeysInv, StoreInv, Typed
  <2>2. /\ row \in RowUpTo(sql[i].kind, Cardinality(Used(sql)))
        /\ row.kind = sql[i].kind /\ row.refs = sql[i].refs
    BY <2>1, UsedFinite DEF RowUpTo
  <2>3. sql' = [sql EXCEPT ![i] = row]
    BY <1>2
  <2> HIDE DEF row
  <2>4. row \notin {Unused, Gone}
    BY <2>1, <2>2, MarksNoRows
  <2>5. \A r \in ForeignKeys[row.kind] : Constrained(r, row.refs[r.parent])
    BY <2>1, <2>2 DEF KeysInv, ForeignKeysHold
  <2> QED
    BY <2>1, <2>2, <2>3, <2>4, <2>5, KeepsRow
<1> QED
  BY <1>1, <1>2 DEF MarkRead, Answer

LEMMA StepKeeps ==
  ASSUME KeysInv, [Next]_vars
  PROVE  Keeps \/ \E i \in Ids : Deletes(i)
<1>1. CASE UNCHANGED sql
  BY <1>1, KeepsSame DEF KeysInv
<1>2. ASSUME NEW i \in Ids, NEW k \in Present, NEW refs \in Inputs(k), Update(i, k, refs),
             ~UNCHANGED sql
      PROVE  Keeps
  <2>1. /\ HasRow(sql, k, i) /\ SqlAccepts("update", k, refs)
        /\ sql' = [sql EXCEPT ![i].refs = refs]
    BY <1>2 DEF Update, Answer
  <2>2. refs \in [ParentsOf[k] -> Ids \cup {None}]
    BY InputsTyped DEF KeysInv, StoreInv
  <2> QED
    BY <2>1, <2>2, KeepsRefs DEF SqlAccepts
<1>3. ASSUME NEW i \in Ids, Delete(i), ~UNCHANGED sql PROVE Deletes(i)
  BY <1>3 DEF Delete, Answer, Deletes
<1> QED
  BY <1>1, <1>2, <1>3, KeepsCreate, KeepsPatch, KeepsRead DEF Next, vars

LEMMA WithoutRows ==
  ASSUME AreaInv, NEW rows, Typed(rows), NEW unlinks, NEW S, NEW j \in Ids,
         NEW new, new = Without(rows, unlinks, S)
  PROVE  /\ Live(new, j) <=> Live(rows, j) /\ j \notin S
         /\ new[j] = Gone <=> rows[j] = Gone \/ j \in S
         /\ Live(new, j) =>
              /\ new[j].kind = rows[j].kind /\ new[j].count = rows[j].count
              /\ \A p \in ParentsOf[rows[j].kind] :
                   new[j].refs[p] =
                     IF <<rows[j].kind, p>> \in unlinks /\ rows[j].refs[p] \in S
                       THEN None ELSE rows[j].refs[p]
              /\ (\A p : <<rows[j].kind, p>> \notin unlinks) => new[j] = rows[j]
<1> DEFINE k == rows[j].kind
           refs == [p \in DOMAIN rows[j].refs |->
                      IF <<k, p>> \in unlinks /\ rows[j].refs[p] \in S
                        THEN None ELSE rows[j].refs[p]]
<1>1. /\ j \in S => new[j] = Gone
      /\ j \notin S /\ ~Live(rows, j) => new[j] = rows[j]
      /\ j \notin S /\ Live(rows, j) => new[j] = [rows[j] EXCEPT !.refs = refs]
  BY DEF Without
<1>2. ASSUME j \notin S, Live(rows, j)
      PROVE  /\ Live(new, j) /\ new[j].kind = k /\ new[j].count = rows[j].count
             /\ new[j].refs = refs /\ DOMAIN rows[j].refs = ParentsOf[k]
             /\ refs = rows[j].refs => new[j] = rows[j]
             /\ (\A p : <<k, p>> \notin unlinks) => refs = rows[j].refs
  <2>1. k \in Kinds /\ rows[j] \in RowUpTo(k, Cardinality(Used(rows)))
    BY <1>2 DEF Typed
  <2>2. refs \in [ParentsOf[k] -> Ids \cup {None}]
    BY <2>1 DEF RowUpTo
  <2>3. (\A p : <<k, p>> \notin unlinks) => refs = rows[j].refs
    BY <2>1 DEF RowUpTo
  <2> HIDE DEF refs
  <2>4. /\ new[j] \in RowUpTo(k, Cardinality(Used(rows)))
        /\ new[j].count = rows[j].count /\ new[j].refs = refs
        /\ refs = rows[j].refs => new[j] = rows[j]
    BY <1>1, <1>2, <2>1, <2>2 DEF RowUpTo
  <2>5. DOMAIN rows[j].refs = ParentsOf[k]
    BY <2>1 DEF RowUpTo
  <2>6. new[j].kind = k
    BY <2>4 DEF RowUpTo
  <2>7. Live(new, j)
    BY <2>1, <2>4, MarksNoRows DEF Live
  <2> QED
    BY <2>3, <2>4, <2>5, <2>6, <2>7
<1>3. CASE j \in S
  BY <1>1, <1>3 DEF Live
<1>4. CASE j \notin S /\ ~Live(rows, j)
  BY <1>1, <1>4 DEF Live
<1>5. CASE j \notin S /\ Live(rows, j)
  BY <1>2, <1>5 DEF Live
<1> QED
  BY <1>3, <1>4, <1>5

LEMMA DeletedRows ==
  ASSUME KeysInv, NEW i \in Ids, Deletes(i), NEW j \in Ids
  PROVE  /\ Live(sql', j) <=> Live(sql, j) /\ j \notin SqlDoomed(i)
         /\ sql'[j] = Gone <=> sql[j] = Gone \/ j \in SqlDoomed(i)
         /\ Live(sql', j) =>
              /\ sql'[j].kind = sql[j].kind /\ sql'[j].count = sql[j].count
              /\ \A p \in ParentsOf[sql[j].kind] :
                   sql'[j].refs[p] =
                     IF <<sql[j].kind, p>> \in Nullable /\ sql[j].refs[p] \in SqlDoomed(i)
                       THEN None ELSE sql[j].refs[p]
  BY WithoutRows DEF KeysInv, StoreInv, Deletes, SqlWithout

LEMMA DeleteKeys ==
  ASSUME KeysInv, NEW i \in Ids, Deletes(i), NEW j \in Ids, Live(sql', j),
         NEW r \in ForeignKeys[sql'[j].kind], NEW value, value = sql'[j].refs[r.parent]
  PROVE  IF value = None THEN r.rule = "null"
         ELSE value \in Ids /\ Live(sql', value) /\ sql'[value].kind = r.parent
<1> DEFINE S == SqlDoomed(i)
           k == sql[j].kind
           p == r.parent
           v == sql[j].refs[p]
<1>1. Live(sql, j) /\ j \notin S /\ sql'[j].kind = k /\ k \in Kinds
  BY DeletedRows DEF KeysInv, StoreInv, Typed
<1>2. p \in ParentsOf[k] /\ Constrained(r, v)
  BY <1>1, KeyRules DEF KeysInv, ForeignKeysHold
<1>3. value = IF <<k, p>> \in Nullable /\ v \in S THEN None ELSE v
  BY <1>1, <1>2, DeletedRows
<1>4. ASSUME v \in S PROVE r.rule = "null"
  <2>1. r.rule # "cascade"
    <3>1. r.rule = "cascade" => j \in Children(sql, Cascading, S)
      BY <1>1, <1>2, <1>4, KeyRules DEF Children
    <3> QED
      BY <1>1, <3>1, SqlDoomedClosed
  <2>2. r.rule # "block"
    <3>1. r.rule = "block" => j \in Children(sql, Blocking, S)
      BY <1>1, <1>2, <1>4, KeyRules DEF Children
    <3> QED
      BY <1>1, <3>1 DEF Deletes, SqlDeletes
  <2> QED
    BY <1>1, <2>1, <2>2, KeyRules
<1>5. v \in S => value = None
  <2>1. r.rule = "null" => <<k, p>> \in Nullable
    BY <1>1 DEF Nullable, Linked, ForeignKeys
  <2> QED
    BY <1>3, <1>4, <2>1
<1>6. CASE v \in S
  BY <1>4, <1>5, <1>6
<1>7. CASE v \notin S /\ v = None
  BY <1>2, <1>3, <1>7 DEF Constrained
<1>8. CASE v \notin S /\ v # None
  BY <1>2, <1>3, <1>8, DeletedRows DEF Constrained, HasRow
<1> QED
  BY <1>6, <1>7, <1>8

LEMMA KeysNext == ASSUME KeysInv, [Next]_vars PROVE KeysInv'
<1>1. StoreInv' /\ Ids' = Ids
  BY TypedNext DEF KeysInv
<1>2. CASE Keeps
  <2>1. ASSUME NEW j \in Ids, Live(sql', j), NEW r \in ForeignKeys[sql'[j].kind]
        PROVE  Constrained(r, sql[j].refs[r.parent])'
    <3> DEFINE value == sql'[j].refs[r.parent]
    <3>1. Constrained(r, value)
      BY <1>2, <2>1 DEF Keeps
    <3>2. HasRow(sql, r.parent, value) =>
            value \in Ids /\ Live(sql', value) /\ sql'[value].kind = r.parent
      BY <1>2 DEF HasRow, Keeps
    <3> HIDE DEF value
    <3>3. IF value = None THEN r.rule = "null"
          ELSE value \in Ids /\ Live(sql', value) /\ sql'[value].kind = r.parent
      BY <3>1, <3>2 DEF Constrained
    <3> QED
      BY <1>1, <3>3 DEF Constrained, HasRow, value
  <2> QED
    BY <1>1, <2>1 DEF KeysInv, ForeignKeysHold
<1>3. ASSUME NEW i \in Ids, Deletes(i) PROVE KeysInv'
  <2>1. ASSUME NEW j \in Ids, Live(sql', j), NEW r \in ForeignKeys[sql'[j].kind]
        PROVE  Constrained(r, sql[j].refs[r.parent])'
    <3> DEFINE value == sql'[j].refs[r.parent]
    <3>1. IF value = None THEN r.rule = "null"
          ELSE value \in Ids /\ Live(sql', value) /\ sql'[value].kind = r.parent
      BY <1>3, <2>1, DeleteKeys
    <3> QED
      BY <1>1, <3>1 DEF Constrained, HasRow, value
  <2> QED
    BY <1>1, <2>1 DEF KeysInv, ForeignKeysHold
<1> QED
  BY <1>2, <1>3, StepKeeps

LEMMA KeysInit == ASSUME Init PROVE KeysInv
<1>1. StoreInv
  BY TypedInit
<1>2. PICK area \in Areas : sql = Dataset(area)
  BY DEF Init
<1>3. /\ area \subseteq AllKinds /\ area \cap NewIds = {} /\ Ids = area \cup NewIds
      /\ AllKinds \subseteq Kinds /\ None \notin area
  BY <1>2, StoreAssumption DEF AllKinds, Dataset, Ids
<1>4. ASSUME NEW j \in area
      PROVE  sql[j] = SeedRow(j, area) /\ Live(sql, j) /\ sql[j].kind = j
  <2>1. sql[j] = SeedRow(j, area) /\ sql[j].kind = j
    BY <1>2, <1>3 DEF Dataset, SeedRow
  <2>2. SeedRow(j, area) \in RowUpTo(j, 0)
    BY <1>3 DEF SeedRow, RowUpTo
  <2> QED
    BY <1>1, <1>3, <2>1, <2>2, MarksNoRows DEF Live, StoreInv
<1>5. ASSUME NEW j \in area, NEW r \in ForeignKeys[j]
      PROVE  Constrained(r, sql[j].refs[r.parent])
  <2>1. r.parent \in ParentsOf[j] /\ r \in Tables /\ r.child = j
    BY <1>3, KeyRules DEF ForeignKeys
  <2> DEFINE p     == r.parent
             given == p \in area \ {j} /\ <<j, p>> \in Required \cup Optional
  <2>2. sql[j].refs[p] = IF given THEN p ELSE None
    <3>1. SeedRow(j, area).refs =
            [q \in ParentsOf[j] |->
               IF q \in area \ {j} /\ <<j, q>> \in Required \cup Optional THEN q ELSE None]
      BY DEF SeedRow
    <3> QED
      BY <1>4, <2>1, <3>1
  <2>3. CASE given
    BY <1>3, <1>4, <2>2, <2>3 DEF Constrained, HasRow
  <2>4. CASE ~given
    <3>1. r.rule \notin {"cascade", "block"}
      <4>1. ASSUME Firm(j, p) PROVE FALSE
        <5>1. <<j, p>> \in Required /\ j # p
          BY <4>1, FirmRequired
        <5>2. p \in area
          BY <1>3, <2>1, <5>1, StoreAssumption
        <5> QED
          BY <2>4, <5>1, <5>2
      <4> QED
        BY <2>1, <4>1, FirmRules
    <3>2. r.rule = "null"
      BY <1>3, <3>1, KeyRules
    <3> QED
      BY <2>2, <2>4, <3>2 DEF Constrained
  <2> QED
    BY <2>3, <2>4
<1>6. \A j \in Ids : Live(sql, j) => j \in area
  BY <1>2, <1>3 DEF Dataset, Live
<1> QED
  BY <1>1, <1>4, <1>5, <1>6 DEF KeysInv, ForeignKeysHold

(* A foreign key of the database names a row of its parent's kind, and one *)
(* that must not be empty is not, for any data and any calls.              *)
THEOREM ForeignKeysAlways == Spec => []ForeignKeysHold
<1>1. KeysInv => ForeignKeysHold
  BY DEF KeysInv
<1> QED
  BY <1>1, KeysInit, KeysNext, PTL DEF Spec

(* A delete takes, beside the row it names, only rows that hang on a row   *)
(* it takes by a reference they must have; other calls take none.          *)
THEOREM DeletesTakeLittle == Spec => DeletesSpare
<1> DEFINE lost == {i \in Ids : Live(sql, i) /\ sql'[i] = Gone}
           free == {i \in lost : \A p \in ParentsOf[sql[i].kind] :
                      <<sql[i].kind, p>> \in Optional \/ sql[i].refs[p] \notin lost}
<1>1. ASSUME KeysInv, [Next]_vars PROVE Cardinality(free) <= 1
  <2>1. CASE Keeps
    <3>1. free = {}
      BY <2>1 DEF Keeps, Live
    <3> QED
      BY <3>1, FS_EmptySet
  <2>2. ASSUME NEW i \in Ids, Deletes(i) PROVE Cardinality(free) <= 1
    <3>1. ASSUME NEW j \in free PROVE j = i
      <4>1. /\ j \in Ids /\ Live(sql, j) /\ j \in SqlDoomed(i)
            /\ \A p \in ParentsOf[sql[j].kind] :
                 <<sql[j].kind, p>> \in Optional \/ sql[j].refs[p] \notin lost
        BY <1>1, <2>2, DeletedRows DEF Live
      <4> SUFFICES ASSUME j # i PROVE FALSE
        OBVIOUS
      <4>2. j \in Children(sql, Cascading, SqlDoomed(i))
        BY <1>1, <4>1, SqlDoomedClosed
      <4>3. PICK p \in ParentsOf[sql[j].kind] :
                 <<sql[j].kind, p>> \in Cascading /\ sql[j].refs[p] \in SqlDoomed(i)
        BY <4>2 DEF Children
      <4>4. HasRow(sql, p, sql[j].refs[p])
        BY <1>1, <4>1, <4>3, RowAbove
      <4>5. sql[j].refs[p] \in lost
        BY <1>1, <2>2, <4>3, <4>4, DeletedRows DEF HasRow
      <4>6. <<sql[j].kind, p>> \notin Optional
        BY <4>3, CascadesUp
      <4> QED
        BY <4>1, <4>3, <4>5, <4>6
    <3>2. free \in SUBSET {i}
      BY <3>1
    <3> HIDE DEF free
    <3>3. IsFiniteSet({i}) /\ Cardinality({i}) = 1
      BY FS_Singleton
    <3>4. Cardinality(free) <= Cardinality({i})
      BY <3>2, <3>3, FS_Subset
    <3> QED
      BY <3>3, <3>4
  <2> QED
    BY <1>1, <2>1, <2>2, StepKeeps
<1>2. KeysInv /\ [Next]_vars
        => [LET gone == {i \in Ids : Live(sql, i) /\ sql'[i] = Gone}
            IN  Cardinality({i \in gone : \A p \in ParentsOf[sql[i].kind] :
                   <<sql[i].kind, p>> \in Optional \/ sql[i].refs[p] \notin gone}) <= 1]_vars
  BY <1>1
<1> QED
  BY <1>2, KeysInit, KeysNext, PTL DEF Spec, DeletesSpare
-----------------------------------------------------------------------------
(* Threads.  A message is counted by the thread it names, a foreign key,   *)
(* when it is created, and no call names another thread in it.             *)

Messages(rows, t) ==
  {m \in Ids : HasRow(rows, "message", m) /\ rows[m].refs["thread"] = t}

LEMMA MessageTables ==
  /\ <<"message", "thread">> \in Cascading
  /\ \A p : <<"message", p>> \notin Patches
  /\ ~Offers("message", "update")
<1>1. <<"message", "thread">> \in Cascading
  <2>1. [child |-> "message", parent |-> "thread", rule |-> "cascade"] \in Tables
    BY DEF Link, MeterTables, Tables
  <2> QED
    BY <2>1 DEF Cascading, Linked
<1>2. ASSUME NEW p, NEW b \in Bodies, <<"message", p>> \in b.patch PROVE FALSE
  <2>1. CASE b \in {MasterBodies, LedgerBodies, FileBodies, ListingBodies, NoticeBodies}
    BY <1>2, <2>1 DEF MasterBodies, LedgerBodies, FileBodies, ListingBodies, NoticeBodies, Body
  <2>2. CASE b \in {LettingBodies, BillingBodies, DepositBodies}
    BY <1>2, <2>2 DEF LettingBodies, BillingBodies, DepositBodies, Body, Pairs
  <2>3. CASE b \in {TenancyBodies, BudgetBodies, MeterBodies}
    BY <1>2, <2>3 DEF TenancyBodies, BudgetBodies, MeterBodies, Body, Pairs
  <2>4. CASE b \in {MessageBodies, ChargeBodies}
    BY <1>2, <2>4 DEF MessageBodies, ChargeBodies, Body, Pairs
  <2> QED
    BY <2>1, <2>2, <2>3, <2>4 DEF Bodies
<1>3. \A p : <<"message", p>> \notin MasterPatches \cup LedgerPatches
  BY DEF MasterPatches, LedgerPatches, Pairs
<1>4. <<"message", "update">> \notin StoreCalls
  BY DEF StoreCalls, MasterCalls, LedgerCalls, LettingCalls, TenancyCalls, MeterCalls,
         NoticeCalls, RuleCalls, ContactCalls, Pairs
<1> QED
  BY <1>1, <1>2, <1>3, <1>4 DEF Patches, Offers

LEMMA IdsFinite == ASSUME AreaInv PROVE IsFiniteSet(Ids)
<1>1. IsFiniteSet(AllKinds \cup NewIds)
  BY StoreAssumption, FS_Union
<1>2. Ids \in SUBSET (AllKinds \cup NewIds)
  BY AreaIds
<1> QED
  BY <1>1, <1>2, FS_Subset

LEMMA ThreadOf ==
  ASSUME KeysInv, NEW m \in Ids, HasRow(sql, "message", m)
  PROVE  HasRow(sql, "thread", sql[m].refs["thread"])
  BY MessageTables, RowAbove DEF HasRow

\* A thread that counted its messages still does if it gets no other ones.
LEMMA CountStays ==
  ASSUME KeysInv, ThreadsCount, NEW t \in Ids, HasRow(sql, "thread", t),
         NEW S \in SUBSET Messages(sql, t)
  PROVE  Cardinality(S) <= sql[t].count
<1>1. AreaInv /\ sql[t].count \in Nat
  BY UsedFinite DEF KeysInv, StoreInv, Typed, RowUpTo, HasRow
<1>2. IsFiniteSet(Messages(sql, t))
  BY <1>1, IdsFinite, FS_Subset DEF Messages
<1>3. /\ Cardinality(S) <= Cardinality(Messages(sql, t))
      /\ Cardinality(S) \in Nat /\ Cardinality(Messages(sql, t)) \in Nat
  BY <1>2, FS_Subset, FS_CardinalityType
<1>4. Cardinality(Messages(sql, t)) <= sql[t].count
  BY DEF ThreadsCount, Messages
<1> QED
  BY <1>1, <1>3, <1>4

LEMMA CountQuiet ==
  ASSUME KeysInv, ThreadsCount, Ids' = Ids,
         \A j \in Ids : Live(sql', j) =>
           /\ Live(sql, j) /\ sql'[j].kind = sql[j].kind
           /\ sql[j].kind = "thread"  => sql'[j].count = sql[j].count
           /\ sql[j].kind = "message" =>
                sql'[j].refs["thread"] \in {sql[j].refs["thread"], None}
  PROVE  ThreadsCount'
<1> SUFFICES ASSUME NEW t \in Ids, Live(sql', t), sql'[t].kind = "thread"
             PROVE  Cardinality({m \in Ids : /\ m \in Ids /\ Live(sql', m)
                                             /\ sql'[m].kind = "message"
                                             /\ sql'[m].refs["thread"] = t}) <= sql'[t].count
  BY DEF ThreadsCount, HasRow
<1>1. HasRow(sql, "thread", t) /\ sql'[t].count = sql[t].count
  BY DEF HasRow
<1>2. t # None
  BY AreaIds DEF KeysInv, StoreInv
<1>3. {m \in Ids : /\ m \in Ids /\ Live(sql', m) /\ sql'[m].kind = "message"
                   /\ sql'[m].refs["thread"] = t} \in SUBSET Messages(sql, t)
  BY <1>2 DEF Messages, HasRow
<1> QED
  BY <1>1, <1>3, CountStays

LEMMA CountCreate ==
  ASSUME KeysInv, ThreadsCount, Ids' = Ids,
         NEW i \in NewIds, NEW k \in Present, NEW refs \in Inputs(k), Create(i, k, refs)
  PROVE  ThreadsCount'
<1> DEFINE first == [sql EXCEPT ![i] = NewRow(k, refs)]
           t0    == refs["thread"]
<1>1. CASE UNCHANGED sql
  BY <1>1, CountQuiet
<1>2. ASSUME SqlAccepts("create", k, refs), sql' = Counted(first, i), NEW t \in Ids,
             HasRow(sql', "thread", t)
      PROVE  Cardinality(Messages(sql', t)) <= sql'[t].count
  <2>1. /\ AreaInv /\ Typed(sql) /\ i \in Ids /\ sql[i] = Unused /\ ~Live(sql, i)
        /\ k \in Kinds
    BY AreaIds DEF KeysInv, StoreInv, Create, Live
  <2>2. Typed(first)
    BY <2>1, CreateTyped
  <2>3. /\ first[i] = NewRow(k, refs) /\ first[i].kind = k /\ first[i].refs = refs
        /\ first[i].count = 0
        /\ \A j \in Ids \ {i} : first[j] = sql[j]
        /\ DOMAIN first = Ids
    BY <2>1 DEF Typed, NewRow
  <2> HIDE DEF first
  <2>4. \A j \in Ids :
          /\ Live(sql', j) <=> Live(first, j)
          /\ Live(first, j) => sql'[j].kind = first[j].kind /\ sql'[j].refs = first[j].refs
    BY <1>2, <2>1, <2>2, CountedRows
  <2>5. \A j \in Ids \ {i} : Live(first, j) <=> Live(sql, j)
    BY <2>3 DEF Live
  <2>6. ASSUME NEW m \in Messages(sql', t)
        PROVE  m \in Messages(sql, t) \/ (m = i /\ k = "message" /\ t0 = t)
    BY <2>3, <2>4, <2>5, <2>6 DEF Messages, HasRow
  <2>7. CASE k # "message"
    <3>1. sql' = first
      BY <1>2, <2>3, <2>7 DEF Counted
    <3>2. Messages(sql', t) \in SUBSET Messages(sql, t)
      BY <2>6, <2>7
    <3>3. CASE t = i
      <4>1. Messages(sql, t) = {}
        BY <2>1, <3>3, ThreadOf DEF Messages, HasRow
      <4> QED
        BY <2>3, <3>1, <3>2, <3>3, <4>1, FS_EmptySet
    <3>4. CASE t # i
      BY <1>2, <2>3, <3>1, <3>2, <3>4, CountStays DEF HasRow, Live
    <3> QED
      BY <3>3, <3>4
  <2>8. CASE k = "message"
    <3>1. HasRow(sql, "thread", t0)
      <4>1. PICK r \in ForeignKeys["message"] : r.parent = "thread" /\ r.rule = "cascade"
        BY MessageTables, CascadesUp
      <4>2. Constrained(r, t0)
        BY <1>2, <2>8, <4>1 DEF SqlAccepts
      <4> QED
        BY <4>1, <4>2 DEF Constrained
    <3>2. /\ t # i /\ t0 # i /\ t0 \in Ids /\ first[t] = sql[t]
          /\ HasRow(first, "thread", t0) /\ HasRow(sql, "thread", t)
      BY <1>2, <2>1, <2>3, <2>4, <2>5, <2>8, <3>1 DEF HasRow, Live
    <3>3. sql' = [first EXCEPT ![t0].count = @ + 1]
      BY <1>2, <2>3, <2>8, <3>2 DEF Counted
    <3>4. CASE t # t0
      <4>1. sql'[t] = sql[t]
        BY <2>3, <3>2, <3>3, <3>4
      <4>2. Messages(sql', t) \in SUBSET Messages(sql, t)
        BY <2>6, <3>4
      <4> QED
        BY <3>2, <4>1, <4>2, CountStays
    <3>5. CASE t = t0
      <4>1. sql[t].kind \in Kinds /\ sql[t] \in RowUpTo("thread", Cardinality(Used(sql)))
        BY <2>1, <3>2 DEF HasRow, Typed
      <4>2. sql'[t].count = sql[t].count + 1
        BY <2>3, <3>2, <3>3, <3>5, <4>1 DEF RowUpTo
      <4>3. Messages(sql', t) \in SUBSET (Messages(sql, t) \cup {i})
        BY <2>6
      <4>4. IsFiniteSet(Messages(sql, t))
        BY <2>1, IdsFinite, FS_Subset DEF Messages
      <4>5. i \notin Messages(sql, t)
        BY <2>1 DEF Messages, HasRow
      <4>6. /\ Cardinality(Messages(sql, t) \cup {i}) = Cardinality(Messages(sql, t)) + 1
            /\ IsFiniteSet(Messages(sql, t) \cup {i})
        BY <4>4, <4>5, FS_AddElement
      <4>7. /\ Cardinality(Messages(sql', t)) <= Cardinality(Messages(sql, t)) + 1
            /\ Cardinality(Messages(sql', t)) \in Nat
        BY <4>3, <4>6, FS_Subset, FS_CardinalityType
      <4>8. Cardinality(Messages(sql, t)) <= sql[t].count
        BY <3>2, CountStays
      <4>9. Cardinality(Messages(sql, t)) \in Nat /\ sql[t].count \in Nat
        BY <4>1, <4>4, FS_CardinalityType, UsedFinite DEF RowUpTo
      <4> QED
        BY <4>2, <4>7, <4>8, <4>9
    <3> QED
      BY <3>4, <3>5
  <2> QED
    BY <2>7, <2>8
<1>3. SqlAccepts("create", k, refs) /\ sql' = Counted(first, i) => ThreadsCount'
  BY <1>2 DEF ThreadsCount, Messages, HasRow
<1> QED
  BY <1>1, <1>3 DEF Create, Answer

\* One row that is no message changes, but for a thread's count.
LEMMA CountRow ==
  ASSUME KeysInv, ThreadsCount, Ids' = Ids, Keeps, NEW i \in Ids, Live(sql, i),
         sql[i].kind # "message", \A j \in Ids \ {i} : sql'[j] = sql[j],
         sql[i].kind = "thread" => sql'[i].count = sql[i].count
  PROVE  ThreadsCount'
<1>1. \A j \in Ids : Live(sql', j) => Live(sql, j) /\ sql'[j].kind = sql[j].kind
  BY DEF Keeps, Live
<1>2. \A j \in Ids : Live(sql', j) /\ j # i => sql'[j] = sql[j]
  OBVIOUS
<1> QED
  BY <1>1, <1>2, CountQuiet

LEMMA CountNext == ASSUME KeysInv, ThreadsCount, [Next]_vars PROVE ThreadsCount'
<1>1. Ids' = Ids /\ Typed(sql)
  BY TypedNext DEF KeysInv, StoreInv
<1>2. CASE UNCHANGED sql
  BY <1>1, <1>2, CountQuiet
<1>3. ASSUME NEW i \in Ids, NEW k \in Present, NEW refs \in Inputs(k), Update(i, k, refs),
             ~UNCHANGED sql
      PROVE  ThreadsCount'
  <2>1. HasRow(sql, k, i) /\ sql' = [sql EXCEPT ![i].refs = refs] /\ k # "message"
    BY <1>3, MessageTables DEF Update, Answer
  <2>2. Keeps
    <3>1. /\ refs \in [ParentsOf[k] -> Ids \cup {None}]
          /\ \A r \in ForeignKeys[k] : Constrained(r, refs[r.parent])
      BY <1>3, InputsTyped DEF Update, Answer, SqlAccepts, KeysInv, StoreInv
    <3> QED
      BY <2>1, <3>1, KeepsRefs
  <2>3. sql[i] \in RowUpTo(sql[i].kind, Cardinality(Used(sql))) /\ Live(sql, i)
    BY <1>1, <2>1 DEF Typed, HasRow
  <2>4. sql'[i].count = sql[i].count
    BY <1>1, <2>1, <2>3 DEF RowUpTo, Typed
  <2> QED
    BY <1>1, <2>1, <2>2, <2>3, <2>4, CountRow DEF Typed, HasRow
<1>4. ASSUME NEW i \in Ids, NEW k \in Present, NEW p \in ParentsOf[k],
             NEW value \in Candidates(k, p) \cup {None}, Patch(i, k, p, value), ~UNCHANGED sql
      PROVE  ThreadsCount'
  <2>1. HasRow(sql, k, i) /\ sql' = [sql EXCEPT ![i].refs[p] = value] /\ k # "message"
    BY <1>4, MessageTables DEF Patch, Answer, Patchable
  <2>2. Keeps
    BY <1>4, KeepsPatch
  <2>3. sql[i] \in RowUpTo(sql[i].kind, Cardinality(Used(sql))) /\ Live(sql, i)
    BY <1>1, <2>1 DEF Typed, HasRow
  <2>4. sql'[i].count = sql[i].count
    BY <1>1, <2>1, <2>3 DEF RowUpTo, Typed
  <2> QED
    BY <1>1, <2>1, <2>2, <2>3, <2>4, CountRow DEF Typed, HasRow
<1>5. ASSUME NEW i \in Ids, MarkRead(i), ~UNCHANGED sql PROVE ThreadsCount'
  <2>1. HasRow(sql, "notification", i) /\ sql' = [sql EXCEPT ![i].count = 1]
    BY <1>5 DEF MarkRead, Answer
  <2>2. Keeps
    BY <1>5, KeepsRead
  <2> QED
    BY <1>1, <2>1, <2>2, CountRow DEF Typed, HasRow
<1>6. ASSUME NEW i \in Ids, Delete(i), ~UNCHANGED sql PROVE ThreadsCount'
  <2>1. Deletes(i)
    BY <1>6 DEF Delete, Answer, Deletes
  <2>2. ASSUME NEW j \in Ids, Live(sql', j)
        PROVE  /\ Live(sql, j) /\ sql'[j].kind = sql[j].kind
               /\ sql'[j].count = sql[j].count
               /\ sql[j].kind = "message" =>
                    sql'[j].refs["thread"] \in {sql[j].refs["thread"], None}
    <3>1. "thread" \in ParentsOf["message"]
      BY MessageTables, CascadesUp, KeyRules
    <3> QED
      BY <2>1, <2>2, <3>1, DeletedRows
  <2> QED
    BY <1>1, <2>2, CountQuiet
<1> QED
  BY <1>1, <1>2, <1>3, <1>4, <1>5, <1>6, CountCreate DEF Next, vars

LEMMA CountInit == ASSUME Init PROVE ThreadsCount
<1>1. PICK area \in Areas : sql = Dataset(area)
  BY DEF Init
<1>2. area \subseteq AllKinds /\ area \cap NewIds = {} /\ Ids = area \cup NewIds
  BY <1>1, StoreAssumption DEF AllKinds, Dataset, Ids
<1>3. ASSUME NEW j \in Ids, Live(sql, j)
      PROVE  j \in area /\ sql[j].kind = j /\ sql[j].count \in {0, 1}
             /\ (j = "thread" /\ "message" \in area => sql[j].count = 1)
  BY <1>1, <1>2, <1>3 DEF Dataset, SeedRow, Live
<1> SUFFICES ASSUME NEW t \in Ids, HasRow(sql, "thread", t)
             PROVE  Cardinality(Messages(sql, t)) <= sql[t].count
  BY DEF ThreadsCount, Messages
<1>4. t = "thread" /\ Live(sql, t)
  BY <1>3 DEF HasRow
<1>5. CASE "message" \in area
  <2>1. Messages(sql, t) \in SUBSET {"message"}
    BY <1>3 DEF Messages, HasRow
  <2>2. IsFiniteSet({"message"}) /\ Cardinality({"message"}) = 1
    BY FS_Singleton
  <2>3. Cardinality(Messages(sql, t)) <= Cardinality({"message"})
    BY <2>1, <2>2, FS_Subset
  <2> QED
    BY <1>3, <1>4, <1>5, <2>2, <2>3
<1>6. CASE "message" \notin area
  <2>1. Messages(sql, t) = {}
    BY <1>3, <1>6 DEF Messages, HasRow
  <2> QED
    BY <1>3, <1>4, <2>1, FS_EmptySet
<1> QED
  BY <1>5, <1>6

(* A thread of the database counts at least the messages it has.           *)
THEOREM ThreadsCounted == Spec => []ThreadsCount
  BY KeysInit, KeysNext, CountInit, CountNext, PTL DEF Spec
-----------------------------------------------------------------------------
(* The store in memory.  What its tables have in common with the database. *)

\* The kinds of which both stores have the same rows, and those of which the
\* database has no row that memory has not.
Mirrored == Core \cup {"lead", "notification", "thread"}
Anchors  == Mirrored \cup {"period", "key", "handover"}

\* The children that deletes in memory take along.
Dropped(k, p) ==
  \/ k \in {"property", "account", "category"} /\ p = "portfolio"
  \/ k \in {"unit", "contract", "booking", "invoice", "maintenance", "document", "task",
            "calendar"} /\ p = "property"
  \/ k \in {"contract", "booking", "maintenance", "document", "task", "calendar", "listing"}
       /\ p = "unit"
  \/ k \in {"contract", "booking"} /\ p = "tenant"
  \/ k = "booking" /\ p = "account"
  \/ k \in {"receivable", "document"} /\ p = "contract"
  \/ k = "photo" /\ p = "listing"
  \/ k = "viewing" /\ p = "lead"
  \/ k \in {"cost_item", "statement"} /\ p = "period"
  \/ k = "cost_item" /\ p = "key"
  \/ k = "reading" /\ p = "handover"
  \/ k = "message" /\ p = "thread"

LEMMA DropPairs == ASSUME NEW k, NEW p PROVE <<k, p>> \in MemoryDrops <=> Dropped(k, p)
<1>1. <<k, p>> \in MemoryDrops <=>
        \/ <<k, p>> \in MemoryPortfolios.drops \/ <<k, p>> \in MemoryProperties.drops
        \/ <<k, p>> \in MemoryTenancies.drops  \/ <<k, p>> \in MemoryLedger.drops
        \/ <<k, p>> \in MemoryFiles.drops      \/ <<k, p>> \in MemoryLetting.drops
        \/ <<k, p>> \in MemoryBilling.drops    \/ <<k, p>> \in MemoryStatements.drops
        \/ <<k, p>> \in MemoryHandovers.drops  \/ <<k, p>> \in MemoryMeters.drops
        \/ <<k, p>> \in MemoryInsurances.drops \/ <<k, p>> \in MemoryDeleteContract
  <2>1. <<k, p>> \in MemoryDrops <=>
          \/ \E sec \in MemorySections \cup LooseSections : <<k, p>> \in sec.drops
          \/ <<k, p>> \in MemoryDeleteContract
    BY DEF MemoryDrops
  <2> QED
    BY <2>1 DEF MemorySections, LooseSections
<1> QED
  BY <1>1 DEF Dropped, MemoryPortfolios, MemoryProperties, MemoryTenancies, MemoryLedger,
              MemoryFiles, MemoryLetting, MemoryBilling, MemoryStatements, MemoryHandovers,
              MemoryMeters, MemoryInsurances, MemoryDeleteContract, Pairs

LEMMA DropsDescend == Descends(MemoryDrops)
  BY DropPairs DEF Descends, Dropped, Level

LEMMA CoreKinds ==
  Core = {"portfolio", "property", "unit", "tenant", "contract", "account", "category",
          "listing", "photo", "receivable", "message", "notification_template", "tax_rate",
          "escalation_rule", "contact"}
  BY DEF Core, PlainKinds, NoticeTables, RuleTable, ContactTable

LEMMA LinkHas ==
  ASSUME NEW c, NEW ps, NEW l, NEW p \in ps
  PROVE  [child |-> c, parent |-> p, rule |-> l] \in Link(c, ps, l)
  BY DEF Link

\* References that are foreign keys.
Keyed(k, p) == \E r \in Tables : r.child = k /\ r.parent = p /\ r.rule # "soft"

\* For a kind both stores keep alike, deletes follow the same pairs.
LEMMA SameDrops ==
  ASSUME NEW k \in Mirrored, NEW p
  PROVE  /\ <<k, p>> \in Cascading <=> <<k, p>> \in MemoryDrops
         /\ <<k, p>> \in Cascading => p \in Mirrored /\ k \in Core
<1>1. ASSUME <<k, p>> \in Cascading PROVE Dropped(k, p)
  <2>1. PICK r \in Tables : r.rule = "cascade" /\ r.child = k /\ r.parent = p
    BY <1>1 DEF Cascading, Linked
  <2>2. Firm(k, p)
    BY <2>1, FirmRules
  <2> QED
    BY <2>2, CoreKinds DEF Mirrored, Firm, Dropped
<1>2. ASSUME Dropped(k, p)
      PROVE  <<k, p>> \in Cascading /\ p \in Mirrored /\ k \in Core
  <2>1. \/ <<k, p>> \in {<<"property", "portfolio">>, <<"unit", "property">>,
                         <<"contract", "property">>, <<"contract", "unit">>,
                         <<"contract", "tenant">>}
        \/ <<k, p>> \in {<<"account", "portfolio">>, <<"category", "portfolio">>,
                         <<"receivable", "contract">>}
        \/ <<k, p>> \in {<<"listing", "unit">>, <<"photo", "listing">>, <<"message", "thread">>}
    BY <1>2, CoreKinds DEF Mirrored, Dropped
  <2>2. p \in Mirrored /\ k \in Core
    BY <2>1, CoreKinds DEF Mirrored
  <2>3. [child |-> k, parent |-> p, rule |-> "cascade"] \in Tables
    <3>1. \/ [child |-> k, parent |-> p, rule |-> "cascade"] \in MasterTables
          \/ [child |-> k, parent |-> p, rule |-> "cascade"] \in LedgerTables
          \/ [child |-> k, parent |-> p, rule |-> "cascade"] \in LettingTables
          \/ [child |-> k, parent |-> p, rule |-> "cascade"] \in MeterTables
      BY <2>1, LinkHas DEF MasterTables, LedgerTables, LettingTables, MeterTables
    <3> QED
      BY <3>1 DEF Tables
  <2> QED
    BY <2>2, <2>3 DEF Cascading, Linked
<1> QED
  BY <1>1, <1>2, DropPairs

\* No delete empties a reference of such a row.
LEMMA CoreUnlinked ==
  ASSUME NEW k \in Core, NEW p
  PROVE  <<k, p>> \notin Nullable /\ <<k, p>> \notin MemoryUnlinks /\ k \notin Owning
<1>1. <<k, p>> \notin MemoryUnlinks
  BY CoreKinds DEF MemoryUnlinks, Pairs
<1>2. k \notin Owning
  BY CoreKinds DEF Owning, Bodies, Body, MasterBodies, LedgerBodies, FileBodies, ListingBodies,
         LettingBodies, BillingBodies, DepositBodies, NoticeBodies, TenancyBodies, BudgetBodies,
         MeterBodies, MessageBodies, ChargeBodies
<1>3. ASSUME NEW r \in Tables, r.rule = "null", r.child = k PROVE FALSE
  <2>1. CASE r \in MasterTables \cup BillingTables \cup TenancyTables
    BY <1>3, <2>1, LinkRows DEF MasterTables, BillingTables, TenancyTables
  <2>2. CASE r \in LedgerTables
    BY <1>3, <2>2, LinkRows, CoreKinds DEF LedgerTables
  <2>3. CASE r \in FileTables
    BY <1>3, <2>3, LinkRows, CoreKinds DEF FileTables
  <2>4. CASE r \in LettingTables
    BY <1>3, <2>4, LinkRows, CoreKinds DEF LettingTables
  <2>5. CASE r \in InsuranceTable
    BY <1>3, <2>5, LinkRows, CoreKinds DEF InsuranceTable
  <2>6. CASE r \in MeterTables \cup PhotoTable
    BY <1>3, <2>6, LinkRows DEF MeterTables, PhotoTable
  <2> QED
    BY <2>1, <2>2, <2>3, <2>4, <2>5, <2>6 DEF Tables
<1> QED
  BY <1>1, <1>2, <1>3 DEF Nullable, Linked

LEMMA RequiredFirm == ASSUME NEW k, NEW p, <<k, p>> \in Required PROVE Firm(k, p)
<1>1. PICK b \in Bodies : <<k, p>> \in b.needs
  BY DEF Required
<1>2. CASE b \in {MasterBodies, ListingBodies, DepositBodies, NoticeBodies}
  BY <1>1, <1>2 DEF MasterBodies, ListingBodies, DepositBodies, NoticeBodies, Body, Pairs, Firm
<1>3. CASE b \in {LedgerBodies, FileBodies, LettingBodies}
  BY <1>1, <1>3 DEF LedgerBodies, FileBodies, LettingBodies, Body, Pairs, Firm
<1>4. CASE b \in {BillingBodies, TenancyBodies, BudgetBodies}
  BY <1>1, <1>4 DEF BillingBodies, TenancyBodies, BudgetBodies, Body, Pairs, Firm
<1>5. CASE b \in {MeterBodies, MessageBodies, ChargeBodies}
  BY <1>1, <1>5 DEF MeterBodies, MessageBodies, ChargeBodies, Body, Pairs, Firm
<1> QED
  BY <1>2, <1>3, <1>4, <1>5 DEF Bodies

\* A reference that a body gives and memory does not forget is a foreign
\* key of the database, to a kind of which memory has all its rows.
LEMMA GivenKeyed ==
  ASSUME NEW k, NEW p, <<k, p>> \in Required \cup Optional, <<k, p>> \notin Forgotten
  PROVE  Keyed(k, p) /\ p \in Anchors
<1>1. Firm(k, p) \/ Loose(k, p)
  BY RequiredFirm, OptionalLoose
<1>2. \/ <<k, p>> \in {"property", "account", "category"} \X {"portfolio"}
      \/ <<k, p>> \in {"unit", "contract", "maintenance", "booking", "invoice", "document",
                       "task", "calendar"} \X {"property"}
      \/ <<k, p>> \in {"contract", "listing", "booking", "maintenance", "document", "task",
                       "calendar"} \X {"unit"}
      \/ <<k, p>> \in {"contract", "booking"} \X {"tenant"}
      \/ <<k, p>> \in {"booking"} \X {"account", "category"}
      \/ <<k, p>> \in {"receivable", "document"} \X {"contract"}
      \/ <<k, p>> \in {"cost_item"} \X {"period", "key"}
      \/ <<k, p>> \in {<<"photo", "listing">>, <<"viewing", "lead">>, <<"statement", "period">>,
                       <<"reading", "handover">>, <<"message", "thread">>}
  BY <1>1 DEF Firm, Loose, Forgotten
<1>3. p \in Anchors
  BY <1>2, CoreKinds DEF Anchors, Mirrored
<1>4. Keyed(k, p)
  <2>1. \E l \in {"cascade", "null"} :
          \/ [child |-> k, parent |-> p, rule |-> l] \in MasterTables
          \/ [child |-> k, parent |-> p, rule |-> l] \in LedgerTables
          \/ [child |-> k, parent |-> p, rule |-> l] \in FileTables
          \/ [child |-> k, parent |-> p, rule |-> l] \in LettingTables
          \/ [child |-> k, parent |-> p, rule |-> l] \in BillingTables
          \/ [child |-> k, parent |-> p, rule |-> l] \in TenancyTables
          \/ [child |-> k, parent |-> p, rule |-> l] \in MeterTables
    BY <1>2, LinkHas DEF MasterTables, LedgerTables, FileTables, LettingTables, BillingTables,
                         TenancyTables, MeterTables
  <2> QED
    BY <2>1 DEF Keyed, Tables
<1> QED
  BY <1>3, <1>4

\* Deletes in memory take a child, unlink it, or forget it.
LEMMA GivenDropped ==
  ASSUME NEW k, NEW p, <<k, p>> \in Required \cup Optional
  PROVE  <<k, p>> \in MemoryDrops \cup MemoryUnlinks \cup Forgotten
<1>1. Firm(k, p) \/ Loose(k, p)
  BY RequiredFirm, OptionalLoose
<1> QED
  BY <1>1, DropPairs DEF Firm, Loose, Dropped, MemoryUnlinks, Forgotten, Pairs

LEMMA DropsRemembered == ASSUME NEW k, NEW p, <<k, p>> \in MemoryDrops
                         PROVE <<k, p>> \notin Forgotten
  BY DropPairs DEF Dropped, Forgotten

LEMMA AnchorsStay ==
  ASSUME NEW k \in {"period", "key", "handover"}, NEW p PROVE <<k, p>> \notin MemoryDrops
  BY DropPairs DEF Dropped

-----------------------------------------------------------------------------
(* The stores beside each other.  While they accept the same calls, both   *)
(* have the same rows of the mirrored kinds, with the same content where   *)
(* nothing but the bodies decides it; and memory has what the database has *)
(* of every kind that a remembered reference may name.  A call that both   *)
(* accept keeps this: a reference it gives names a row of the database by  *)
(* a foreign key, hence one of memory; a delete takes the same mirrored    *)
(* rows of both, round for round.                                          *)

Agree(s, m) ==
  /\ \A i \in Ids, k \in Mirrored : HasRow(s, k, i) <=> HasRow(m, k, i)
  /\ \A i \in Ids, k \in Core     : HasRow(s, k, i) => s[i] = m[i]
  /\ \A i \in Ids, k \in Anchors  : HasRow(s, k, i) => HasRow(m, k, i)

\* A reference of a row in memory was given, and names a row or is forgotten.
Backed(m) ==
  \A i \in Ids : Live(m, i) =>
    \A p \in ParentsOf[m[i].kind] : m[i].refs[p] # None =>
      /\ <<m[i].kind, p>> \in Required \cup Optional
      /\ <<m[i].kind, p>> \notin Forgotten => HasRow(m, p, m[i].refs[p])

MemInv == agreed => Agree(sql, mem) /\ Backed(mem)

LEMMA AgreeRow ==
  ASSUME NEW s, NEW m, Agree(s, m), NEW s2, NEW m2, NEW i \in Ids, NEW k,
         \A j \in Ids \ {i} : s2[j] = s[j] /\ m2[j] = m[j],
         Live(s2, i), s2[i].kind = k, Live(m2, i), m2[i].kind = k,
         k \in Core => s2[i] = m2[i]
  PROVE  Agree(s2, m2)
  BY DEF Agree, HasRow, Live

LEMMA AgreeCounted ==
  ASSUME AreaInv, NEW s, NEW m, Agree(s, m), Typed(s), Typed(m), NEW i \in Ids
  PROVE  Agree(Counted(s, i), Counted(m, i))
<1> DEFINE s2 == Counted(s, i)
           m2 == Counted(m, i)
<1>1. \A j \in Ids :
        /\ Live(s2, j) <=> Live(s, j)
        /\ Live(s, j) => s2[j].kind = s[j].kind
        /\ s[j].kind # "thread" => s2[j] = s[j]
  BY CountedRows
<1>2. \A j \in Ids :
        /\ Live(m2, j) <=> Live(m, j)
        /\ Live(m, j) => m2[j].kind = m[j].kind
        /\ m[j].kind # "thread" => m2[j] = m[j]
  BY CountedRows
<1>3. "thread" \notin Core
  BY CoreKinds
<1> HIDE DEF s2, m2
<1>4. Agree(s2, m2)
  BY <1>1, <1>2, <1>3 DEF Agree, HasRow, Mirrored
<1> QED
  BY <1>4 DEF s2, m2

LEMMA BackedRow ==
  ASSUME NEW m, Backed(m), NEW m2, NEW i \in Ids,
         \A j \in Ids \ {i} : m2[j] = m[j],
         Live(m, i) => m2[i].kind = m[i].kind, Live(m2, i),
         \A p \in ParentsOf[m2[i].kind] : m2[i].refs[p] # None =>
           /\ <<m2[i].kind, p>> \in Required \cup Optional
           /\ <<m2[i].kind, p>> \notin Forgotten => HasRow(m, p, m2[i].refs[p])
  PROVE  Backed(m2)
<1>1. \A p, j : HasRow(m, p, j) => HasRow(m2, p, j)
  BY DEF HasRow, Live
<1> QED
  BY <1>1 DEF Backed, Live

LEMMA GivenBacked ==
  ASSUME Agree(sql, mem), NEW k \in Kinds, NEW p, NEW value, value # None,
         <<k, p>> \in Required \cup Optional, <<k, p>> \notin Forgotten,
         \A r \in ForeignKeys[k] : r.parent = p => Constrained(r, value)
  PROVE  HasRow(mem, p, value)
<1>1. PICK r \in ForeignKeys[k] : r.parent = p
  BY GivenKeyed DEF Keyed, ForeignKeys
<1>2. HasRow(sql, p, value) /\ p \in Anchors
  BY <1>1, GivenKeyed DEF Constrained
<1> QED
  BY <1>2 DEF Agree, HasRow

LEMMA InputsGiven ==
  ASSUME NEW k \in Present, NEW refs \in Inputs(k), NEW p \in ParentsOf[k], refs[p] # None
  PROVE  <<k, p>> \in Required \cup Optional
<1>1. Usual(k)[p] # None => <<k, p>> \in Required \cup Optional
  BY DEF Usual
<1>2. ASSUME NEW q \in ParentsOf[k], NEW i \in Candidates(k, q), refs = [Usual(k) EXCEPT ![q] = i]
      PROVE  <<k, p>> \in Required \cup Optional
  <2>1. CASE q = p
    BY <1>2, <2>1 DEF Usual, Candidates
  <2>2. CASE q # p
    BY <1>1, <1>2, <2>2
  <2> QED
    BY <2>1, <2>2
<1> QED
  BY <1>1, <1>2 DEF Inputs

LEMMA RefsBacked ==
  ASSUME Agree(sql, mem), NEW k \in Present, k \in Kinds, NEW refs \in Inputs(k),
         \A r \in ForeignKeys[k] : Constrained(r, refs[r.parent]),
         NEW p \in ParentsOf[k], refs[p] # None
  PROVE  /\ <<k, p>> \in Required \cup Optional
         /\ <<k, p>> \notin Forgotten => HasRow(mem, p, refs[p])
  BY InputsGiven, GivenBacked

LEMMA BackedCounted ==
  ASSUME AreaInv, NEW m, Backed(m), Typed(m), NEW i \in Ids
  PROVE  Backed(Counted(m, i))
<1> DEFINE m2 == Counted(m, i)
<1>1. \A j \in Ids :
        /\ Live(m2, j) <=> Live(m, j)
        /\ Live(m, j) => m2[j].kind = m[j].kind /\ m2[j].refs = m[j].refs
  BY CountedRows
<1> HIDE DEF m2
<1>2. \A p, j : HasRow(m, p, j) => HasRow(m2, p, j)
  BY <1>1 DEF HasRow
<1>3. Backed(m2)
  BY <1>1, <1>2 DEF Backed
<1> QED
  BY <1>3 DEF m2

Matched == Agree(sql', mem') /\ Backed(mem')

LEMMA MatchedCreate ==
  ASSUME KeysInv, MemInv, NEW i \in NewIds, NEW k \in Present, NEW refs \in Inputs(k),
         Create(i, k, refs), agreed'
  PROVE  Matched
<1>1. AreaInv /\ Typed(sql) /\ Typed(mem) /\ i \in Ids /\ k \in Kinds
  BY AreaIds DEF KeysInv, StoreInv
<1>2. Agree(sql, mem) /\ Backed(mem) /\ sql[i] = Unused /\ mem[i] = Unused
  BY DEF Create, Answer, MemInv
<1> DEFINE s1 == [sql EXCEPT ![i] = NewRow(k, refs)]
           m1 == [mem EXCEPT ![i] = NewRow(k, refs)]
<1>3. CASE sql' = sql /\ mem' = mem
  BY <1>2, <1>3 DEF Matched
<1>4. CASE SqlAccepts("create", k, refs) /\ sql' = Counted(s1, i) /\ mem' = Counted(m1, i)
  <2>1. Typed(s1) /\ Typed(m1)
    BY <1>1, <1>2, CreateTyped
  <2>2. /\ \A j \in Ids \ {i} : s1[j] = sql[j] /\ m1[j] = mem[j]
        /\ s1[i] = NewRow(k, refs) /\ m1[i] = NewRow(k, refs)
    BY <1>1 DEF Typed
  <2>3. NewRow(k, refs).kind = k /\ NewRow(k, refs).refs = refs
    BY DEF NewRow
  <2>4. Live(s1, i) /\ Live(m1, i)
    <3>1. NewRow(k, refs) \in RowUpTo(k, 0)
      BY <1>1, InputsTyped DEF NewRow, RowUpTo
    <3> QED
      BY <1>1, <2>2, <3>1, MarksNoRows DEF Live
  <2> HIDE DEF s1, m1
  <2>5. Agree(s1, m1)
    BY <1>1, <1>2, <2>2, <2>3, <2>4, AgreeRow
  <2>6. \A p \in ParentsOf[k] : refs[p] # None =>
          /\ <<k, p>> \in Required \cup Optional
          /\ <<k, p>> \notin Forgotten => HasRow(mem, p, refs[p])
    BY <1>1, <1>2, <1>4, RefsBacked DEF SqlAccepts
  <2>7. ~Live(mem, i)
    BY <1>2 DEF Live
  <2>8. Backed(m1)
    BY <1>1, <1>2, <2>2, <2>3, <2>4, <2>6, <2>7, BackedRow
  <2> QED
    BY <1>1, <1>4, <2>1, <2>5, <2>8, AgreeCounted, BackedCounted DEF Matched
<1> QED
  BY <1>3, <1>4 DEF Create, Answer

\* A row that gets references stays a row of its kind.
LEMMA RowRefs ==
  ASSUME AreaInv, NEW rows, Typed(rows), NEW k \in Present, NEW i \in Ids, HasRow(rows, k, i),
         NEW refs \in [ParentsOf[k] -> Ids \cup {None}], NEW row,
         row = [rows[i] EXCEPT !.refs = refs] \/ row = NewRow(k, refs)
  PROVE  row \notin {Unused, Gone} /\ row.kind = k /\ row.refs = refs
<1>1. Live(rows, i) /\ rows[i].kind = k /\ k \in Kinds
  BY AreaIds DEF HasRow
<1>2. rows[i] \in RowUpTo(k, Cardinality(Used(rows)))
  BY <1>1 DEF Typed
<1>3. row \in RowUpTo(k, Cardinality(Used(rows))) /\ row.kind = k /\ row.refs = refs
  BY <1>2, UsedFinite DEF RowUpTo, NewRow
<1> QED
  BY <1>1, <1>3, MarksNoRows

\* Both stores give a row of theirs the same references.
LEMMA MatchedRefs ==
  ASSUME AreaInv, Typed(sql), Typed(mem), Agree(sql, mem), Backed(mem),
         NEW k \in Present, NEW i \in Ids, HasRow(sql, k, i), HasRow(mem, k, i),
         NEW given \in [ParentsOf[k] -> Ids \cup {None}],
         NEW refs \in [ParentsOf[k] -> Ids \cup {None}], k \in Core => given = refs,
         NEW row, row = [mem[i] EXCEPT !.refs = refs] \/ row = NewRow(k, refs),
         k \in Core => row = [mem[i] EXCEPT !.refs = refs],
         sql' = [sql EXCEPT ![i].refs = given], mem' = [mem EXCEPT ![i] = row],
         \A p \in ParentsOf[k] : refs[p] # None =>
           /\ <<k, p>> \in Required \cup Optional
           /\ <<k, p>> \notin Forgotten => HasRow(mem, p, refs[p])
  PROVE  Matched
<1> DEFINE srow == [sql[i] EXCEPT !.refs = given]
           s2   == [sql EXCEPT ![i] = srow]
           m2   == [mem EXCEPT ![i] = row]
<1>1. sql' = s2 /\ mem' = m2
  OBVIOUS
<1>2. /\ s2[i] = srow /\ \A j \in Ids \ {i} : s2[j] = sql[j]
      /\ Live(s2, i) /\ s2[i].kind = k
  <2>1. s2[i] = srow /\ \A j \in Ids \ {i} : s2[j] = sql[j]
    BY DEF Typed
  <2>2. srow = [sql[i] EXCEPT !.refs = given] \/ srow = NewRow(k, given)
    OBVIOUS
  <2> HIDE DEF srow, s2
  <2>3. srow \notin {Unused, Gone} /\ srow.kind = k
    BY <2>2, RowRefs
  <2> QED
    BY <2>1, <2>3 DEF Live
<1>3. /\ m2[i] = row /\ \A j \in Ids \ {i} : m2[j] = mem[j]
      /\ Live(m2, i) /\ m2[i].kind = k /\ m2[i].refs = refs
  <2>1. m2[i] = row /\ \A j \in Ids \ {i} : m2[j] = mem[j]
    BY DEF Typed
  <2>2. row \notin {Unused, Gone} /\ row.kind = k /\ row.refs = refs
    BY RowRefs
  <2> HIDE DEF m2
  <2> QED
    BY <2>1, <2>2 DEF Live
<1>4. k \in Core => s2[i] = m2[i]
  <2>1. k \in Core => sql[i] = mem[i]
    BY DEF Agree, HasRow
  <2> QED
    BY <1>2, <1>3, <2>1
<1> HIDE DEF srow, s2, m2
<1>5. Agree(s2, m2)
  BY <1>2, <1>3, <1>4, AgreeRow
<1>6. mem[i].kind = k
  BY DEF HasRow
<1>7. Backed(m2)
  BY <1>3, <1>6, BackedRow
<1> QED
  BY <1>1, <1>5, <1>7 DEF Matched

LEMMA MatchedUpdate ==
  ASSUME KeysInv, MemInv, NEW i \in Ids, NEW k \in Present, NEW refs \in Inputs(k),
         Update(i, k, refs), agreed'
  PROVE  Matched
<1>1. AreaInv /\ Typed(sql) /\ Typed(mem) /\ k \in Kinds
  BY AreaIds DEF KeysInv, StoreInv
<1>2. Agree(sql, mem) /\ Backed(mem)
  BY DEF Update, Answer, MemInv
<1> DEFINE row == IF k \in Owning THEN NewRow(k, refs) ELSE [mem[i] EXCEPT !.refs = refs]
<1>3. CASE sql' = sql /\ mem' = mem
  BY <1>2, <1>3 DEF Matched
<1>4. CASE /\ HasRow(sql, k, i) /\ SqlAccepts("update", k, refs) /\ HasRow(mem, k, i)
           /\ sql' = [sql EXCEPT ![i].refs = refs] /\ mem' = [mem EXCEPT ![i] = row]
  <2>1. \A p \in ParentsOf[k] : refs[p] # None =>
          /\ <<k, p>> \in Required \cup Optional
          /\ <<k, p>> \notin Forgotten => HasRow(mem, p, refs[p])
    BY <1>1, <1>2, <1>4, RefsBacked DEF SqlAccepts
  <2>2. refs \in [ParentsOf[k] -> Ids \cup {None}]
    BY <1>1, InputsTyped
  <2>3. /\ row = [mem[i] EXCEPT !.refs = refs] \/ row = NewRow(k, refs)
        /\ k \in Core => row = [mem[i] EXCEPT !.refs = refs]
    BY CoreUnlinked
  <2> HIDE DEF row
  <2> QED
    BY <1>1, <1>2, <1>4, <2>1, <2>2, <2>3, MatchedRefs
<1> QED
  BY <1>3, <1>4 DEF Update, Answer

LEMMA MatchedPatch ==
  ASSUME KeysInv, MemInv, NEW i \in Ids, NEW k \in Present, NEW p \in ParentsOf[k],
         NEW value \in Candidates(k, p) \cup {None}, Patch(i, k, p, value), agreed'
  PROVE  Matched
<1>1. AreaInv /\ Typed(sql) /\ Typed(mem) /\ k \in Kinds
  BY AreaIds DEF KeysInv, StoreInv
<1>2. Agree(sql, mem) /\ Backed(mem)
  BY DEF Patch, Answer, MemInv
<1>3. CASE sql' = sql /\ mem' = mem
  BY <1>2, <1>3 DEF Matched
<1>4. CASE /\ HasRow(sql, k, i) /\ SqlAcceptsPatch(i, p, value) /\ HasRow(mem, k, i)
           /\ sql' = [sql EXCEPT ![i].refs[p] = value]
           /\ mem' = [mem EXCEPT ![i].refs[p] = value]
  <2> DEFINE given == [sql[i].refs EXCEPT ![p] = value]
             refs  == [mem[i].refs EXCEPT ![p] = value]
             row   == [mem[i] EXCEPT !.refs = refs]
  <2>1. /\ Live(sql, i) /\ sql[i].kind = k /\ Live(mem, i) /\ mem[i].kind = k
        /\ sql[i].refs \in [ParentsOf[k] -> Ids \cup {None}]
        /\ mem[i].refs \in [ParentsOf[k] -> Ids \cup {None}]
        /\ value \in Ids \cup {None}
    BY <1>1, <1>4, CandidatesTyped DEF HasRow, Typed, RowUpTo
  <2>2. given \in [ParentsOf[k] -> Ids \cup {None}] /\ refs \in [ParentsOf[k] -> Ids \cup {None}]
    BY <2>1
  <2>3. k \in Core => given = refs
    BY <1>2, <1>4 DEF Agree
  <2>4. ASSUME NEW q \in ParentsOf[k], refs[q] # None
        PROVE  /\ <<k, q>> \in Required \cup Optional
               /\ <<k, q>> \notin Forgotten => HasRow(mem, q, refs[q])
    <3>1. CASE q = p
      <4>1. refs[q] = value /\ value # None
        BY <2>1, <2>4, <3>1
      <4>2. <<k, p>> \in Required \cup Optional
        BY <4>1 DEF Candidates
      <4>3. \A r \in ForeignKeys[k] : r.parent = p => Constrained(r, value)
        BY <1>4, <2>1 DEF SqlAcceptsPatch
      <4> QED
        BY <1>1, <1>2, <3>1, <4>1, <4>2, <4>3, GivenBacked
    <3>2. CASE q # p
      <4>1. refs[q] = mem[i].refs[q]
        BY <2>1, <3>2
      <4> HIDE DEF refs
      <4> QED
        BY <1>2, <2>1, <2>4, <4>1 DEF Backed
    <3> QED
      BY <3>1, <3>2
  <2>5. sql' = [sql EXCEPT ![i].refs = given] /\ mem' = [mem EXCEPT ![i] = row]
    BY <1>4
  <2>6. /\ row = [mem[i] EXCEPT !.refs = refs] \/ row = NewRow(k, refs)
        /\ k \in Core => row = [mem[i] EXCEPT !.refs = refs]
    OBVIOUS
  <2> HIDE DEF given, refs, row
  <2> QED
    BY <1>1, <1>2, <1>4, <2>2, <2>3, <2>4, <2>5, <2>6, MatchedRefs
<1> QED
  BY <1>3, <1>4 DEF Patch, Answer

LEMMA MatchedRead ==
  ASSUME KeysInv, MemInv, NEW i \in Ids, MarkRead(i), agreed'
  PROVE  Matched
<1>1. AreaInv /\ Typed(sql) /\ Typed(mem)
  BY DEF KeysInv, StoreInv
<1>2. Agree(sql, mem) /\ Backed(mem)
  BY DEF MarkRead, Answer, MemInv
<1>3. CASE sql' = sql /\ mem' = mem
  BY <1>2, <1>3 DEF Matched
<1>4. CASE /\ HasRow(sql, "notification", i) /\ HasRow(mem, "notification", i)
           /\ sql' = [sql EXCEPT ![i].count = 1] /\ mem' = [mem EXCEPT ![i].count = 1]
  <2>1. ASSUME NEW rows \in {sql, mem}, NEW new, new = [rows EXCEPT ![i].count = 1]
        PROVE  /\ \A j \in Ids \ {i} : new[j] = rows[j]
               /\ Live(new, i) /\ new[i].kind = "notification" /\ new[i].refs = rows[i].refs
    <3>1. /\ rows[i].kind = "notification" /\ rows[i].kind \in Kinds
          /\ rows[i] \in RowUpTo("notification", Cardinality(Used(rows)))
      BY <1>1, <1>4 DEF HasRow, Typed
    <3>2. new[i] = [rows[i] EXCEPT !.count = 1] /\ \A j \in Ids \ {i} : new[j] = rows[j]
      BY <1>1, <2>1 DEF Typed
    <3>3. /\ new[i] \in RowUpTo("notification", Cardinality(Used(rows)))
          /\ new[i].kind = "notification" /\ new[i].refs = rows[i].refs
      BY <3>1, <3>2, UsedFinite DEF RowUpTo
    <3> QED
      BY <1>1, <3>1, <3>2, <3>3, MarksNoRows DEF Live
  <2>2. /\ \A j \in Ids \ {i} : sql'[j] = sql[j] /\ mem'[j] = mem[j]
        /\ Live(sql', i) /\ sql'[i].kind = "notification"
        /\ Live(mem', i) /\ mem'[i].kind = "notification" /\ mem'[i].refs = mem[i].refs
    BY <1>4, <2>1
  <2>3. "notification" \notin Core
    BY CoreKinds
  <2>4. Agree(sql', mem')
    BY <1>2, <2>2, <2>3, AgreeRow
  <2>5. Live(mem, i) /\ mem[i].kind = "notification"
    BY <1>4 DEF HasRow
  <2>6. Backed(mem')
    <3>1. \A p \in ParentsOf[mem'[i].kind] : mem'[i].refs[p] # None =>
            /\ <<mem'[i].kind, p>> \in Required \cup Optional
            /\ <<mem'[i].kind, p>> \notin Forgotten => HasRow(mem, p, mem'[i].refs[p])
      BY <1>2, <2>2, <2>5 DEF Backed
    <3> QED
      BY <1>2, <2>2, <2>5, <3>1, BackedRow
  <2> QED
    BY <2>4, <2>6 DEF Matched
<1> QED
  BY <1>3, <1>4 DEF MarkRead, Answer

\* Two sets hold the same rows of the kinds both stores have.
Same(S, T) == \A j \in Ids, k \in Mirrored : HasRow(sql, k, j) => (j \in S <=> j \in T)

LEMMA SpreadSame ==
  ASSUME KeysInv, Agree(sql, mem), Backed(mem), NEW S, NEW T, Same(S, T)
  PROVE  Same(Spread(sql, Cascading, S), Spread(mem, MemoryDrops, T))
<1> SUFFICES ASSUME NEW j \in Ids, NEW k \in Mirrored, HasRow(sql, k, j)
             PROVE  j \in Children(sql, Cascading, S) <=> j \in Children(mem, MemoryDrops, T)
  BY DEF Same, Spread
<1>1. /\ Live(sql, j) /\ sql[j].kind = k /\ Live(mem, j) /\ mem[j].kind = k
      /\ k \in Core => sql[j] = mem[j]
  BY DEF Agree, HasRow
<1>2. ASSUME NEW p, <<k, p>> \in Cascading
      PROVE  /\ <<k, p>> \in MemoryDrops /\ sql[j] = mem[j]
             /\ sql[j].refs[p] \in S <=> sql[j].refs[p] \in T
  <2>1. <<k, p>> \in MemoryDrops /\ p \in Mirrored /\ k \in Core
    BY <1>2, SameDrops
  <2>2. HasRow(sql, p, sql[j].refs[p])
    BY <1>1, <1>2, RowAbove
  <2> QED
    BY <1>1, <2>1, <2>2 DEF Same, HasRow
<1>3. ASSUME NEW p, <<k, p>> \in MemoryDrops PROVE <<k, p>> \in Cascading
  BY <1>3, SameDrops
<1> QED
  BY <1>1, <1>2, <1>3 DEF Children

LEMMA DoomedSame ==
  ASSUME KeysInv, Agree(sql, mem), Backed(mem), NEW i \in Ids
  PROVE  Same(SqlDoomed(i), Doomed(mem, MemoryDrops, i))
<1> DEFINE S1 == Spread(sql, Cascading, {i})
           S2 == Spread(sql, Cascading, S1)
           S3 == Spread(sql, Cascading, S2)
           T1 == Spread(mem, MemoryDrops, {i})
           T2 == Spread(mem, MemoryDrops, T1)
           T3 == Spread(mem, MemoryDrops, T2)
<1>1. Same({i}, {i})
  BY DEF Same
<1>2. Same(S1, T1)
  BY <1>1, SpreadSame
<1>3. Same(S2, T2)
  BY <1>2, SpreadSame
<1>4. Same(S3, T3)
  BY <1>3, SpreadSame
<1>5. Same(Spread(sql, Cascading, S3), Spread(mem, MemoryDrops, T3))
  BY <1>4, SpreadSame
<1> QED
  BY <1>5 DEF SqlDoomed, Doomed

LEMMA MemoryDoomedClosed ==
  ASSUME KeysInv, Backed(mem), NEW i \in Ids, NEW T, T = Doomed(mem, MemoryDrops, i)
  PROVE  /\ i \in T
         /\ Children(mem, MemoryDrops, T) \subseteq T
         /\ \A j \in T \ {i} : j \in Children(mem, MemoryDrops, T)
<1>1. AreaInv /\ \A j \in Ids : Live(mem, j) => mem[j].kind \in Kinds
  BY DEF KeysInv, StoreInv, Typed
<1>2. Rooted(mem, MemoryDrops)
  BY <1>1, DropsRemembered DEF Rooted, Backed
<1> QED
  BY <1>1, <1>2, DropsDescend, DoomedClosed, DoomedRows

LEMMA MatchedDelete ==
  ASSUME KeysInv, MemInv, NEW i \in Ids, Delete(i), agreed'
  PROVE  Matched
<1>1. AreaInv /\ Typed(sql) /\ Typed(mem) /\ Agree(sql, mem) /\ Backed(mem)
  BY DEF KeysInv, StoreInv, Delete, Answer, MemInv
<1>2. CASE sql' = sql /\ mem' = mem
  BY <1>1, <1>2 DEF Matched
<1>3. CASE Deletes(i) /\ mem' = MemoryWithout(i)
  <2> DEFINE S == SqlDoomed(i)
             T == Doomed(mem, MemoryDrops, i)
  <2>1. /\ i \in T /\ Children(mem, MemoryDrops, T) \subseteq T
        /\ \A j \in T \ {i} : j \in Children(mem, MemoryDrops, T)
    BY <1>1, MemoryDoomedClosed
  <2>2. Same(S, T) /\ i \in S
    BY <1>1, DoomedSame, SqlDoomedClosed
  <2>3. \A j \in Ids :
          /\ Live(sql', j) <=> Live(sql, j) /\ j \notin S
          /\ Live(sql', j) =>
               /\ sql'[j].kind = sql[j].kind
               /\ (\A p : <<sql[j].kind, p>> \notin Nullable) => sql'[j] = sql[j]
    BY <1>1, <1>3, WithoutRows DEF Deletes, SqlWithout
  <2>4. \A j \in Ids :
          /\ Live(mem', j) <=> Live(mem, j) /\ j \notin T
          /\ Live(mem', j) =>
               /\ mem'[j].kind = mem[j].kind
               /\ (\A p : <<mem[j].kind, p>> \notin MemoryUnlinks) => mem'[j] = mem[j]
    BY <1>1, <1>3, WithoutRows DEF MemoryWithout
  <2>5. \A j \in Ids : Live(mem', j) => \A p \in ParentsOf[mem[j].kind] :
          mem'[j].refs[p] = IF <<mem[j].kind, p>> \in MemoryUnlinks /\ mem[j].refs[p] \in T
                              THEN None ELSE mem[j].refs[p]
    BY <1>1, <1>3, WithoutRows DEF MemoryWithout
  <2> HIDE DEF S, T
  <2>6. ASSUME NEW j \in Ids, NEW k \in Mirrored
        PROVE  HasRow(sql', k, j) <=> HasRow(mem', k, j)
    BY <1>1, <2>2, <2>3, <2>4 DEF Agree, HasRow, Same
  <2>7. ASSUME NEW j \in Ids, NEW k \in Core, HasRow(sql', k, j) PROVE sql'[j] = mem'[j]
    <3>1. Live(sql, j) /\ sql[j].kind = k /\ sql'[j] = sql[j]
      BY <2>3, <2>7, CoreUnlinked DEF HasRow
    <3>2. k \in Mirrored
      BY DEF Mirrored
    <3>3. Live(mem', j) /\ mem'[j].kind = k
      BY <2>6, <2>7, <3>2 DEF HasRow
    <3>4. mem'[j] = mem[j]
      BY <2>4, <3>3, CoreUnlinked
    <3> QED
      BY <1>1, <3>1, <3>4 DEF Agree, HasRow
  <2>8. ASSUME NEW j \in Ids, NEW k \in Anchors, HasRow(sql', k, j) PROVE HasRow(mem', k, j)
    <3>1. CASE k \in Mirrored
      BY <2>6, <2>8, <3>1
    <3>2. CASE k \in {"period", "key", "handover"}
      <4>1. HasRow(sql, k, j) /\ j # i
        BY <2>2, <2>3, <2>8 DEF HasRow
      <4>2. Live(mem, j) /\ mem[j].kind = k
        BY <1>1, <4>1 DEF Agree, HasRow
      <4>3. j \notin Children(mem, MemoryDrops, T)
        BY <3>2, <4>2, AnchorsStay DEF Children
      <4>4. j \notin T
        BY <2>1, <4>1, <4>3
      <4> QED
        BY <2>4, <4>2, <4>4 DEF HasRow
    <3> QED
      BY <3>1, <3>2 DEF Anchors
  <2>9. Agree(sql', mem')
    BY <2>6, <2>7, <2>8 DEF Agree
  <2>10. ASSUME NEW j \in Ids, Live(mem', j), NEW p \in ParentsOf[mem'[j].kind],
                mem'[j].refs[p] # None
         PROVE  /\ <<mem'[j].kind, p>> \in Required \cup Optional
                /\ <<mem'[j].kind, p>> \notin Forgotten => HasRow(mem', p, mem'[j].refs[p])
    <3> DEFINE k == mem[j].kind
               v == mem[j].refs[p]
    <3>1. Live(mem, j) /\ j \notin T /\ mem'[j].kind = k /\ p \in ParentsOf[k]
      BY <2>4, <2>10
    <3>2. mem'[j].refs[p] = v /\ v # None /\ ~(<<k, p>> \in MemoryUnlinks /\ v \in T)
      BY <2>5, <2>10, <3>1
    <3>3. /\ <<k, p>> \in Required \cup Optional
          /\ <<k, p>> \notin Forgotten => HasRow(mem, p, v)
      BY <1>1, <3>1, <3>2 DEF Backed
    <3>4. <<k, p>> \in MemoryDrops => v \notin T
      BY <2>1, <3>1 DEF Children
    <3>5. <<k, p>> \notin Forgotten => v \notin T
      BY <3>2, <3>3, <3>4, GivenDropped
    <3>6. <<k, p>> \notin Forgotten => HasRow(mem', p, v)
      BY <2>4, <3>3, <3>5 DEF HasRow
    <3> QED
      BY <3>1, <3>2, <3>3, <3>6
  <2> QED
    BY <2>9, <2>10 DEF Matched, Backed
<1> QED
  BY <1>2, <1>3 DEF Delete, Answer, Deletes

LEMMA MemNext == ASSUME KeysInv, MemInv, [Next]_vars PROVE MemInv'
<1>1. Ids' = Ids
  BY TypedNext DEF KeysInv
<1>2. agreed' => Matched
  <2>1. CASE UNCHANGED vars
    BY <2>1 DEF vars, MemInv, Matched
  <2> QED
    BY <2>1, MatchedCreate, MatchedUpdate, MatchedPatch, MatchedRead, MatchedDelete DEF Next
<1>3. agreed' => Agree(sql, mem)' /\ Backed(mem)'
  BY <1>1, <1>2 DEF Matched, Agree, Backed, HasRow
<1> QED
  BY <1>3 DEF MemInv

LEMMA MemInit == ASSUME Init PROVE MemInv
<1>1. PICK area \in Areas : sql = Dataset(area)
  BY DEF Init
<1>2. mem = sql /\ AreaInv /\ Typed(sql)
  BY TypedInit DEF Init, StoreInv
<1>3. /\ area \subseteq AllKinds /\ area \cap NewIds = {} /\ Ids = area \cup NewIds
      /\ None \notin area
  BY <1>1, StoreAssumption DEF AllKinds, Dataset, Ids
<1>4. ASSUME NEW j \in area PROVE sql[j] = SeedRow(j, area) /\ sql[j].kind = j
  BY <1>1, <1>3 DEF Dataset, SeedRow
<1>5. \A j \in Ids : Live(sql, j) => j \in area
  BY <1>1, <1>3 DEF Dataset, Live
<1>6. ASSUME NEW j \in area PROVE HasRow(sql, j, j)
  <2>1. SeedRow(j, area) \in RowUpTo(j, 0) /\ j \in Kinds
    BY <1>3, StoreAssumption DEF SeedRow, RowUpTo
  <2> QED
    BY <1>2, <1>3, <1>4, <2>1, MarksNoRows DEF Live, HasRow
<1>7. ASSUME NEW j \in area, NEW p \in ParentsOf[j], sql[j].refs[p] # None
      PROVE  <<j, p>> \in Required \cup Optional /\ HasRow(sql, p, sql[j].refs[p])
  <2>1. SeedRow(j, area).refs =
          [q \in ParentsOf[j] |->
             IF q \in area \ {j} /\ <<j, q>> \in Required \cup Optional THEN q ELSE None]
    BY DEF SeedRow
  <2>2. sql[j].refs[p] = p /\ p \in area /\ <<j, p>> \in Required \cup Optional
    BY <1>4, <1>7, <2>1
  <2> QED
    BY <1>6, <2>2
<1>8. Backed(mem)
  BY <1>2, <1>4, <1>5, <1>7 DEF Backed
<1>9. Agree(sql, mem)
  BY <1>2 DEF Agree
<1> QED
  BY <1>8, <1>9 DEF MemInv

MirrorInv == KeysInv /\ MemInv

LEMMA MirrorAlways == Spec => []MirrorInv
<1>1. Init => MirrorInv
  BY KeysInit, MemInit DEF MirrorInv
<1>2. MirrorInv /\ [Next]_vars => MirrorInv'
  BY KeysNext, MemNext DEF MirrorInv
<1> QED
  BY <1>1, <1>2, PTL DEF Spec

(* As long as the in-memory store accepts what the database accepts, both  *)
(* hold the same portfolios, properties, units, tenants, contracts,        *)
(* accounts, listings and receivables, and the same leads and              *)
(* notifications.                                                          *)
THEOREM MirrorHolds == Spec => []CoreAgrees
<1>1. MirrorInv => CoreAgrees
  <2> SUFFICES ASSUME KeysInv, MemInv, agreed, NEW i \in Ids
               PROVE  /\ \A k \in {"lead", "notification"} :
                           HasRow(sql, k, i) <=> HasRow(mem, k, i)
                      /\ \A k \in Core : HasRow(sql, k, i) \/ HasRow(mem, k, i)
                                           => sql[i] = mem[i]
    BY DEF CoreAgrees, MirrorInv
  <2>1. Agree(sql, mem)
    BY DEF MemInv
  <2>2. ASSUME NEW k \in Core PROVE HasRow(sql, k, i) <=> HasRow(mem, k, i)
    BY <2>1 DEF Agree, Mirrored
  <2> QED
    BY <2>1, <2>2 DEF Agree, Mirrored
<1> QED
  BY <1>1, MirrorAlways, PTL

(* Beside the references its deletes forget, no reference of a row in      *)
(* memory names a row that is gone, for as long as the stores agree.       *)
THEOREM MemoryForgets == Spec => []MemoryForgetsOnlyThese
<1>1. MirrorInv => MemoryForgetsOnlyThese
  BY DEF MirrorInv, MemInv, Backed, MemoryForgetsOnlyThese
<1> QED
  BY <1>1, MirrorAlways, PTL

\* What memory looks up before it creates a row, the repositories look up
\* too, among rows that memory has when the database does.
LEMMA CheckPairs ==
  ASSUME NEW k, NEW p, <<k, p>> \in MemoryChecks["create"]
  PROVE  <<k, p>> \in RepoChecks["create"] /\ p \in Anchors
<1>1. \/ <<k, p>> \in MemoryPortfolios.checks \/ <<k, p>> \in MemoryProperties.checks
      \/ <<k, p>> \in MemoryTenancies.checks  \/ <<k, p>> \in MemoryLedger.checks
      \/ <<k, p>> \in MemoryFiles.checks      \/ <<k, p>> \in MemoryLetting.checks
      \/ <<k, p>> \in MemoryBilling.checks    \/ <<k, p>> \in MemoryStatements.checks
      \/ <<k, p>> \in MemoryHandovers.checks  \/ <<k, p>> \in MemoryMeters.checks
      \/ <<k, p>> \in MemoryInsurances.checks
  BY DEF MemoryChecks, MemoryUpdate, MemorySections, LooseSections
<1>2. \/ <<k, p>> \in PortfolioRepo \/ <<k, p>> \in ContractRepo
      \/ <<k, p>> \in TenantRepoCreate \/ <<k, p>> \in TenantRepo
      \/ <<k, p>> \in LedgerRepo \/ <<k, p>> \in BudgetRepoCreate
      \/ <<k, p>> \in BillingRepo \/ <<k, p>> \in CalendarRepo
      \/ <<k, p>> \in DocumentRepo \/ <<k, p>> \in MarketingRepo
      \/ <<k, p>> \in MaintenanceRepo
  BY <1>1 DEF MemoryPortfolios, MemoryProperties, MemoryTenancies, MemoryLedger, MemoryFiles,
              MemoryLetting, MemoryBilling, MemoryStatements, MemoryHandovers, MemoryMeters,
              MemoryInsurances, PortfolioRepo, ContractRepo, TenantRepoCreate, TenantRepo,
              LedgerRepo, BudgetRepoCreate, BillingRepo, CalendarRepo, DocumentRepo,
              MarketingRepo, MaintenanceRepo, Pairs
<1>3. p \in Anchors
  BY <1>1, CoreKinds DEF MemoryPortfolios, MemoryProperties, MemoryTenancies, MemoryLedger,
              MemoryFiles, MemoryLetting, MemoryBilling, MemoryStatements, MemoryHandovers,
              MemoryMeters, MemoryInsurances, Pairs, Anchors, Mirrored
<1> QED
  BY <1>2, <1>3 DEF RepoChecks, RepoUpdate

\* A reference that a body must give is given.
LEMMA InputsFirm ==
  ASSUME AreaInv, NEW k \in Present, NEW refs \in Inputs(k), NEW p \in ParentsOf[k],
         <<k, p>> \in Required
  PROVE  refs[p] # None
<1>1. p \in Present
  <2>1. PICK area \in Areas : Ids = area \cup NewIds
    BY DEF AreaInv
  <2>2. k \in area /\ area \subseteq AllKinds
    BY <2>1 DEF Present, AllKinds
  <2> QED
    BY <2>1, <2>2, StoreAssumption DEF Present
<1>2. None \notin Ids /\ Present \subseteq Ids
  BY AreaIds DEF Present
<1>3. Usual(k)[p] = p /\ p # None
  BY <1>1, <1>2 DEF Usual
<1>4. ASSUME NEW q \in ParentsOf[k], NEW i \in Candidates(k, q), refs = [Usual(k) EXCEPT ![q] = i]
      PROVE  refs[p] # None
  <2>1. CASE q = p
    BY <1>2, <1>4, <2>1 DEF Usual, Candidates
  <2>2. CASE q # p
    BY <1>3, <1>4, <2>2
  <2> QED
    BY <2>1, <2>2
<1> QED
  BY <1>3, <1>4 DEF Inputs

(* The in-memory store refuses to create a row only when the repositories  *)
(* would, for as long as the stores agree.                                 *)
THEOREM ChecksSuffice == Spec => []ChecksCover
<1>1. MirrorInv => ChecksCover
  <2> SUFFICES ASSUME KeysInv, MemInv, agreed, NEW k \in Present, NEW refs \in Inputs(k),
                      Checked(sql, RepoChecks["create"], k, refs)
               PROVE  Checked(mem, MemoryChecks["create"], k, refs)
    BY DEF ChecksCover, MirrorInv, MemoryAccepts
  <2>1. Agree(sql, mem) /\ AreaInv /\ k \in Kinds
    BY AreaIds DEF MemInv, KeysInv, StoreInv
  <2>2. Found(mem, MemoryChecks["create"], k, refs)
    <3> SUFFICES ASSUME NEW p \in ParentsOf[k], <<k, p>> \in MemoryChecks["create"],
                        refs[p] # None
                 PROVE  HasRow(mem, p, refs[p])
      BY DEF Found
    <3>1. HasRow(sql, p, refs[p]) /\ p \in Anchors
      BY CheckPairs DEF Checked, Found
    <3> QED
      BY <2>1, <3>1 DEF Agree, HasRow
  <2>3. UnitInProperty(mem, k, refs)
    <3> SUFFICES ASSUME k = "contract"
                 PROVE  mem[refs["unit"]].refs["property"] = refs["property"]
      BY DEF UnitInProperty
    <3>1. "unit" \in ParentsOf[k]
      <4>1. [child |-> "contract", parent |-> "unit", rule |-> "cascade"] \in Tables
        BY LinkHas DEF Tables, MasterTables
      <4> QED
        BY <2>1, <4>1 DEF ParentsOf
    <3>2. <<k, "unit">> \in Required
      BY FirmRequired DEF Firm
    <3>3. refs["unit"] # None
      BY <2>1, <3>1, <3>2, InputsFirm
    <3>4. <<k, "unit">> \in RepoChecks["create"]
      BY DEF RepoChecks, RepoUpdate, ContractRepo, Pairs
    <3>5. HasRow(sql, "unit", refs["unit"])
      BY <3>1, <3>3, <3>4 DEF Checked, Found
    <3>6. sql[refs["unit"]] = mem[refs["unit"]]
      BY <2>1, <3>5, CoreKinds DEF Agree, HasRow
    <3>7. sql[refs["unit"]].refs["property"] = refs["property"]
      BY DEF Checked, UnitInProperty
    <3> QED
      BY <3>6, <3>7
  <2> QED
    BY <2>2, <2>3 DEF Checked
<1> QED
  BY <1>1, MirrorAlways, PTL
=============================================================================
