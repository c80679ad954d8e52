-------------------------- MODULE StoreProperties ---------------------------
(* What the two stores promise.                                            *)
EXTENDS TwoStores

StoreTypeOK ==
  /\ \A rows \in {sql, mem} :
       /\ DOMAIN rows = Ids
       /\ \A i \in Ids : Live(rows, i) => rows[i] \in Row(rows[i].kind)
  /\ agreed \in BOOLEAN
  /\ calls \in 0 .. MaxCalls

(* Whatever is created, moved, patched and deleted, in whatever order, a   *)
(* foreign key of the database names a row of its parent's kind, and one   *)
(* that must not be empty is not.                                          *)
ForeignKeysHold ==
  \A i \in Ids : Live(sql, i) =>
    \A r \in ForeignKeys[sql[i].kind] : Constrained(r, sql[i].refs[r.parent])

(* A delete takes, beside the row it names, only rows that could not exist *)
(* without one it takes: documents, tasks, bookings, invoices and leads    *)
(* outlive the property, unit, contract or listing they belong to.         *)
DeletesSpare ==
  [][LET lost == {i \in Ids : Live(sql, i) /\ sql'[i] = Gone}
     IN  Cardinality({i \in lost : \A p \in ParentsOf[sql[i].kind] :
                        <<sql[i].kind, p>> \in Optional \/ sql[i].refs[p] \notin lost})
           <= 1]_vars

(* The references the deletes of the in-memory store forget.               *)
Forgotten ==
  {"period", "key", "budget", "insurance"} \X {"property"}
  \cup {"insurance", "lead", "viewing", "handover", "statement", "meter"} \X {"unit"}
  \cup {"handover", "statement", "deposit", "rent_adjustment", "rent_charge"} \X {"contract"}
  \cup {<<"lead", "listing">>, <<"meter_value", "meter">>, <<"receivable", "statement">>,
        <<"cost_item", "document">>, <<"task", "task">>}
  \cup {"thread"} \X {"property", "unit", "contract"}
  \cup {"entity_photo"} \X {"property", "unit"}

(* As long as the in-memory store accepts what the database accepts, no    *)
(* other reference of its rows names a row that is gone.                   *)
MemoryForgetsOnlyThese ==
  agreed => \A i \in Ids : Live(mem, i) => \A p \in ParentsOf[mem[i].kind] :
    mem[i].refs[p] # None /\ <<mem[i].kind, p>> \notin Forgotten
      => HasRow(mem, p, mem[i].refs[p])

\* The kinds neither store unlinks.
Core == {"portfolio", "property", "unit", "tenant", "contract", "account",
         "category", "listing", "photo", "receivable", "message"}
        \cup (PlainKinds \ {"notification"})

(* As long as the stores accept the same calls they keep the same          *)
(* portfolios, properties, units, tenants, contracts, accounts, listings   *)
(* and receivables: the cascades by hand and the foreign keys agree there; *)
(* and they have the same leads and notifications.                         *)
CoreAgrees ==
  agreed => \A i \in Ids :
    /\ \A k \in {"lead", "notification"} : HasRow(sql, k, i) <=> HasRow(mem, k, i)
    /\ \A k \in Core : HasRow(sql, k, i) \/ HasRow(mem, k, i)
                         => sql[i] = mem[i]

(* As long as the stores accept the same calls, the in-memory store never  *)
(* refuses to create a row for a parent the repositories do not miss: the  *)
(* two suites of checks have drifted apart in one direction only.          *)
ChecksCover ==
  agreed => \A k \in Present :
    \A refs \in Inputs(k) :
      ~MemoryAccepts("create", k, refs)
        => ~Checked(sql, RepoChecks["create"], k, refs)

(* A thread in the database counts at least the messages it has.           *)
ThreadsCount ==
  \A t \in Ids : HasRow(sql, "thread", t) =>
    Cardinality({m \in Ids : HasRow(sql, "message", m) /\ sql[m].refs["thread"] = t})
      <= sql[t].count
=============================================================================
