---------------------------- MODULE SchemaHistory ---------------------------
(***************************************************************************)
(* How a database comes by its tables: the four revisions Alembic applies  *)
(* and takes back (backend/db/migrations), and create_all, which every     *)
(* start of the application calls (backend/db/session.py) and which makes  *)
(* the tables that are missing the way the models declare them.            *)
(*                                                                         *)
(* Abstractions.  Tables are named like the kinds of StoreTables.  Of a    *)
(* table's columns only those are kept that the revision that makes the    *)
(* table does not know.  Indexes are left out, and so is a start or a      *)
(* downgrade of added columns that is killed.  Alembic's connection to     *)
(* SQLite commits every statement at once and a revision's number after    *)
(* its last statement, and does not switch foreign keys on; PostgreSQL     *)
(* commits a whole command, and refuses to drop a table another refers to. *)
(***************************************************************************)
EXTENDS StoreTables, Integers, Sequences
LOCAL INSTANCE SequencesExt

CONSTANTS
  Absent,    (* the table is not there                                     *)
  MaxTorn    (* bound on the commands that end early                       *)

ASSUME SchemaAssumption == MaxTorn \in Nat

VARIABLES
  schema,    (* table -> the columns added to it, or Absent                *)
  revision,  (* how many of the revisions the database has, by its record  *)
  postgres,  (* is it PostgreSQL, not SQLite                               *)
  past,      (* history: did the database see a "start", a "downgrade"     *)
  torn       (* history: how many commands ended early                     *)

schemaVars == <<schema, revision, postgres, past, torn>>
-----------------------------------------------------------------------------
(* What the models declare.                                                *)

UserTables   == Link("preferences", {"user"}, "cascade")
ChangeTables == {"change_history", "user"} \cup {r.child : r \in UserTables}
LogTables    == {"audit_log", "revoked_token", "login_attempt"}

AllTables     == Kinds \cup ChangeTables \cup LogTables
DeclaredRules == UNION {ForeignKeys[k] : k \in Kinds} \cup UserTables

MasterFields    == {<<"unit", "person_count">>, <<"tenant", "archived">>}
\* The source of an invoice is a column and a foreign key.
LedgerFields    == Pairs("receivable", {"statement_id"})
                   \cup Pairs("invoice", {"vat_rate", "source_document_id", "source_key"})
UiContracts     == Pairs("receivable", {"description"})
                   \cup Pairs("invoice", {"invoice_number", "payment_reference",
                                          "category", "notes"})
                   \cup Pairs("meter", {"contract_number", "contract_end_date"})
DocumentFields  == Pairs("document", {"ai_fields"})
LeadFields      == Pairs("lead", {"priority"})
CostFields      == Pairs("cost_item", {"cost_category", "gross_amount", "is_recoverable",
                                       "net_amount", "source_document_id", "vat_rate"})
StatementFields == Pairs("statement", {"line_items", "snapshot_hash", "revision",
                                       "revision_notes", "delivery_fields"})
UserFields      == Pairs("user", {"totp_secret", "totp_enabled"})
                   \cup Pairs("preferences", {"default_due_day", "email_notifications",
                                              "reminder_days"})
ThreadFields    == Pairs("thread", {"ai_fields"})

Fields == MasterFields \cup LedgerFields \cup UiContracts \cup DocumentFields
          \cup LeadFields \cup CostFields \cup StatementFields \cup UserFields
          \cup ThreadFields
Declared == [t \in AllTables |-> {f[2] : f \in {g \in Fields : g[1] = t}}]
-----------------------------------------------------------------------------
(* The statements of the revisions.                                        *)

New(table, cascade, null, block) ==
  [op |-> "create", table |-> table, field |-> "",
   refs |-> Link(table, cascade, "cascade") \cup Link(table, null, "null")
            \cup Link(table, block, "block")]
Plain(table)      == New(table, {}, {}, {})
Add(table, field) == [op |-> "add", table |-> table, field |-> field, refs |-> {}]
Drop(table)       == [op |-> "drop", table |-> table, field |-> "", refs |-> {}]
DropField(table, field) == [op |-> "remove", table |-> table, field |-> field, refs |-> {}]

InitialRoots ==
  <<Plain("audit_log"), Plain("notification_template"), Plain("notification"),
    Plain("portfolio"), Plain("tenant"), Plain("user"),
    New("account", {"portfolio"}, {}, {}), New("category", {"portfolio"}, {}, {})>>
InitialProperties ==
  <<New("property", {"portfolio"}, {}, {}), New("key", {"property"}, {}, {}),
    New("period", {"property"}, {}, {}), New("invoice", {}, {"property"}, {}),
    New("unit", {"property"}, {}, {}),
    New("booking", {"account"}, {"category", "property", "tenant", "unit"}, {}),
    New("calendar", {}, {"property", "unit"}, {})>>
InitialContracts ==
  <<New("contract", {"property", "tenant", "unit"}, {}, {}),
    New("cost_item", {"key", "period"}, {}, {}), New("listing", {"unit"}, {}, {}),
    New("maintenance", {"property"}, {"unit"}, {}),
    New("task", {}, {"task", "property", "unit"}, {}),
    New("deposit", {"contract"}, {}, {})>>
InitialLeaves ==
  <<New("document", {}, {"contract", "property", "unit"}, {}),
    New("lead", {}, {"listing", "unit"}, {}), New("photo", {"listing"}, {}, {}),
    New("receivable", {"contract"}, {}, {}),
    New("statement", {"period", "contract", "unit"}, {}, {}),
    New("viewing", {"lead", "unit"}, {}, {})>>
InitialTables == InitialRoots \o InitialProperties \o InitialContracts \o InitialLeaves

Drops(tables) == [i \in DOMAIN tables |-> Drop(tables[i])]

DropInitial ==
  Drops(<<"viewing", "statement", "receivable", "photo", "lead", "document", "deposit",
          "task", "maintenance", "listing", "cost_item", "contract", "calendar", "booking",
          "unit", "invoice", "period", "key", "property", "category", "account", "user",
          "tenant", "portfolio", "notification", "notification_template", "audit_log">>)

MissingTables ==
  <<Plain("tax_rate"), New("rent_adjustment", {}, {}, {"contract"}),
    New("handover", {}, {}, {"contract", "unit"}), New("reading", {"handover"}, {}, {}),
    New("budget", {}, {}, {"property"}), Plain("escalation_rule"), Plain("change_history"),
    New("preferences", {"user"}, {}, {}), New("insurance", {"property"}, {"unit"}, {}),
    Plain("entity_photo")>>

\* Variant: the handover protocols are not dropped.
DropMissingForgets ==
  Drops(<<"entity_photo", "insurance", "preferences", "change_history", "escalation_rule",
          "budget", "reading", "rent_adjustment", "tax_rate">>)

DropMissing ==
  Drops(<<"entity_photo", "insurance", "preferences", "change_history", "escalation_rule",
          "budget", "reading", "handover", "rent_adjustment", "tax_rate">>)

ContactTables ==
  <<Plain("contact"), New("meter", {}, {}, {"unit"}), New("meter_value", {"meter"}, {}, {}),
    Plain("thread"), New("message", {"thread"}, {}, {}),
    New("rent_charge", {}, {}, {"contract"})>>

DropContacts ==
  Drops(<<"rent_charge", "message", "thread", "meter_value", "meter", "contact">>)

UiFields ==
  <<Add("receivable", "description"), Add("receivable", "statement_id"),
    Add("invoice", "invoice_number"), Add("invoice", "vat_rate"),
    Add("invoice", "payment_reference"), Add("invoice", "category"),
    Add("invoice", "notes"), Add("invoice", "source_document_id"),
    Add("meter", "contract_number"), Add("meter", "contract_end_date")>>

DropUiFields ==
  <<DropField("invoice", "source_document_id"), DropField("invoice", "notes"),
    DropField("invoice", "category"), DropField("invoice", "payment_reference"),
    DropField("invoice", "vat_rate"), DropField("invoice", "invoice_number"),
    DropField("receivable", "statement_id"), DropField("receivable", "description"),
    DropField("meter", "contract_end_date"), DropField("meter", "contract_number")>>

Upgrades   == <<InitialTables, MissingTables, ContactTables, UiFields>>
Downgrades == <<DropInitial, DropMissing, DropContacts, DropUiFields>>
Newest       == Len(Upgrades)
-----------------------------------------------------------------------------
(* What the database does with a statement.                                *)

There(db, t) == db[t] # Absent

\* The foreign keys between tables of the database.
LateRule  == Link("invoice", {"document"}, "null")
Rules(db) == {r \in DeclaredRules : There(db, r.child)
                /\ (r \in LateRule => "source_key" \in db["invoice"])}

Possible(db, s) ==
  CASE s.op = "create" -> /\ ~There(db, s.table)
                          /\ postgres => \A r \in s.refs :
                                           r.parent = s.table \/ There(db, r.parent)
    [] s.op = "drop"   -> /\ There(db, s.table)
                          /\ postgres => \A r \in Rules(db) : r.parent = s.table => r.child = s.table
    [] s.op = "add"    -> There(db, s.table) /\ s.field \notin db[s.table]
    [] s.op = "remove" -> There(db, s.table) /\ s.field \in db[s.table]

Applied(db, s) ==
  [db EXCEPT ![s.table] = CASE s.op = "create" -> {}
                            [] s.op = "drop"   -> Absent
                            [] s.op = "add"    -> @ \cup {s.field}
                            [] s.op = "remove" -> @ \ {s.field}]

Run(db, statements) ==
  FoldLeft(LAMBDA run, s : IF run.ok /\ Possible(run.db, s)
                           THEN [run EXCEPT !.db = Applied(@, s)]
                           ELSE [run EXCEPT !.ok = FALSE],
           [db |-> db, ok |-> TRUE], statements)

Empty == [t \in AllTables |-> Absent]
-----------------------------------------------------------------------------
SchemaInit == /\ schema = Empty
              /\ revision = 0
              /\ postgres \in BOOLEAN
              /\ past = {}
              /\ torn = 0

\* The application starts: create_all makes what is missing, and never
\* looks into a table that is there.
Start == /\ schema' = [t \in AllTables |-> IF There(schema, t) THEN schema[t] ELSE Declared[t]]
         /\ past' = past \cup {"start"}
         /\ UNCHANGED <<revision, postgres, torn>>

\* upgrade head, where a command is one transaction.
UpgradeAtOnce ==
  LET rest == FlattenSeq(SubSeq(Upgrades, revision + 1, Newest))
      run  == Run(schema, rest)
  IN  /\ postgres
      /\ run.ok
      /\ schema' = run.db
      /\ revision' = Newest
      /\ UNCHANGED <<postgres, past, torn>>

\* The next revision of upgrade head, on SQLite.
UpgradeStep ==
  /\ ~postgres
  /\ revision < Newest
  /\ LET run == Run(schema, Upgrades[revision + 1])
     IN  /\ run.ok
         /\ schema' = run.db
  /\ revision' = revision + 1
  /\ UNCHANGED <<postgres, past, torn>>

\* A statement of it fails, or the process is killed after the n-th: the
\* statements before have been committed.
Torn(statements) ==
  /\ torn < MaxTorn
  /\ torn' = torn + 1
  /\ \E n \in 1 .. Len(statements) - 1 :
       LET run == Run(schema, SubSeq(statements, 1, n))
       IN  run.ok /\ schema' = run.db

UpgradeTorn ==
  /\ ~postgres
  /\ revision < Newest
  /\ Torn(Upgrades[revision + 1])
  /\ UNCHANGED <<revision, postgres, past>>

\* One revision is taken back.
Downgrade ==
  /\ revision > 0
  /\ LET run == Run(schema, Downgrades[revision])
     IN  run.ok /\ schema' = run.db
  /\ revision' = revision - 1
  /\ past' = past \cup {"downgrade"}
  /\ UNCHANGED <<postgres, torn>>

DowngradeTorn ==
  /\ ~postgres
  /\ revision \in 1 .. Newest - 1
  /\ Torn(Downgrades[revision])
  /\ past' = past \cup {"downgrade"}
  /\ UNCHANGED <<revision, postgres>>

SchemaNext == Start \/ UpgradeAtOnce \/ UpgradeStep \/ UpgradeTorn \/ Downgrade \/ DowngradeTorn
SchemaSpec == SchemaInit /\ [][SchemaNext]_schemaVars
-----------------------------------------------------------------------------
(* What can be relied upon.                                                *)

\* The tables after the first n revisions.
Built(n) == Run(Empty, FlattenSeq(SubSeq(Upgrades, 1, n))).db

\* The columns the application reads and no revision adds.
Unmigrated ==
  MasterFields \cup DocumentFields \cup LeadFields \cup CostFields
  \cup StatementFields \cup UserFields \cup ThreadFields \cup Pairs("invoice", {"source_key"})

MigratedExactly ==
  "start" \notin past /\ torn = 0 => schema = Built(revision)

ParentsPresent ==
  postgres \/ "downgrade" \notin past =>
    \A r \in Rules(schema) : There(schema, r.parent)

LacksKnown ==
  revision = Newest /\ past = {"start"} /\ torn = 0 =>
    \A t \in AllTables : {t} \X (Declared[t] \ schema[t])
                           = {f \in Unmigrated : f[1] = t}

RulesAgree ==
  UNION {Upgrades[i][j].refs : <<i, j>> \in {p \in (1 .. Newest) \X (1 .. 27) :
                                               p[2] <= Len(Upgrades[p[1]])}}
    = DeclaredRules \ LateRule

(* The revisions and the declared models tell of the same tables and the   *)
(* same foreign keys, but for that of an invoice's source.  A database     *)
(* that only Alembic wrote is what its revision says, through upgrades and *)
(* downgrades.  A command that ends early, at any statement, with or       *)
(* without a start before or after it, leaves no table without one it      *)
(* refers to.  And a database that is migrated to the newest revision and  *)
(* then started lacks exactly the columns listed in Unmigrated, among them *)
(* those that every login reads.                                           *)
SchemaAccounted == RulesAgree /\ MigratedExactly /\ ParentsPresent /\ LacksKnown
=============================================================================
