---------------------------- MODULE StoreTables -----------------------------
(***************************************************************************)
(* The kinds of rows the application keeps, how they refer to one another, *)
(* and what the two stores it can run on do about it: SQLAlchemyStore      *)
(* (backend/repositories over backend/db/orm_models.py), which relies on   *)
(* foreign keys, and InMemoryStore (backend/storage.py), which does the    *)
(* same by hand.  One definition for each stretch of the sources; a kind   *)
(* has at most one reference to another kind, so a reference is named by   *)
(* the two.                                                                *)
(*                                                                         *)
(* Users, tokens and logs are in SchemaHistory: the stores do not hold     *)
(* them.  What a notification is about is a text nobody looks up.          *)
(***************************************************************************)

Link(child, parents, rule) ==
  {[child |-> child, parent |-> p, rule |-> rule] : p \in parents}

Pairs(child, parents) == {child} \X parents
-----------------------------------------------------------------------------
(* The database schema.  A delete of the parent takes the row along        *)
(* ("cascade"), empties the column ("null") or is refused ("block"); a     *)
(* column that is no foreign key ("soft") is not looked at.                *)

MasterTables ==
  Link("property", {"portfolio"}, "cascade")
  \cup Link("unit", {"property"}, "cascade")
  \cup Link("contract", {"property", "unit", "tenant"}, "cascade")

LedgerTables ==
  Link("account", {"portfolio"}, "cascade")
  \cup Link("category", {"portfolio"}, "cascade")
  \cup Link("booking", {"account"}, "cascade")
  \cup Link("booking", {"category", "property", "unit", "tenant"}, "null")
  \cup Link("receivable", {"contract"}, "cascade")
  \cup Link("receivable", {"statement"}, "soft")
  \cup Link("invoice", {"property", "document"}, "null")

FileTables ==
  Link("maintenance", {"property"}, "cascade")
  \cup Link("maintenance", {"unit"}, "null")
  \cup Link("document", {"property", "unit", "contract"}, "null")
  \cup Link("task", {"property", "unit", "task"}, "null")
  \cup Link("calendar", {"property", "unit"}, "null")

LettingTables ==
  Link("listing", {"unit"}, "cascade")
  \cup Link("photo", {"listing"}, "cascade")
  \cup Link("lead", {"listing", "unit"}, "null")
  \cup Link("viewing", {"lead", "unit"}, "cascade")

BillingTables ==
  Link("period", {"property"}, "cascade")
  \cup Link("key", {"property"}, "cascade")
  \cup Link("cost_item", {"period", "key"}, "cascade")
  \cup Link("cost_item", {"document"}, "soft")
  \cup Link("statement", {"period", "contract", "unit"}, "cascade")
  \cup Link("deposit", {"contract"}, "cascade")

TenancyTables ==
  Link("rent_adjustment", {"contract"}, "block")
  \cup Link("handover", {"contract", "unit"}, "block")
  \cup Link("reading", {"handover"}, "cascade")
  \cup Link("budget", {"property"}, "block")

InsuranceTable ==
  Link("insurance", {"property"}, "cascade")
  \cup Link("insurance", {"unit"}, "null")

MeterTables ==
  Link("meter", {"unit"}, "block")
  \cup Link("meter_value", {"meter"}, "cascade")
  \cup Link("thread", {"property", "unit", "contract"}, "soft")
  \cup Link("message", {"thread"}, "cascade")
  \cup Link("rent_charge", {"contract"}, "block")

\* A photo names a property or a unit in a text.
PhotoTable == Link("entity_photo", {"property", "unit"}, "soft")

\* Tables without references.
NoticeTables == {"notification", "notification_template", "tax_rate"}
RuleTable    == {"escalation_rule"}
ContactTable == {"contact"}
PlainKinds   == NoticeTables \cup RuleTable \cup ContactTable

Tables == MasterTables \cup LedgerTables \cup FileTables \cup LettingTables
          \cup BillingTables \cup TenancyTables \cup InsuranceTable \cup MeterTables
          \cup PhotoTable

Kinds       == {r.child : r \in Tables} \cup {"portfolio", "tenant"} \cup PlainKinds
ParentsOf   == [k \in Kinds |-> {r.parent : r \in {s \in Tables : s.child = k}}]
ForeignKeys == [k \in Kinds |-> {r \in Tables : r.child = k /\ r.rule # "soft"}]

Linked(rule)  == {<<r.child, r.parent>> : r \in {s \in Tables : s.rule = rule}}
Cascading     == Linked("cascade")
Nullable      == Linked("null")
Blocking      == Linked("block")
-----------------------------------------------------------------------------
(* The schemas of the request bodies: the references a create or update    *)
(* must give (needs) or may leave out (may), those a patch may set         *)
(* (patch), and the kinds whose rows hold something no body gives (own).   *)

Body(needs, may, patch, own) == [needs |-> needs, may |-> may, patch |-> patch, own |-> own]

MasterBodies ==
  Body(Pairs("property", {"portfolio"}) \cup Pairs("unit", {"property"})
         \cup Pairs("contract", {"property", "unit", "tenant"})
         \cup {"account", "category"} \X {"portfolio"}, {}, {}, {})

LedgerBodies ==
  Body(Pairs("booking", {"account"}) \cup Pairs("receivable", {"contract"}),
       Pairs("booking", {"category", "property", "unit", "tenant"})
         \cup Pairs("receivable", {"statement"}) \cup Pairs("invoice", {"property"}),
       {}, {})

FileBodies ==
  Body(Pairs("maintenance", {"property"}),
       Pairs("maintenance", {"unit"}) \cup Pairs("document", {"property", "unit", "contract"})
         \cup Pairs("task", {"property", "unit", "task"})
         \cup Pairs("calendar", {"property", "unit"}), {}, {})

ListingBodies == Body(Pairs("listing", {"unit"}) \cup Pairs("photo", {"listing"}), {}, {}, {})

MasterPatches ==
  Pairs("property", {"portfolio"}) \cup Pairs("unit", {"property"})
  \cup Pairs("contract", {"property", "unit", "tenant"})
  \cup {"account", "category"} \X {"portfolio"}

LedgerPatches ==
  Pairs("booking", {"account", "category", "property", "unit", "tenant"})
  \cup Pairs("receivable", {"contract", "statement"}) \cup Pairs("invoice", {"property"})
  \cup Pairs("maintenance", {"property", "unit"})
  \cup Pairs("document", {"property", "unit", "contract"})
  \cup Pairs("task", {"property", "unit", "task"})
  \cup Pairs("calendar", {"property", "unit"})
  \cup Pairs("listing", {"unit"}) \cup Pairs("photo", {"listing"})

LettingBodies ==
  Body(Pairs("viewing", {"lead", "unit"}), Pairs("lead", {"listing", "unit"}),
       Pairs("viewing", {"lead", "unit"}) \cup Pairs("lead", {"listing", "unit"}), {})

BillingBodies ==
  LET refs == {"period", "key"} \X {"property"} \cup Pairs("cost_item", {"period", "key"})
              \cup Pairs("statement", {"period", "contract", "unit"})
      source == Pairs("cost_item", {"document"})
  IN  Body(refs, source, refs \cup source, {})

DepositBodies == Body(Pairs("deposit", {"contract"}), {}, Pairs("deposit", {"contract"}), {})

\* When a notification was read is no part of its body.
NoticeBodies == Body({}, {}, {}, {"notification"})

TenancyBodies ==
  LET refs == Pairs("rent_adjustment", {"contract"}) \cup Pairs("reading", {"handover"})
              \cup Pairs("handover", {"contract", "unit"})
  IN  Body(refs, {}, refs, {})

BudgetBodies == Body(Pairs("budget", {"property"}), {}, Pairs("budget", {"property"}), {})

MeterBodies ==
  LET refs == Pairs("meter", {"unit"}) \cup Pairs("meter_value", {"meter"})
  IN  Body(refs \cup Pairs("insurance", {"property"}), Pairs("insurance", {"unit"}), refs, {})

\* How many messages a thread has is no part of its body.
MessageBodies ==
  LET about == Pairs("thread", {"property", "unit", "contract"})
  IN  Body(Pairs("message", {"thread"}), about, about, {"thread"})

ChargeBodies ==
  Body(Pairs("rent_charge", {"contract"}), Pairs("entity_photo", {"property", "unit"}),
       Pairs("rent_charge", {"contract"}) \cup Pairs("insurance", {"property", "unit"}), {})

Bodies == {MasterBodies, LedgerBodies, FileBodies, ListingBodies, LettingBodies,
           BillingBodies, DepositBodies, NoticeBodies, TenancyBodies, BudgetBodies,
           MeterBodies, MessageBodies, ChargeBodies}

Required == UNION {b.needs : b \in Bodies}
Optional == UNION {b.may : b \in Bodies}
Owning   == UNION {b.own : b \in Bodies}
Patches  == MasterPatches \cup LedgerPatches \cup UNION {b.patch : b \in Bodies}
-----------------------------------------------------------------------------
(* The calls the stores offer, <<kind, call>>.                             *)

MasterCalls  == {"portfolio", "account", "category", "property", "unit", "tenant",
                 "contract"} \X {"create", "update", "delete"}
LedgerCalls  == {"booking", "receivable", "invoice", "maintenance", "document",
                 "task", "calendar"} \X {"create", "update", "delete"}
LettingCalls == {"listing", "photo", "lead", "viewing", "period", "key", "cost_item",
                 "statement", "deposit"} \X {"create", "update", "delete"}
TenancyCalls == {"rent_adjustment", "handover", "reading", "budget"}
                  \X {"create", "update", "delete"}
\* A message is never updated.
MeterCalls   == ({"meter", "meter_value", "thread", "rent_charge"}
                   \X {"create", "update", "delete"})
                \cup Pairs("message", {"create", "delete"})

NoticeCalls  == {"notification", "notification_template", "tax_rate"}
                  \X {"create", "update", "delete"}
RuleCalls    == Pairs("escalation_rule", {"create", "update", "delete"})
\* A photo is never updated.
ContactCalls == ({"insurance", "contact"} \X {"create", "update", "delete"})
                \cup Pairs("entity_photo", {"create", "delete"})

StoreCalls == MasterCalls \cup LedgerCalls \cup LettingCalls \cup TenancyCalls
              \cup MeterCalls \cup NoticeCalls \cup RuleCalls \cup ContactCalls
Offers(kind, call) == <<kind, call>> \in StoreCalls

\* The kinds a patch finds by their name, in the two stores.
SqlPatches ==
  {"portfolio", "property", "unit", "account", "category", "tenant", "contract",
   "viewing", "handover", "lead", "deposit", "rent_adjustment", "reading", "booking",
   "receivable", "invoice", "tax_rate", "budget", "escalation_rule", "insurance",
   "rent_charge", "meter", "meter_value", "period", "key", "cost_item", "statement",
   "document", "entity_photo", "task", "calendar", "notification",
   "notification_template", "contact", "thread", "message", "maintenance", "listing",
   "photo"}
MemoryPatches ==
  {"portfolio", "property", "unit", "tenant", "contract", "account", "category",
   "booking", "receivable", "invoice", "maintenance", "document", "task", "calendar",
   "listing", "photo", "lead", "viewing", "period", "key", "cost_item", "statement",
   "deposit", "notification", "notification_template", "tax_rate", "rent_adjustment",
   "handover", "reading", "budget", "escalation_rule", "insurance", "entity_photo",
   "contact", "meter", "meter_value", "thread", "message", "rent_charge"}

\* The references a patch of a row may set.
Patchable(kind) == {p \in ParentsOf[kind] : <<kind, p>> \in Patches}
-----------------------------------------------------------------------------
(* The parents a repository looks up before it creates, and before it      *)
(* updates, a row: <<child, parent>>.                                      *)

PortfolioRepo ==
  Pairs("property", {"portfolio"}) \cup Pairs("unit", {"property"})
  \cup Pairs("account", {"portfolio"}) \cup Pairs("category", {"portfolio"})

ContractRepo == Pairs("contract", {"property", "unit", "tenant"})
                \cup Pairs("viewing", {"lead", "unit"})

\* The update of a handover or rent adjustment looks nothing up.
TenantRepoCreate ==
  Pairs("handover", {"contract", "unit"}) \cup Pairs("rent_adjustment", {"contract"})
TenantRepo ==
  Pairs("reading", {"handover"}) \cup Pairs("deposit", {"contract"})
  \cup Pairs("lead", {"listing", "unit"})

LedgerRepo ==
  Pairs("booking", {"account", "category", "property", "unit", "tenant"})
  \cup Pairs("receivable", {"contract"}) \cup Pairs("invoice", {"property"})

\* Rent charges, meters and their values are not checked at all.
BudgetRepoCreate == Pairs("budget", {"property"}) \cup Pairs("insurance", {"property"})

\* Variant: the statement's contract is not looked up.
BillingRepoShort ==
  Pairs("period", {"property"}) \cup Pairs("key", {"property"})
  \cup Pairs("cost_item", {"period", "key"})
  \cup Pairs("statement", {"period", "unit"})

BillingRepo ==
  Pairs("period", {"property"}) \cup Pairs("key", {"property"})
  \cup Pairs("cost_item", {"period", "key"})
  \cup Pairs("statement", {"period", "contract", "unit"})

CalendarRepo    == Pairs("task", {"property", "unit"}) \cup Pairs("calendar", {"property", "unit"})
DocumentRepo    == Pairs("document", {"property", "unit", "contract"})
MarketingRepo   == Pairs("listing", {"unit"}) \cup Pairs("photo", {"listing"})
MaintenanceRepo == Pairs("maintenance", {"property", "unit"})

RepoUpdate == PortfolioRepo \cup ContractRepo \cup TenantRepo \cup LedgerRepo
              \cup BillingRepo \cup CalendarRepo \cup DocumentRepo
              \cup MarketingRepo \cup MaintenanceRepo
RepoChecks == [create |-> RepoUpdate \cup TenantRepoCreate \cup BudgetRepoCreate,
               update |-> RepoUpdate]
-----------------------------------------------------------------------------
(* The in-memory store: the parents it looks up, and the children its      *)
(* deletes take along, <<child, parent>>.                                  *)

MemoryPortfolios ==
  [checks |-> Pairs("account", {"portfolio"}) \cup Pairs("category", {"portfolio"}),
   drops  |-> {"property", "account", "category"} \X {"portfolio"}
              \cup Pairs("booking", {"account"})]

MemoryProperties ==
  [checks |-> Pairs("property", {"portfolio"}) \cup Pairs("unit", {"property"}),
   drops  |-> {"unit", "contract", "booking", "invoice", "maintenance",
               "document", "task", "calendar"} \X {"property"}
              \cup {"contract", "booking", "maintenance", "document", "task",
                    "calendar", "listing"} \X {"unit"}]

\* Variant: the contracts of a tenant are forgotten.
MemoryTenanciesShort ==
  [checks |-> Pairs("contract", {"property", "unit", "tenant"}),
   drops  |-> {"booking"} \X {"tenant"}]

MemoryTenancies ==
  [checks |-> Pairs("contract", {"property", "unit", "tenant"}),
   drops  |-> {"contract", "booking"} \X {"tenant"}]

MemoryDeleteContract == {"receivable", "document"} \X {"contract"}

MemoryLedger ==
  [checks |-> Pairs("booking", {"account", "category", "property", "unit", "tenant"})
              \cup Pairs("receivable", {"contract"}) \cup Pairs("invoice", {"property"}),
   drops  |-> {}]

MemoryFiles ==
  [checks |-> Pairs("maintenance", {"property", "unit"})
              \cup Pairs("document", {"property", "unit", "contract"})
              \cup Pairs("task", {"property", "unit"})
              \cup Pairs("calendar", {"property", "unit"}),
   drops  |-> {}]

\* Variant: the photos of a listing stay.
MemoryLettingShort ==
  [checks |-> Pairs("listing", {"unit"}) \cup Pairs("photo", {"listing"})
              \cup Pairs("lead", {"listing", "unit"}) \cup Pairs("viewing", {"lead", "unit"}),
   drops  |-> Pairs("viewing", {"lead"})]

MemoryLetting ==
  [checks |-> Pairs("listing", {"unit"}) \cup Pairs("photo", {"listing"})
              \cup Pairs("lead", {"listing", "unit"}) \cup Pairs("viewing", {"lead", "unit"}),
   drops  |-> Pairs("photo", {"listing"}) \cup Pairs("viewing", {"lead"})]

MemoryBilling ==
  [checks |-> Pairs("period", {"property"}) \cup Pairs("key", {"property"})
              \cup Pairs("cost_item", {"period", "key"}),
   drops  |-> {"cost_item", "statement"} \X {"period"} \cup Pairs("cost_item", {"key"})]

MemoryStatements ==
  [checks |-> Pairs("statement", {"period", "contract", "unit"})
              \cup Pairs("deposit", {"contract"}),
   drops  |-> {}]

\* Their updates look nothing up.
MemoryHandovers ==
  [checks |-> Pairs("rent_adjustment", {"contract"})
              \cup Pairs("handover", {"contract", "unit"})
              \cup Pairs("reading", {"handover"}) \cup Pairs("budget", {"property"}),
   drops  |-> Pairs("reading", {"handover"})]

\* The values of a meter stay when it goes.
MemoryMeters     == [checks |-> {}, drops |-> Pairs("message", {"thread"})]
MemoryInsurances == [checks |-> Pairs("insurance", {"property"}), drops |-> {}]

\* The calls on kinds whose parents it neither looks up nor follows.
MemoryNotices  == {"notification", "notification_template"} \X {"create", "update", "delete"}
MemoryRates    == Pairs("tax_rate", {"create", "update", "delete"})
MemoryRules    == Pairs("escalation_rule", {"create", "update", "delete"})
MemoryContacts == Pairs("contact", {"create", "update", "delete"})
MemoryPhotos   == Pairs("entity_photo", {"create", "delete"})

MemoryOffers(kind, call) ==
  kind \in PlainKinds \cup {"entity_photo"} =>
    <<kind, call>> \in MemoryNotices \cup MemoryRates \cup MemoryRules
                      \cup MemoryContacts \cup MemoryPhotos

MemorySections == {MemoryPortfolios, MemoryProperties, MemoryTenancies, MemoryLedger,
                   MemoryFiles, MemoryLetting, MemoryBilling, MemoryStatements}
LooseSections  == {MemoryHandovers, MemoryMeters, MemoryInsurances}

MemoryUpdate == UNION {s.checks : s \in MemorySections}
MemoryChecks == [create |-> MemoryUpdate \cup UNION {s.checks : s \in LooseSections},
                 update |-> MemoryUpdate]
MemoryDrops  == MemoryDeleteContract
                \cup UNION {s.drops : s \in MemorySections \cup LooseSections}

\* A deleted category is taken out of its bookings.
MemoryUnlinks == Pairs("booking", {"category"})
=============================================================================
