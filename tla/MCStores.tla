------------------------------ MODULE MCStores ------------------------------
(* The areas of the application, each with the master data it refers to.   *)
(* Apart from them, with no rows at all, the history of a database's       *)
(* tables: a behaviour is one of calls or one of commands.                 *)
EXTENDS StoreProperties, SchemaHistory

Master == {"portfolio", "property", "unit", "tenant", "contract"}

MCAreas ==
  {{"portfolio", "property", "unit", "tenant", "account", "category", "booking"},
   Master \cup {"receivable", "invoice", "rent_adjustment", "rent_charge"},
   Master \cup {"maintenance", "document", "calendar"},
   {"portfolio", "property", "unit", "task", "insurance", "budget", "entity_photo"},
   {"portfolio", "property", "unit", "listing", "photo", "lead", "viewing"},
   Master \cup {"period", "statement", "receivable"},
   {"portfolio", "property", "period", "key", "cost_item", "document"},
   Master \cup {"deposit", "handover", "reading"},
   {"portfolio", "property", "unit", "meter", "meter_value", "thread", "message"},
   PlainKinds,
   {}}

MCInit == Init /\ SchemaInit /\ (Present = {} \/ postgres)
MCNext == \/ Next /\ UNCHANGED schemaVars
          \/ Present = {} /\ SchemaNext /\ UNCHANGED vars
MCSpec == MCInit /\ [][MCNext]_<<vars, schemaVars>>
=============================================================================
