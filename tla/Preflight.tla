------------------------------ MODULE Preflight ------------------------------
(***************************************************************************)
(* The data a billing period is generated from, as its owners edit it, and *)
(* the two judges of it in backend/routers/billing.py: the preflight,      *)
(* which lists what would block, and generate, which refuses by itself.    *)
(*                                                                         *)
(* Abstractions.  An area, a number of persons or of rooms is 0 or more;   *)
(* a flat has one meter, and what is read on it follows one of Histories.  *)
(* Foreign keys hold: a contract has its unit, a cost item its key.        *)
(***************************************************************************)
EXTENDS CostAllocation

CONSTANTS
  Flats,      (* the units of the property                                 *)
  Histories,  (* sequences of readings of a meter, closed under prefixes   *)
  PeriodDays, (* the days of the billing period                            *)
  MaxItems    (* bound on the kinds of keys the cost items use             *)

KeyTypes == {"area_sqm", "unit_count", "person_count", "consumption"}

ASSUME PreflightAssumption ==
  /\ <<>> \in Histories /\ Histories \subseteq Seq([day : Nat, value : Nat])
  /\ PeriodDays \subseteq Nat /\ MaxItems \in Nat

VARIABLES
  current,   (* the active contracts whose dates overlap the period, each  *)
             (* with its unit                                              *)
  flats,     (* what the shares of a unit are made of                      *)
  items,     (* the kinds of the keys of the period's cost items           *)
  readings   (* what was read on the meter of each unit, as entered        *)

period == <<current, flats, items, readings>>

PeriodInit ==
  /\ current = <<>>
  /\ flats = [f \in Flats |-> [area_sqm |-> 0, person_count |-> 0, rooms |-> 0]]
  /\ items = {}
  /\ readings = [f \in Flats |-> <<>>]
-----------------------------------------------------------------------------
Begin(c, f) == /\ c \notin DOMAIN current
               /\ current' = [d \in DOMAIN current \cup {c} |-> IF d = c THEN f ELSE current[d]]
               /\ UNCHANGED <<flats, items, readings>>

End(c) == /\ c \in DOMAIN current
          /\ current' = Restrict(current, DOMAIN current \ {c})
          /\ UNCHANGED <<flats, items, readings>>

Enter(f, field) == /\ flats' = [flats EXCEPT ![f][field] = 1 - @]
                   /\ UNCHANGED <<current, items, readings>>

AddItem(type) == /\ Cardinality(items \cup {type}) <= MaxItems
                 /\ items' = items \cup {type}
                 /\ UNCHANGED <<current, flats, readings>>

Read(f) == \E history \in Histories :
             /\ Len(history) = Len(readings[f]) + 1
             /\ readings[f] = SubSeq(history, 1, Len(readings[f]))
             /\ readings' = [readings EXCEPT ![f] = history]
             /\ UNCHANGED <<current, flats, items>>

PeriodNext ==
  \/ \E c \in Contracts, f \in Flats : Begin(c, f)
  \/ \E c \in Contracts : End(c)
  \/ \E f \in Flats, field \in {"area_sqm", "person_count", "rooms"} : Enter(f, field)
  \/ \E type \in KeyTypes : AddItem(type)
  \/ \E f \in Flats : Read(f)
-----------------------------------------------------------------------------
\* _build_consumption_by_unit: the last reading of the period less the first;
\* a single reading, or a meter that went backwards, counts nothing.
Consumption(f) ==
  LET inside == ByDay(readings[f], {i \in DOMAIN readings[f] : readings[f][i].day \in PeriodDays})
  IN  IF Len(inside) < 2 THEN 0 ELSE Positive(inside[Len(inside)].value - inside[1].value)

Persons(f) == IF flats[f].person_count # 0 THEN flats[f].person_count ELSE flats[f].rooms

Lived == Range(current)

\* Variant: persons are not looked at.
BlockersNoPersons ==
  {code \in {"NO_ACTIVE_CONTRACTS", "NO_COST_ITEMS", "MISSING_AREA", "MISSING_CONSUMPTION"} :
     CASE code = "NO_ACTIVE_CONTRACTS" -> current = <<>>
       [] code = "NO_COST_ITEMS"       -> items = {}
       [] code = "MISSING_AREA"        -> "area_sqm" \in items /\ \E f \in Lived : flats[f].area_sqm = 0
       [] code = "MISSING_CONSUMPTION" ->
            "consumption" \in items /\ Lived # {} /\ \A f \in Lived : Consumption(f) = 0}

\* The blockers of _run_billing_period_preflight.  One unit with readings is
\* enough for it.
Blockers ==
  {code \in {"NO_ACTIVE_CONTRACTS", "NO_COST_ITEMS", "MISSING_AREA", "MISSING_PERSON_COUNT",
             "MISSING_CONSUMPTION"} :
     CASE code = "NO_ACTIVE_CONTRACTS"  -> current = <<>>
       [] code = "NO_COST_ITEMS"        -> items = {}
       [] code = "MISSING_AREA"         -> "area_sqm" \in items /\ \E f \in Lived : flats[f].area_sqm = 0
       [] code = "MISSING_PERSON_COUNT" -> "person_count" \in items /\ \E f \in Lived : Persons(f) = 0
       [] code = "MISSING_CONSUMPTION"  ->
            "consumption" \in items /\ Lived # {} /\ \A f \in Lived : Consumption(f) = 0}

\* The share generate registers for a contract under a key of a kind.
Share(c, type) ==
  CASE type = "area_sqm"     -> flats[current[c]].area_sqm
    [] type = "person_count" -> Persons(current[c])
    [] type = "consumption"  -> Consumption(current[c])
    [] type = "unit_count"   -> 1

\* generate_utility_statements answers 400.
Refused ==
  \/ current = <<>>
  \/ items = {}
  \/ \E c \in DOMAIN current, type \in items : Share(c, type) <= 0
=============================================================================
