-------------------------- MODULE EngineProperties ---------------------------
(* What the engines promise, alone and to one another.  They share no      *)
(* state: a behaviour moves the cost allocation, the account of a tenant,  *)
(* the data of a billing period or the bookings an invoice is matched with.*)
EXTENDS CostAllocation, Dunning, InvoiceMatching, Preflight

vars == <<engine, account, bookings, period>>

Init == EngineInit /\ AccountInit /\ MatchingInit /\ PeriodInit

Next ==
  \/ /\ EngineNext /\ AccountInit /\ MatchingInit /\ PeriodInit
     /\ UNCHANGED <<account, bookings, period>>
  \/ /\ AccountNext /\ EngineInit /\ MatchingInit /\ PeriodInit
     /\ UNCHANGED <<engine, bookings, period>>
  \/ /\ MatchingNext /\ EngineInit /\ AccountInit /\ PeriodInit
     /\ UNCHANGED <<engine, account, period>>
  \/ /\ PeriodNext /\ EngineInit /\ AccountInit /\ MatchingInit
     /\ UNCHANGED <<engine, account, bookings>>

Spec == Init /\ [][Next]_vars

(* Not a cent of a cost is lost or invented: the statements together hold  *)
(* the costs that have a share at all, less the advances of those billed.  *)
CostsExact ==
  LET statements == Generate
      list == [c \in Stated |-> statements[c].balance + advances[c]]
  IN  SumOf(list) = SumOf([n \in Billed |-> costs[n].amount])

(* The remainder the last contract takes is rounding and nothing else: a   *)
(* portion is within half a cent of the exact one, and the last within     *)
(* half a cent for each portion before it.                                 *)
FairShares ==
  \A n \in Billed : LET cost == costs[n] list == shares[cost.key] IN
    \A i \in DOMAIN list :
      LET off   == Portions(cost)[i] * TotalShare(cost.key) - cost.amount * list[i].value
          slack == TotalShare(cost.key) * (IF i < Len(list) THEN 1 ELSE Len(list) - 1)
      IN  2 * off <= slack /\ -(2 * off) <= slack

(* The accounts the dashboard shows of one debt agree: what the allocation *)
(* leaves, the settlement and its summary, the aging and the plain         *)
(* balance; and every cent paid is on a month or left over.                *)
ViewsAgree ==
  \A allocation \in {Allocation(payments, today)}, lines \in {Report} :
  \A summary \in {Summary(lines)} : LET open == summary.outstanding IN
      /\ open = SumOf(allocation.rows)
      /\ open = Balance.outstanding
      /\ open = summary.expected - summary.total_paid
      /\ allocation.unapplied = Balance.overpaid
      /\ summary.total_paid + allocation.unapplied = SumOf(AmountsOf(payments))
      /\ summary.receivables = summary.paid + summary.open + summary.overdue
      /\ open = Aging(lines, "current") + Aging(lines, "days_1_30") + Aging(lines, "days_31_60")
                + Aging(lines, "days_61_90") + Aging(lines, "days_90_plus")
      /\ Aging(lines, "current")
           = SumOf([i \in {j \in DOMAIN lines : lines[j].status = "open"} |-> lines[i].outstanding])

(* A month that is paid stays paid, in whatever order of their days later  *)
(* bookings are entered and however many months follow.  What may open it  *)
(* again is a change of the rent, which is charged for the months gone by  *)
(* as well, of the contract's days, or of a booking there was already.     *)
PaidMonths(pays, now) == {l.month : l \in {s \in Range(Settlement(pays, now)) : s.status = "paid"}}
PaidStaysPaid ==
  [][\A pays \in {payments'}, now \in {today'} :
       (rent' = rent /\ contract' = contract /\ \A i \in DOMAIN payments :
                                                  i \in DOMAIN pays /\ pays[i] = payments[i])
         => PaidMonths(payments, today) \subseteq PaidMonths(pays, now)]_account

(* The campaign claims what the settlement shows overdue, no less and no   *)
(* more and each month once: with the level whose limit of days its own    *)
(* due day has passed, and no later one, with the fee of that level, and   *)
(* with the package of its notice over that debt and that fee.             *)
OfItsMonth(claim, package, line) ==
  LET late == today - line.due IN
  /\ claim.month = line.month /\ claim.principal = line.outstanding
  /\ claim.level \in 1 .. 3 /\ \A k \in 1 .. 3 : k <= claim.level <=> AfterDays[k] <= late
  /\ claim.fee = Fees[claim.level]
  /\ package.month = line.month /\ package.claim = line.outstanding + Fees[claim.level]
ClaimsOverdue(lines, claims, campaign, packages) ==
  LET overdue == {i \in DOMAIN lines : lines[i].status = "overdue"} IN
  /\ campaign.total_principal = SumOf([i \in overdue |-> lines[i].outstanding])
  /\ campaign.total_claim = SumOf([n \in DOMAIN packages |-> packages[n].claim])
  /\ {claims[n].month : n \in DOMAIN claims} = {lines[i].month : i \in overdue}
  /\ Cardinality(DOMAIN claims) = Cardinality(overdue)
  /\ \A n \in DOMAIN claims : \E i \in overdue : OfItsMonth(claims[n], packages[n], lines[i])
CampaignClaims ==
  \A lines \in {Report} : \A claims \in {Claims(Batch(lines))} :
  \A campaign \in {Campaign(claims)}, packages \in {Packages(Campaign(claims))} :
    ClaimsOverdue(lines, claims, campaign, packages)

(* The preflight and generate, which judge the same data each in its own   *)
(* words, differ in one case only: a consumption key, and readings for     *)
(* some of the units.  There the preflight is content and generate is not. *)
SomeUnread ==
  "consumption" \in items /\ \E f \in Lived : Consumption(f) = 0
PreflightAgrees == Refused <=> (Blockers # {} \/ SomeUnread)

(* The matching of an invoice and the allocation of a payment, written     *)
(* twice, agree: an invoice goes to open bookings as a payment would go to *)
(* receivables, and what is left of it is what all the bookings together   *)
(* cannot cover.  A credit note is refused (invoice_matching.py:11).       *)
MatchAgrees ==
  \A gross \in Invoices :
    LET match == Match(gross, Candidates)
        same  == Fifo(AmountsOf(Candidates), <<gross>>)
        open  == SumOf([i \in Unsettled |-> -bookings[i].amount])
    IN  IF gross < 0 THEN match.refused
        ELSE /\ ~match.refused
             /\ match.amounts = same.paid[1] /\ match.unmatched = same.unapplied
             /\ match.unmatched = Positive(gross - open)
=============================================================================
