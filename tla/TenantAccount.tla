---------------------------- MODULE TenantAccount ----------------------------
(***************************************************************************)
(* The account of one contract, as the lease engine computes it afresh for *)
(* every request from the contract, the rent its unit has now and the      *)
(* tenant's bookings (backend/domain/lease_engine.py, routers/contracts).  *)
(*                                                                         *)
(* Abstractions.  Days are counted from the first of a month, and every    *)
(* month has MonthDays of them; the three parts of the rent are one.       *)
(***************************************************************************)
EXTENDS Money

CONSTANTS
  MonthDays,   (* days of a month                                          *)
  DueDay,      (* the day of the month the rent is due                     *)
  Starts,      (* days a contract may start                                *)
  Ends,        (* days it may end, or None                                 *)
  Rents,       (* rents                                                    *)
  Payments,    (* amounts of bookings                                      *)
  MaxBookings, (* bound on the bookings                                    *)
  Days,        (* the days that are looked at                              *)
  None

ASSUME AccountAssumption ==
  /\ MonthDays \in Nat \ {0} /\ DueDay \in 1 .. MonthDays
  /\ Starts \subseteq Nat /\ Ends \subseteq Nat \cup {None}
  /\ Rents \subseteq Nat /\ Payments \subseteq Nat \ {0}
  /\ MaxBookings \in Nat /\ Days \subseteq Nat /\ 0 \in Days

VARIABLES
  contract,  (* start_date and end_date, or None                           *)
  rent,      (* the rent of the unit                                       *)
  payments,  (* the tenant's bookings, in the order they were entered      *)
  today

account == <<contract, rent, payments, today>>

AccountInit == contract = None /\ rent = 0 /\ payments = <<>> /\ today = 0

\* No contract ends before it starts: ContractCreate and the database's
\* ck_contracts_dates refuse it, the latter also in a patch.
Terms == {c \in [start : Starts, end : Ends] : c.end = None \/ c.start <= c.end}

Sign ==
  /\ contract = None
  /\ contract' \in Terms
  /\ rent' \in Rents
  /\ UNCHANGED <<payments, today>>

DayPasses ==
  \E day \in Days : /\ contract # None /\ day > today
                    /\ today' = day
                    /\ UNCHANGED <<contract, rent, payments>>

\* A booking is entered, late or ahead of its day: the engine does not look
\* whether a payment has been made yet.
Book ==
  /\ contract # None
  /\ Len(payments) < MaxBookings
  /\ \E day \in Days, amount \in Payments :
       payments' = Append(payments, [day |-> day, amount |-> amount])
  /\ UNCHANGED <<contract, rent, today>>

CorrectBooking ==
  /\ \E i \in DOMAIN payments, day \in Days, amount \in Payments :
       payments' = [payments EXCEPT ![i] = [day |-> day, amount |-> amount]]
  /\ UNCHANGED <<contract, rent, today>>

RemoveBooking ==
  /\ \E i \in DOMAIN payments :
       payments' = SubSeq(payments, 1, i - 1) \o SubSeq(payments, i + 1, Len(payments))
  /\ UNCHANGED <<contract, rent, today>>

\* The unit is given another rent.
ChangeRent ==
  /\ contract # None
  /\ rent' \in Rents \ {rent}
  /\ UNCHANGED <<contract, payments, today>>

\* The contract is given another start or end.
ChangeTerms ==
  /\ contract # None
  /\ contract' \in Terms \ {contract}
  /\ UNCHANGED <<rent, payments, today>>

AccountNext ==
  \/ Sign \/ DayPasses \/ ChangeRent \/ ChangeTerms
  \/ Book \/ CorrectBooking \/ RemoveBooking
-----------------------------------------------------------------------------
Month(day) == day \div MonthDays

\* One receivable for every month begun until the given day, at the rent of
\* today.
Receivables(until) ==
  IF contract = None THEN <<>> ELSE
  LET last  == IF contract.end = None THEN until ELSE Smaller(contract.end, until)
      first == Month(contract.start)
  IN  IF until < contract.start THEN <<>>
      ELSE [i \in 1 .. Month(last) - first + 1 |->
              [month |-> first + i - 1,
               due   |-> (first + i - 1) * MonthDays + DueDay - 1,
               total |-> rent]]

Totals(rows)  == [i \in DOMAIN rows |-> rows[i].total]
AmountsOf(rows) == [i \in DOMAIN rows |-> rows[i].amount]

Balance ==
  LET delta == SumOf(Totals(Receivables(today))) - SumOf(AmountsOf(payments))
  IN  [outstanding |-> Positive(delta), overpaid |-> Positive(-delta)]

\* Variant: the newest receivable is paid first.
SpentNewest(amount, owed) ==
  LET n == Len(owed)
      left[i \in 0 .. n] ==
        IF i = 0 THEN amount
        ELSE LET before == left[i - 1] IN before - Smaller(before, owed[n + 1 - i])
  IN  [i \in 0 .. n |-> IF i = n THEN left[n] ELSE left[n - 1 - i]]

\* How much of a payment a row takes: both have to have something left.
Taken(left, owed) == IF left > 0 /\ owed > 0 THEN Smaller(left, owed) ELSE 0

\* What is left of a payment after the first i rows, which it goes to in
\* their order.
Spent(amount, owed) ==
  LET left[i \in 0 .. Len(owed)] ==
        IF i = 0 THEN amount
        ELSE LET before == left[i - 1] IN before - Taken(before, owed[i])
  IN  left

Allocated(amount, owed) ==
  [i \in 1 .. Len(owed) |-> Taken(Spent(amount, owed)[i - 1], owed[i])]

\* What is owed on each row after the first p payments.
Owed(totals, amounts) ==
  LET owed[p \in 0 .. Len(amounts)] ==
        IF p = 0 THEN totals
        ELSE LET before == owed[p - 1]
                 taken  == Allocated(amounts[p], before)
             IN  [i \in 1 .. Len(totals) |-> before[i] - taken[i]]
  IN  owed

\* allocate_payments_fifo, for receivables in the order they are due: what
\* stays owed, what each payment has paid of each row, and what is left over.
Fifo(totals, amounts) ==
  LET owed == Owed(totals, amounts)
  IN  [rows      |-> owed[Len(amounts)],
       paid      |-> [p \in 1 .. Len(amounts) |-> Allocated(amounts[p], owed[p - 1])],
       unapplied |-> SumOf([p \in 1 .. Len(amounts) |->
                              Spent(amounts[p], owed[p - 1])[Len(totals)]])]

Allocation(pays, now) ==
  Fifo(Totals(Receivables(now)), AmountsOf(ByDay(pays, DOMAIN pays)))

\* build_settlement_report.
Settlement(pays, now) ==
  LET rows  == Receivables(now)
      paid  == Allocation(pays, now).paid
      Paid(month) ==
        SumOf([p \in DOMAIN paid |->
                 SumOf([i \in {j \in DOMAIN rows : rows[j].month = month} |-> paid[p][i]])])
      Line(r) ==
        [month       |-> r.month,
         due         |-> r.due,
         total       |-> r.total,
         paid        |-> Paid(r.month),
         outstanding |-> Positive(r.total - Paid(r.month)),
         status      |-> IF r.total <= Paid(r.month) THEN "paid"
                         ELSE IF now > r.due THEN "overdue" ELSE "open"]
  IN  [i \in DOMAIN rows |-> Line(rows[i])]

Report == Settlement(payments, today)

\* summarize_settlement.
Summary(lines) ==
  LET Count(status) == Cardinality({i \in DOMAIN lines : lines[i].status = status})
  IN  [receivables |-> Len(lines), paid |-> Count("paid"), open |-> Count("open"),
       overdue |-> Count("overdue"),
       expected    |-> SumOf(Totals(lines)),
       total_paid  |-> SumOf([i \in DOMAIN lines |-> lines[i].paid]),
       outstanding |-> SumOf([i \in DOMAIN lines |-> lines[i].outstanding])]

\* Variant: the last limit is lost, and older debt with it.
BucketOfShort(overdue) ==
  CASE overdue <= 0 -> "current" [] overdue \in 1 .. 30 -> "days_1_30"
    [] overdue \in 31 .. 60 -> "days_31_60" [] overdue \in 61 .. 90 -> "days_61_90"
    [] OTHER -> "none"

BucketOf(overdue) ==
  CASE overdue <= 0 -> "current" [] overdue \in 1 .. 30 -> "days_1_30"
    [] overdue \in 31 .. 60 -> "days_31_60" [] overdue \in 61 .. 90 -> "days_61_90"
    [] OTHER -> "days_90_plus"

Aging(lines, bucket) ==
  LET inside == {i \in DOMAIN lines : /\ lines[i].outstanding > 0
                                      /\ BucketOf(today - lines[i].due) = bucket}
  IN  SumOf([i \in inside |-> lines[i].outstanding])
=============================================================================
