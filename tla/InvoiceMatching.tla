--------------------------- MODULE InvoiceMatching ---------------------------
(***************************************************************************)
(* The match of an invoice with the bookings that are open                 *)
(* (backend/domain/invoice_matching.py, backend/routers/invoices.py): an   *)
(* answer that is computed afresh from all bookings and not stored.        *)
(***************************************************************************)
EXTENDS Money

CONSTANTS
  BookingDays,    (* days of bookings                                      *)
  BookingAmounts, (* amounts of bookings; money that went out is below 0   *)
  MaxEntries,     (* bound on the bookings                                 *)
  Invoices        (* gross amounts of invoices, of credit notes below 0    *)

ASSUME MatchingAssumption ==
  /\ BookingDays \subseteq Nat /\ BookingAmounts \subseteq Int
  /\ MaxEntries \in Nat /\ Invoices \subseteq Int

VARIABLE bookings  (* the bookings of all accounts, in the store's order   *)

Booking == [day : BookingDays, amount : BookingAmounts, open : BOOLEAN]

MatchingInit == bookings = <<>>

EnterBooking ==
  /\ Len(bookings) < MaxEntries
  /\ \E b \in Booking : bookings' = Append(bookings, b)

PatchBooking ==
  \E i \in DOMAIN bookings, b \in Booking : bookings' = [bookings EXCEPT ![i] = b]

DeleteBooking ==
  \E i \in DOMAIN bookings :
    bookings' = SubSeq(bookings, 1, i - 1) \o SubSeq(bookings, i + 1, Len(bookings))

MatchingNext == EnterBooking \/ PatchBooking \/ DeleteBooking
-----------------------------------------------------------------------------
\* match_invoice_to_bookings: what went out and is open, by day.
Unsettled == {i \in DOMAIN bookings : bookings[i].amount < 0 /\ bookings[i].open}

Candidates ==
  ByDay([i \in Unsettled |-> [day |-> bookings[i].day, amount |-> -bookings[i].amount]],
        Unsettled)

Refusal == [refused |-> TRUE, amounts |-> <<>>, unmatched |-> 0]

\* Variant: the invoice's whole amount is offered to every booking.
MatchWhole(gross, rows) ==
  LET amounts == [i \in DOMAIN rows |-> Smaller(gross, rows[i].amount)]
  IN  IF gross < 0 THEN Refusal
      ELSE [refused |-> FALSE, amounts |-> amounts, unmatched |-> Positive(gross - SumOf(amounts))]

\* allocate_fifo: an invoice is matched with bookings until it is used up.
\* What is left of it after the first i bookings gives what each is to pay.
\* An amount below 0 is refused before (_to_money).
Match(gross, rows) ==
  LET left[i \in 0 .. Len(rows)] ==
        IF i = 0 THEN gross
        ELSE LET before == left[i - 1]
                 amount == Smaller(before, rows[i].amount)
             IN  IF before = 0 \/ amount <= 0 THEN before ELSE before - amount
  IN  IF gross < 0 THEN Refusal
      ELSE [refused   |-> FALSE,
            amounts   |-> [i \in 1 .. Len(rows) |-> left[i - 1] - left[i]],
            unmatched |-> left[Len(rows)]]
=============================================================================
