------------------------------- MODULE Dunning -------------------------------
(***************************************************************************)
(* The dunning campaign for the receivables of a contract that are not     *)
(* paid (backend/domain/dunning_engine.py).                                *)
(***************************************************************************)
EXTENDS TenantAccount

CONSTANTS
  AfterDays,  (* days after which the levels 1, 2 and 3 are reached        *)
  Fees,       (* the fees of the levels                                    *)
  Deadline    (* payment_deadline_days                                     *)

ASSUME DunningAssumption ==
  /\ AfterDays \in [1 .. 3 -> Nat] /\ Fees \in [1 .. 3 -> Nat]
  /\ AfterDays[1] <= AfterDays[2] /\ AfterDays[2] <= AfterDays[3]
  /\ Deadline \in Nat \ {0}

\* Variant: the day level 2 is reached does not count.
LevelTwoLate(overdue) ==
  CASE overdue >= AfterDays[3] -> 3
    [] overdue < AfterDays[3] /\ overdue > AfterDays[2] -> 2
    [] overdue <= AfterDays[2] /\ overdue < AfterDays[3] /\ overdue >= AfterDays[1] -> 1
    [] OTHER -> 0

Level(overdue) ==
  CASE overdue >= AfterDays[3] -> 3
    [] overdue < AfterDays[3] /\ overdue >= AfterDays[2] -> 2
    [] overdue < AfterDays[2] /\ overdue >= AfterDays[1] -> 1
    [] OTHER -> 0

\* recommend_notice.  No level is remembered: every campaign starts at 0.
Decision(line) ==
  [month       |-> line.month,
   overdue     |-> Positive(today - line.due),
   outstanding |-> line.outstanding,
   level       |-> Level(today - line.due)]

\* build_batch: the highest level first, and the oldest first in a level.
Before(a, b) ==
  a.level > b.level \/ (a.level = b.level /\ a.overdue > b.overdue)

Batch(lines) ==
  LET unpaid  == {i \in DOMAIN lines : lines[i].outstanding > 0}
      decided == [i \in unpaid |-> Decision(lines[i])]
      order   == [i \in unpaid |->
                    {j \in unpaid : \/ Before(decided[j], decided[i])
                                    \/ ~Before(decided[i], decided[j]) /\ j <= i}]
      places  == Sorted(unpaid, order)
  IN  [n \in 1 .. Cardinality(unpaid) |-> decided[places[n]]]

\* build_campaign; a line has the number of its decision.
Claims(decisions) ==
  [n \in {m \in DOMAIN decisions : decisions[m].level > 0} |->
     LET d == decisions[n]
     IN  [month |-> d.month, level |-> d.level, principal |-> d.outstanding,
          fee |-> Fees[d.level], claim |-> d.outstanding + Fees[d.level]]]

Campaign(claims) ==
  LET principal == SumOf([n \in DOMAIN claims |-> claims[n].principal])
      fees      == SumOf([n \in DOMAIN claims |-> claims[n].fee])
  IN  [lines |-> claims, total_principal |-> principal, total_fees |-> fees,
       total_claim |-> principal + fees]

\* build_notice_packages finds the line of a draft by its receivable.
Packages(campaign) ==
  [n \in DOMAIN campaign.lines |->
     LET month == campaign.lines[n].month
         line  == CHOOSE l \in Range(campaign.lines) : l.month = month
     IN  [month |-> month, due |-> today + Deadline, claim |-> line.claim]]
=============================================================================
