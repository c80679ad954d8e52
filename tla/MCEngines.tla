------------------------------ MODULE MCEngines ------------------------------
(* The instance of the engines that TLC checks. *)
EXTENDS EngineProperties
LOCAL INSTANCE TLC

CONSTANTS c1, c2, c3, k1, k2, f1, f2

MCAmounts   == {-1, 5}
MCInvoices  == {-1, 0, 1, 3, 6}
MCBookings  == {-3, -1, 2}
MCAfterDays == <<1, 14, 30>>
At(d, v) == [day |-> d, value |-> v]

\* A meter that rises, one that was exchanged, one read again after the
\* period, and one with a reading entered after the next.
MCHistories ==
  {<<>>, <<At(1, 1)>>, <<At(1, 1), At(2, 3)>>, <<At(1, 1), At(2, 0)>>,
   <<At(1, 1), At(9, 9)>>, <<At(2, 3)>>, <<At(2, 3), At(1, 1)>>}
MCFees      == <<1, 2, 3>>
MCSymmetry  == Permutations(Contracts) \cup Permutations(Keys)
               \cup Permutations(Flats)
=============================================================================
