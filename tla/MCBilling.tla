------------------------------ MODULE MCBilling ------------------------------
(* Instances of the billing workflow for TLC.                              *)
EXTENDS BillingProperties, TLC

\* Row ids, items and workers are interchangeable: sound for safety runs.
RowSymmetry == Permutations(Statements) \cup Permutations(Items)
                 \cup Permutations(Periods) \cup Permutations(Contracts)
                 \cup Permutations(Workers)
=============================================================================
