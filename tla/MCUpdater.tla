------------------------------ MODULE MCUpdater ------------------------------
(* The instance of the updater that TLC checks. *)
EXTENDS UpdaterProperties
LOCAL INSTANCE TLC

MCSymmetry == Permutations(Requests)
=============================================================================
