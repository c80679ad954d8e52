--------------------------- MODULE AuthProperties ----------------------------
(* What logins and logouts promise across restarts and failing databases.  *)
EXTENDS AuthSessions

(* A token whose revocation was answered is refused until it expires, after*)
(* a restart, an eviction and a clean-up too; only the database can break  *)
(* that, by refusing the row of the revocation, or the look at it.         *)
RefusedOnceAnswered ==
  [][\A r \in Requests :
       req[r].pc = "decode" /\ req'[r].pc = "revoke"
         => \/ req[r].token \notin answered
            \/ req[r].token \in unsaved
            \/ faults' > faults]_vars

(* While the database works, no more passwords are found wrong within the  *)
(* window than the limit allows, but for the handlers that were past the   *)
(* check before the last of them was recorded; restarts grant no more.     *)
AttemptsBounded ==
  faults = 0 => \A u \in Users :
    Cardinality(Of(u)) <= MaxAttempts + Cardinality(Requests) - 1

(* A locked account is open again after a while, however often its user    *)
(* tries meanwhile.                                                        *)
LockEnds == \A u \in Users : Locked(u) ~> ~Locked(u)
=============================================================================
