---------------------------- MODULE AuthSessions -----------------------------
(***************************************************************************)
(* Logins and tokens (backend/auth.py, routers/auth.py) with the state     *)
(* kept twice, in memory and in the database: the failed logins an account *)
(* is locked for, and the tokens that were revoked.  Handlers run in       *)
(* threads; a call to the database may fail, and the code swallows that;   *)
(* a restart keeps the database only.                                      *)
(*                                                                         *)
(* Abstractions.  Time is an age: failures grow older, tokens have time    *)
(* left.  A few tokens and the failures within the window are followed.     *)
(* Access and refresh tokens are treated alike; a user that is inactive or *)
(* gone is a wrong password.  A token has one expiry: the code compares it *)
(* in seconds where it checks the token and to the microsecond where it    *)
(* cleans up its row, and the part of a second between them is left out.   *)
(* The row of a failed login and its entry in memory are one step: the     *)
(* memory is asked only when the database refuses a look at its table.     *)
(***************************************************************************)
EXTENDS Integers, FiniteSets
LOCAL INSTANCE FiniteSetsExt

CONSTANTS
  Requests,     (* handlers at work at the same time                       *)
  Users,        (* accounts                                                *)
  Tokens,       (* tokens followed                                         *)
  Lifetime,     (* how long a token is valid                               *)
  MaxAttempts,  (* MAX_LOGIN_ATTEMPTS                                      *)
  Window,       (* LOCKOUT_DURATION_MINUTES                                *)
  MaxBlacklist, (* _MAX_BLACKLIST_SIZE                                     *)
  MaxFaults,    (* bound on the calls the database refuses                 *)
  Unissued, None

ASSUME AuthAssumption ==
  /\ Lifetime \in Nat /\ MaxAttempts \in Nat \ {0} /\ Window \in Nat \ {0}
  /\ MaxBlacklist \in Nat /\ MaxFaults \in Nat
  /\ Unissued \notin Int
  /\ IsFiniteSet(Requests)

VARIABLES
  failures,  (* failed logins: whose, the age, whether it is in the table  *)
             (* and whether in _login_attempts                            *)
  left,      (* time each token has left; below 0 it has expired           *)
  blacklist, (* _token_blacklist                                           *)
  expiring,  (* the keys of _blacklist_expiry                              *)
  rows,      (* tokens in the table of revoked tokens                      *)
  req,       (* what each handler is about                                 *)
  answered,  (* tokens whose revocation was answered, until they expire    *)
  unsaved,   (* tokens whose revocation the database refused               *)
  faults     (* calls the database has refused                             *)

vars == <<failures, left, blacklist, expiring, rows, req, answered, unsaved, faults>>
memory == <<blacklist, expiring>>
tables == <<rows, unsaved>>

Idle == [op |-> "none", pc |-> "idle", user |-> None, token |-> None]

Init ==
  /\ failures = {}
  /\ left = [t \in Tokens |-> Unissued]
  /\ blacklist = {} /\ expiring = {} /\ rows = {}
  /\ req = [r \in Requests |-> Idle]
  /\ answered = {} /\ unsaved = {} /\ faults = 0

Issued(t)  == left[t] # Unissued
Expired(t) == Issued(t) /\ left[t] < 0

To(r, pc) == req' = [req EXCEPT ![r].pc = pc]
Done(r)   == req' = [req EXCEPT ![r] = Idle]

\* A call to the database succeeds, or fails.
Saves   == faults' = faults
Refuses == faults < MaxFaults /\ faults' = faults + 1
-----------------------------------------------------------------------------
(* Login.                                                                  *)

StartLogin(r, u) ==
  /\ req[r] = Idle
  /\ req' = [req EXCEPT ![r] = [op |-> "login", pc |-> "check", user |-> u, token |-> None]]
  /\ UNCHANGED <<failures, left, memory, tables, answered, faults>>

Of(u)       == {f \in failures : f.user = u}
InTable(u)  == Cardinality({f \in Of(u) : f.row})
InMemory(u) == Cardinality({f \in Of(u) : f.mem})
Locked(u)   == InTable(u) >= MaxAttempts

\* Tells the new failures of one account apart.
Number(u) == CHOOSE n \in 0 .. Cardinality(Of(u)) : \A f \in Of(u) : f.age = 0 => f.no # n
Fail(u, row) ==
  failures' = failures \cup {[user |-> u, age |-> 0, no |-> Number(u), row |-> row, mem |-> TRUE]}

\* Variant: an attempt on a locked account starts the lock again.
CheckCounts(r) ==
  /\ req[r].pc = "check"
  /\ Saves
  /\ LET u == req[r].user IN
       IF Locked(u)
       THEN /\ Done(r)
            /\ failures' = (failures \ Of(u)) \cup {[f EXCEPT !.age = 0] : f \in Of(u)}
       ELSE To(r, "verify") /\ UNCHANGED failures
  /\ UNCHANGED <<left, memory, tables, answered>>

\* check_login_rate_limit: the table is asked, or memory when that fails.
Check(r) ==
  /\ req[r].pc = "check"
  /\ LET u == req[r].user IN
       \/ Saves   /\ IF Locked(u) THEN Done(r) ELSE To(r, "verify")
       \/ Refuses /\ IF InMemory(u) >= MaxAttempts THEN Done(r) ELSE To(r, "verify")
  /\ UNCHANGED <<failures, left, memory, tables, answered>>

\* The password is compared.
Verify(r) ==
  /\ req[r].pc = "verify"
  /\ To(r, "failed") \/ To(r, "cleared")
  /\ UNCHANGED <<failures, left, memory, tables, answered, faults>>

\* Variant: the failure is kept in memory only.
RecordInMemory(r) ==
  /\ req[r].pc = "failed"
  /\ Saves
  /\ Fail(req[r].user, FALSE)
  /\ Done(r)
  /\ UNCHANGED <<left, memory, tables, answered>>

\* record_failed_login.
Record(r) ==
  /\ req[r].pc = "failed"
  /\ LET u == req[r].user IN
       \/ Saves   /\ Fail(u, TRUE)
       \/ Refuses /\ Fail(u, FALSE)
  /\ Done(r)
  /\ UNCHANGED <<left, memory, tables, answered>>

\* Memory forgets the failures of some users, and the table may as well.
Forgotten(f, users, table) ==
  IF f.user \in users THEN [f EXCEPT !.mem = FALSE, !.row = @ /\ ~table] ELSE f
Kept(users, table) ==
  {f \in {Forgotten(g, users, table) : g \in failures} : f.row \/ f.mem}

Issue == \/ \E t \in Tokens : ~Issued(t) /\ left' = [left EXCEPT ![t] = Lifetime]
         \/ UNCHANGED left

\* clear_login_attempts, and a token is issued.
Clear(r) ==
  /\ req[r].pc = "cleared"
  /\ LET u == req[r].user IN
       \/ Saves   /\ failures' = Kept({u}, TRUE)
       \/ Refuses /\ failures' = Kept({u}, FALSE)
  /\ Issue
  /\ Done(r)
  /\ UNCHANGED <<memory, tables, answered>>

\* _evict_oldest_login_attempts: other names have filled _login_attempts.
Evict(u) ==
  /\ InMemory(u) > 0
  /\ failures' = Kept({u}, FALSE)
  /\ UNCHANGED <<left, memory, tables, req, answered, faults>>
-----------------------------------------------------------------------------
(* Tokens.                                                                 *)

\* A refresh, or a logout, which checks nothing.  Other requests with a token
\* end where the refresh has checked it.
StartToken(r, t) ==
  /\ req[r] = Idle /\ Issued(t)
  /\ \E op \in {"refresh", "logout"} :
       req' = [req EXCEPT ![r] = [op |-> op, user |-> None, token |-> t,
                                  pc |-> IF op = "logout" THEN "revoke" ELSE "decode"]]
  /\ UNCHANGED <<failures, left, memory, tables, answered, faults>>

\* decode_token: a token that is not in memory is looked up in the table;
\* when that fails it counts as not revoked.
Decode(r) ==
  /\ req[r].pc = "decode"
  /\ LET t == req[r].token IN
       \/ t \in blacklist /\ Done(r) /\ Saves /\ UNCHANGED blacklist
       \/ t \notin blacklist /\ t \in rows /\ Done(r) /\ Saves /\ blacklist' = blacklist \cup {t}
       \/ /\ t \notin blacklist
          /\ (t \notin rows /\ Saves) \/ Refuses
          /\ IF Expired(t) THEN Done(r) ELSE To(r, "revoke")
          /\ UNCHANGED blacklist
  /\ UNCHANGED <<failures, left, expiring, tables, answered>>

Stale == {t \in expiring : Expired(t)}

\* Variant: what the cap pushes out of memory leaves the table as well.
OldRowsAll == {t \in rows : Expired(t) \/ t \notin blacklist}
OldRows == {t \in rows : Expired(t)}

\* What the cap removes: the tokens with the least time left, of those whose
\* expiry is known.
Excess(list, known) ==
  LET n == Min({Cardinality(list) - MaxBlacklist, Cardinality(known)})
  IN  IF n <= 0 THEN {{}}
      ELSE {gone \in kSubset(n, known) :
              \A t \in gone, s \in known \ gone : left[t] <= left[s]}

\* The logout or the refresh is answered, the refresh with a new token.
Answer(r) ==
  /\ answered' = answered \cup {t \in {req[r].token} : ~Expired(t)}
  /\ IF req[r].op = "refresh" THEN Issue ELSE UNCHANGED left
  /\ Done(r)

\* revoke_token in memory, after _cleanup_blacklist.
Revoke(r) ==
  /\ req[r].pc = "revoke"
  /\ LET t == req[r].token
         added == IF Expired(t) THEN {} ELSE {t}
     IN  /\ \E gone \in Excess(blacklist \ Stale, expiring \ Stale) :
              /\ blacklist' = ((blacklist \ Stale) \ gone) \cup added
              /\ expiring'  = ((expiring \ Stale) \ gone) \cup added
         /\ IF Expired(t) THEN Answer(r) ELSE To(r, "store") /\ UNCHANGED <<left, answered>>
  /\ \/ Stale # {} /\ Saves /\ rows' = rows \ OldRows
     \/ Stale # {} /\ Refuses /\ UNCHANGED rows
     \/ Stale = {} /\ Saves /\ UNCHANGED rows
  /\ UNCHANGED <<failures, unsaved>>

\* _revoke_token_db.
Store(r) ==
  /\ req[r].pc = "store"
  /\ LET t == req[r].token IN
       \/ Saves   /\ rows' = rows \cup {t} /\ unsaved' = unsaved \ {t}
       \/ Refuses /\ unsaved' = unsaved \cup ({t} \ (rows \cup {s \in Tokens : Expired(s)})) /\ UNCHANGED rows
  /\ Answer(r)
  /\ UNCHANGED <<failures, memory>>
-----------------------------------------------------------------------------
\* Failures that leave the window are counted by nobody and followed no more.
Aged == {f \in {[g EXCEPT !.age = @ + 1] : g \in failures} : f.age < Window}

Tick ==
  /\ failures' = Aged
  /\ left' = [t \in Tokens |-> IF left[t] \in {Unissued, -1} THEN left[t] ELSE left[t] - 1]
  /\ answered' = answered \ {t \in Tokens : left'[t] = -1}
  /\ unsaved'  = unsaved \ {t \in Tokens : left'[t] = -1}
  /\ UNCHANGED <<memory, rows, req, faults>>

Restart ==
  /\ failures' = Kept(Users, FALSE)
  /\ blacklist' = {} /\ expiring' = {}
  /\ req' = [r \in Requests |-> Idle]
  /\ UNCHANGED <<left, tables, answered, faults>>

Step(r) == \/ Check(r) \/ Verify(r) \/ Record(r) \/ Clear(r)
           \/ Decode(r) \/ Revoke(r) \/ Store(r)

Next == \/ \E r \in Requests, u \in Users : StartLogin(r, u)
        \/ \E r \in Requests, t \in Tokens : StartToken(r, t)
        \/ \E r \in Requests : Step(r)
        \/ \E u \in Users : Evict(u)
        \/ Tick \/ Restart

Spec == Init /\ [][Next]_vars /\ WF_vars(Tick)
=============================================================================
