----------------------------- MODULE AuthProofs ------------------------------
(***************************************************************************)
(* Proofs that a revoked token stays revoked, for any number of tokens,    *)
(* handlers and failures and any size of the list in memory: the table     *)
(* holds what was answered, and only the expiry of a token removes it; and *)
(* that an account takes no more failed logins than its limit and those    *)
(* that were verified at the same time.                                    *)
(***************************************************************************)
EXTENDS AuthProperties, FiniteSetTheorems, TLAPS

Handler == [op    : {"none", "login", "refresh", "logout"},
            pc    : {"idle", "check", "verify", "failed", "cleared", "decode", "revoke", "store"},
            user  : Users \cup {None},
            token : Tokens \cup {None}]

OnToken(h) == h.pc \in {"decode", "revoke", "store"}

LeftTyped     == /\ left \in [Tokens -> Int \cup {Unissued}]
                 /\ \A t \in Tokens : Issued(t) => left[t] >= -1
HandlersTyped == /\ req \in [Requests -> Handler]
                 /\ \A r \in Requests : OnToken(req[r]) =>
                      req[r].token \in Tokens /\ Issued(req[r].token)

\* What was answered and saved is in the table, and has not expired.
TableInv ==
  \A t \in answered : /\ t \in Tokens /\ Issued(t) /\ ~Expired(t)
                      /\ t \notin unsaved => t \in rows

AuthInv == LeftTyped /\ HandlersTyped /\ TableInv

-----------------------------------------------------------------------------
(* Tokens that were issued keep the time they have left, but for Tick.     *)

LEMMA IssueTyped ==
  ASSUME LeftTyped, Issue \/ UNCHANGED left
  PROVE  /\ LeftTyped'
         /\ \A t \in Tokens : Issued(t) => left'[t] = left[t] /\ Issued(t)'
<1>1. CASE UNCHANGED left
  BY <1>1 DEF LeftTyped, Issued
<1>2. CASE \E t \in Tokens : ~Issued(t) /\ left' = [left EXCEPT ![t] = Lifetime]
  <2>1. PICK t \in Tokens : ~Issued(t) /\ left' = [left EXCEPT ![t] = Lifetime]
    BY <1>2
  <2> QED BY <2>1, AuthAssumption DEF LeftTyped, Issued
<1> QED BY <1>1, <1>2 DEF Issue

LEMMA TickTyped ==
  ASSUME LeftTyped, Tick
  PROVE  /\ LeftTyped'
         /\ \A t \in Tokens : Issued(t) => Issued(t)'
         /\ \A t \in Tokens : Issued(t) /\ ~Expired(t) /\ left'[t] # -1 => ~Expired(t)'
BY AuthAssumption DEF LeftTyped, Tick, Issued, Expired

(* What becomes of a handler.                                              *)

LEMMA IdleTyped == Idle \in Handler /\ ~OnToken(Idle)
BY DEF Idle, Handler, OnToken

LEMMA ToTyped ==
  ASSUME HandlersTyped, NEW r \in Requests,
         NEW pc \in {"verify", "failed", "cleared", "revoke", "store"},
         To(r, pc), pc \in {"revoke", "store"} => OnToken(req[r]),
         \A t \in Tokens : Issued(t) => Issued(t)'
  PROVE  /\ HandlersTyped' /\ req'[r].pc = pc
         /\ \A s \in Requests : s # r => req'[s] = req[s]
<1>1. req \in [Requests -> Handler] /\ req[r] \in Handler
  BY DEF HandlersTyped
<1>2. req' = [req EXCEPT ![r] = [req[r] EXCEPT !.pc = pc]]
  BY DEF To
<1>3. /\ [req[r] EXCEPT !.pc = pc] \in Handler
      /\ [req[r] EXCEPT !.pc = pc].pc = pc
      /\ [req[r] EXCEPT !.pc = pc].token = req[r].token
  BY <1>1 DEF Handler
<1> QED BY <1>1, <1>2, <1>3 DEF HandlersTyped, OnToken

LEMMA DoneTyped ==
  ASSUME HandlersTyped, NEW r \in Requests, Done(r),
         \A t \in Tokens : Issued(t) => Issued(t)'
  PROVE  HandlersTyped' /\ \A s \in Requests : req'[s] = req[s] \/ req'[s] = Idle
BY IdleTyped DEF HandlersTyped, Done

LEMMA Begun ==
  ASSUME HandlersTyped, NEW r \in Requests, NEW h \in Handler, UNCHANGED left,
         req' = [req EXCEPT ![r] = h], OnToken(h) => h.token \in Tokens /\ Issued(h.token)
  PROVE  HandlersTyped'
BY DEF HandlersTyped, Issued

-----------------------------------------------------------------------------
(* A step that leaves the table alone and answers nothing.                 *)
LEMMA TableKept ==
  ASSUME LeftTyped, TableInv, UNCHANGED <<rows, unsaved, answered>>,
         Issue \/ UNCHANGED left
  PROVE  TableInv'
BY IssueTyped DEF TableInv, Expired

LEMMA RevokeKeeps ==
  ASSUME AuthInv, NEW r \in Requests, Revoke(r)
  PROVE  AuthInv'
<1> DEFINE t == req[r].token
<1>a. req[r].pc = "revoke" /\ OnToken(req[r])
  BY DEF Revoke, OnToken
<1>1. Issue \/ UNCHANGED left
  BY DEF Revoke, Answer
<1>2. LeftTyped' /\ \A s \in Tokens : Issued(s) => left'[s] = left[s] /\ Issued(s)'
  BY <1>1, IssueTyped DEF AuthInv
<1>3. HandlersTyped'
  BY <1>a, <1>2, ToTyped, DoneTyped DEF Revoke, Answer, AuthInv
<1>4. answered' = answered /\ unsaved' = unsaved
  BY DEF Revoke, Answer
<1>5. \A s \in rows : ~Expired(s) => s \in rows'
  BY DEF Revoke, OldRows
<1>6. TableInv'
  BY <1>2, <1>4, <1>5 DEF AuthInv, TableInv, Expired
<1> QED BY <1>2, <1>3, <1>6 DEF AuthInv

LEMMA StoreKeeps ==
  ASSUME AuthInv, NEW r \in Requests, Store(r)
  PROVE  AuthInv'
<1> DEFINE t == req[r].token
<1>a. OnToken(req[r])
  BY DEF Store, OnToken
<1>b. t \in Tokens /\ Issued(t)
  BY <1>a DEF AuthInv, HandlersTyped
<1>1. Issue \/ UNCHANGED left
  BY DEF Store, Answer
<1>2. LeftTyped' /\ \A s \in Tokens : Issued(s) => left'[s] = left[s] /\ Issued(s)'
  BY <1>1, IssueTyped DEF AuthInv
<1>3. HandlersTyped'
  BY <1>2, DoneTyped DEF Store, Answer, AuthInv
<1>4. answered' \subseteq answered \cup {t} /\ (t \in answered' \ answered => ~Expired(t))
  BY DEF Store, Answer
<1>5. rows \subseteq rows' /\ unsaved \ {t} \subseteq unsaved'
  BY DEF Store
<1>6. ~Expired(t) /\ t \notin unsaved' => t \in rows'
  BY DEF Store
<1>7. TableInv'
  <2> SUFFICES ASSUME NEW s \in answered'
               PROVE  /\ s \in Tokens /\ Issued(s)' /\ ~Expired(s)'
                      /\ s \notin unsaved' => s \in rows'
    BY DEF TableInv
  <2>1. s \in Tokens /\ Issued(s) /\ ~Expired(s)
    BY <1>b, <1>4 DEF AuthInv, TableInv
  <2>2. Issued(s)' /\ ~Expired(s)'
    BY <1>2, <2>1 DEF Expired
  <2>3. CASE s = t
    BY <1>6, <2>1, <2>2, <2>3
  <2>4. CASE s # t
    BY <1>4, <1>5, <2>1, <2>2, <2>4 DEF AuthInv, TableInv
  <2> QED BY <2>3, <2>4
<1> QED BY <1>2, <1>3, <1>7 DEF AuthInv

LEMMA StepKeeps ==
  ASSUME AuthInv, NEW r \in Requests, Step(r)
  PROVE  AuthInv'
<1>1. CASE Check(r) \/ Verify(r) \/ Record(r) \/ Clear(r) \/ Decode(r)
  <2>1. (Issue \/ UNCHANGED left) /\ UNCHANGED <<rows, unsaved, answered>>
    BY <1>1 DEF Check, Verify, Record, Clear, Decode, tables
  <2>2. LeftTyped' /\ \A s \in Tokens : Issued(s) => left'[s] = left[s] /\ Issued(s)'
    BY <2>1, IssueTyped DEF AuthInv
  <2>3. \/ Done(r)
        \/ \E pc \in {"verify", "failed", "cleared"} : To(r, pc)
        \/ To(r, "revoke") /\ OnToken(req[r])
    BY <1>1 DEF Check, Verify, Record, Clear, Decode, OnToken
  <2>4. HandlersTyped'
    BY <2>2, <2>3, ToTyped, DoneTyped DEF AuthInv
  <2>5. TableInv'
    BY <2>1, TableKept DEF AuthInv
  <2> QED BY <2>2, <2>4, <2>5 DEF AuthInv
<1> QED BY <1>1, RevokeKeeps, StoreKeeps DEF Step

LEMMA StartKeeps ==
  ASSUME AuthInv, NEW r \in Requests,
         \/ \E u \in Users : StartLogin(r, u)
         \/ \E t \in Tokens : StartToken(r, t)
  PROVE  AuthInv'
<1>1. UNCHANGED <<left, rows, unsaved, answered>>
  BY DEF StartLogin, StartToken, tables
<1>2. \E h \in Handler : /\ req' = [req EXCEPT ![r] = h]
                         /\ OnToken(h) => h.token \in Tokens /\ Issued(h.token)
  <2>1. ASSUME NEW u \in Users, StartLogin(r, u)
        PROVE  \E h \in Handler : req' = [req EXCEPT ![r] = h] /\ ~OnToken(h)
    <3> DEFINE h == [op |-> "login", pc |-> "check", user |-> u, token |-> None]
    <3>1. h \in Handler /\ ~OnToken(h)
      BY DEF Handler, OnToken
    <3>2. req' = [req EXCEPT ![r] = h]
      BY <2>1 DEF StartLogin
    <3> QED BY <3>1, <3>2
  <2>2. ASSUME NEW t \in Tokens, StartToken(r, t)
        PROVE  \E h \in Handler : req' = [req EXCEPT ![r] = h] /\ h.token = t /\ Issued(t)
    <3>1. PICK op \in {"refresh", "logout"} :
            req' = [req EXCEPT ![r] = [op |-> op, user |-> None, token |-> t,
                                       pc |-> IF op = "logout" THEN "revoke" ELSE "decode"]]
      BY <2>2 DEF StartToken
    <3> DEFINE h == [op |-> op, user |-> None, token |-> t,
                     pc |-> IF op = "logout" THEN "revoke" ELSE "decode"]
    <3>2. h \in Handler /\ h.token = t
      BY DEF Handler
    <3>3. Issued(t)
      BY <2>2 DEF StartToken
    <3> QED BY <3>1, <3>2, <3>3
  <2> QED BY <2>1, <2>2
<1>3. HandlersTyped'
  BY <1>1, <1>2, Begun DEF AuthInv
<1>4. LeftTyped' /\ TableInv'
  BY <1>1, IssueTyped, TableKept DEF AuthInv
<1> QED BY <1>3, <1>4 DEF AuthInv

LEMMA TimeKeeps ==
  ASSUME AuthInv, (\E u \in Users : Evict(u)) \/ Tick \/ Restart
  PROVE  AuthInv'
<1>1. CASE \E u \in Users : Evict(u)
  BY <1>1 DEF AuthInv, Evict, tables, LeftTyped, HandlersTyped, TableInv, Issued, Expired
<1>2. CASE Tick
  <2>1. LeftTyped' /\ \A t \in Tokens : Issued(t) => Issued(t)'
    BY <1>2, TickTyped DEF AuthInv
  <2>2. HandlersTyped'
    BY <1>2, <2>1 DEF Tick, AuthInv, HandlersTyped
  <2>3. TableInv'
    BY <1>2, <2>1, TickTyped DEF Tick, AuthInv, TableInv
  <2> QED BY <2>1, <2>2, <2>3 DEF AuthInv
<1>3. CASE Restart
  <2>1. HandlersTyped'
    BY <1>3, IdleTyped DEF Restart, HandlersTyped
  <2>2. LeftTyped' /\ TableInv'
    BY <1>3 DEF Restart, tables, AuthInv, LeftTyped, TableInv, Issued, Expired
  <2> QED BY <2>1, <2>2 DEF AuthInv
<1> QED BY <1>1, <1>2, <1>3

LEMMA AuthInit == Init => AuthInv
BY IdleTyped, AuthAssumption
   DEF Init, AuthInv, LeftTyped, HandlersTyped, TableInv, Issued

LEMMA AuthNext == AuthInv /\ [Next]_vars => AuthInv'
<1> SUFFICES ASSUME AuthInv, [Next]_vars PROVE AuthInv'
  OBVIOUS
<1>1. CASE UNCHANGED vars
  BY <1>1 DEF vars, tables, AuthInv, LeftTyped, HandlersTyped, TableInv, Issued, Expired
<1> QED BY <1>1, StepKeeps, StartKeeps, TimeKeeps DEF Next

LEMMA FaultsCounted ==
  ASSUME [Next]_vars
  PROVE  (Saves \/ Refuses) /\ (faults \in Nat => faults' \in Nat)
<1> SUFFICES Saves \/ Refuses
  BY DEF Saves, Refuses
<1>1. ASSUME NEW r \in Requests, Step(r) PROVE Saves \/ Refuses
  BY <1>1 DEF Step, Check, Verify, Record, Clear, Decode, Revoke, Store, Saves
<1>2. CASE \E r \in Requests : \/ \E u \in Users : StartLogin(r, u)
                             \/ \E t \in Tokens : StartToken(r, t)
  BY <1>2 DEF StartLogin, StartToken, Saves
<1>3. CASE (\E u \in Users : Evict(u)) \/ Tick \/ Restart \/ UNCHANGED vars
  BY <1>3 DEF Evict, Tick, Restart, vars, Saves
<1> QED BY <1>1, <1>2, <1>3 DEF Next

-----------------------------------------------------------------------------
(* A token that passes the check was not answered before.                  *)

LEMMA PassedUnanswered ==
  ASSUME AuthInv, faults \in Nat, [Next]_vars, NEW r \in Requests,
         req[r].pc = "decode", req'[r].pc = "revoke"
  PROVE  req[r].token \notin answered \/ req[r].token \in unsaved \/ faults' > faults
<1>a. req \in [Requests -> Handler]
  BY DEF AuthInv, HandlersTyped
<1>1. PICK s \in Requests : Step(s) \/ (\E u \in Users : StartLogin(s, u))
                            \/ (\E t \in Tokens : StartToken(s, t))
  <2>1. req'[r].pc # req[r].pc
    OBVIOUS
  <2>2. ~Restart
    <3> SUFFICES ASSUME Restart PROVE req'[r].pc = "idle"
      OBVIOUS
    <3> QED BY DEF Restart, Idle
  <2>3. ~Tick /\ \A u \in Users : ~Evict(u)
    BY <2>1 DEF Tick, Evict
  <2>4. ~(UNCHANGED vars)
    BY <2>1 DEF vars
  <2> QED BY <2>2, <2>3, <2>4 DEF Next
<1>2. s = r
  <2> SUFFICES ASSUME s # r PROVE req'[r] = req[r]
    OBVIOUS
  <2>1. \E h : req' = [req EXCEPT ![s] = h]
    <3>1. CASE Step(s)
      <4>1. Done(s) \/ \E pc : To(s, pc)
        BY <3>1 DEF Step, Check, Verify, Record, Clear, Decode, Revoke, Store, Answer
      <4> QED BY <4>1 DEF Done, To
    <3>2. CASE ~Step(s)
      BY <1>1, <3>2 DEF StartLogin, StartToken
    <3> QED BY <3>1, <3>2
  <2> QED BY <1>a, <2>1
<1>3. Decode(r)
  <2>1. req[r] # Idle
    BY DEF Idle
  <2> QED
    BY <1>1, <1>2, <2>1 DEF StartLogin, StartToken, Step, Check, Verify, Record, Clear,
       Revoke, Store
<1>4. ~Done(r)
  BY <1>a DEF Done, Idle
<1>5. (req[r].token \notin rows) \/ Refuses
  BY <1>3, <1>4 DEF Decode
<1>6. CASE req[r].token \notin rows
  BY <1>6 DEF AuthInv, TableInv
<1>7. CASE Refuses
  BY <1>7 DEF Refuses
<1> QED BY <1>5, <1>6, <1>7

(* A token whose revocation was answered is refused until it expires,      *)
(* whatever restarts, evictions and clean-ups come between, unless the     *)
(* database refused the row or the look at it.                             *)
THEOREM RevokedStaysRevoked == Spec => RefusedOnceAnswered
<1> DEFINE Inv == AuthInv /\ faults \in Nat
<1>1. Init => Inv
  BY AuthInit DEF Init
<1>2. Inv /\ [Next]_vars => Inv'
  BY AuthNext, FaultsCounted
<1>3. ASSUME Inv, [Next]_vars
      PROVE  [\A r \in Requests :
                req[r].pc = "decode" /\ req'[r].pc = "revoke"
                  => \/ req[r].token \notin answered
                     \/ req[r].token \in unsaved
                     \/ faults' > faults]_vars
  BY <1>3, PassedUnanswered
<1> QED
  BY <1>1, <1>2, <1>3, PTL DEF Spec, RefusedOnceAnswered

-----------------------------------------------------------------------------
(* Failed logins.  While the database works every failure is in the table. *)
(* A handler that is past the check, and may still fail, counts as if it   *)
(* had: when it passed there were fewer failures than the limit, and there *)
(* are no more handlers than requests.                                     *)

Pending(u) == {r \in Requests : req[r].pc \in {"verify", "failed"} /\ req[r].user = u}
Limit      == MaxAttempts + Cardinality(Requests) - 1

IsFailure(f) ==
  f = [user |-> f.user, age |-> f.age, no |-> f.no, row |-> TRUE, mem |-> f.mem]
FailuresInv ==
  /\ IsFiniteSet(failures)
  /\ \A f \in failures : IsFailure(f)
  /\ \A u \in Users : Cardinality(Of(u)) + Cardinality(Pending(u)) <= Limit
LoginInv == AuthInv /\ faults \in Nat /\ (faults = 0 => FailuresInv)

LEMMA OfFinite ==
  ASSUME IsFiniteSet(failures), NEW u
  PROVE  IsFiniteSet(Of(u)) /\ Cardinality(Of(u)) \in Nat
<1>1. Of(u) \in SUBSET failures
  BY DEF Of
<1> QED BY <1>1, FS_Subset, FS_CardinalityType

LEMMA PendingFinite ==
  ASSUME NEW u
  PROVE  IsFiniteSet(Pending(u)) /\ Cardinality(Pending(u)) \in Nat
<1>1. Pending(u) \in SUBSET Requests
  BY DEF Pending
<1> QED BY <1>1, AuthAssumption, FS_Subset, FS_CardinalityType

\* What a function makes of a set, or a part of it, is no larger.
LEMMA ImageSmaller ==
  ASSUME NEW S, IsFiniteSet(S), NEW h, DOMAIN h = S, NEW T \in SUBSET {h[x] : x \in S},
         h = [x \in S |-> h[x]]
  PROVE  IsFiniteSet(T) /\ Cardinality(T) <= Cardinality(S)
<1> DEFINE R == {h[x] : x \in S}
<1>1. h \in Surjection(S, R)
  BY DEF Surjection
<1>2. IsFiniteSet(R) /\ Cardinality(R) <= Cardinality(S)
  BY <1>1, FS_Surjection
<1>3. IsFiniteSet(T) /\ Cardinality(T) <= Cardinality(R)
  BY <1>2, FS_Subset
<1>4. Cardinality(T) \in Nat /\ Cardinality(R) \in Nat /\ Cardinality(S) \in Nat
  BY <1>2, <1>3, FS_CardinalityType
<1> QED BY <1>2, <1>3, <1>4

\* Failures that are changed, or dropped, and are still of the same account.
LEMMA FewerFailures ==
  ASSUME IsFiniteSet(failures), NEW h, h = [f \in failures |-> h[f]],
         \A f \in failures : h[f].user = f.user,
         failures' \subseteq {h[f] : f \in failures}
  PROVE  /\ IsFiniteSet(failures')
         /\ \A u : Cardinality(Of(u)') <= Cardinality(Of(u))
<1>1. IsFiniteSet(failures')
  BY ImageSmaller
<1>2. ASSUME NEW u PROVE Cardinality(Of(u)') <= Cardinality(Of(u))
  <2> DEFINE g == [f \in Of(u) |-> h[f]]
  <2>1. IsFiniteSet(Of(u))
    BY OfFinite
  <2>2. Of(u)' \subseteq {g[f] : f \in Of(u)}
    BY DEF Of
  <2>3. DOMAIN g = Of(u) /\ g = [f \in Of(u) |-> g[f]]
    OBVIOUS
  <2> HIDE DEF g
  <2> QED BY <2>1, <2>2, <2>3, ImageSmaller
<1> QED BY <1>1, <1>2

\* A step that counts no failure and lets no handler past the check.
LEMMA QuietStep ==
  ASSUME FailuresInv, IsFiniteSet(failures'), \A f \in failures' : IsFailure(f),
         \A u \in Users : Cardinality(Of(u)') <= Cardinality(Of(u)),
         \A u \in Users : Pending(u)' \subseteq Pending(u)
  PROVE  FailuresInv'
<1> SUFFICES ASSUME NEW u \in Users
             PROVE  Cardinality(Of(u)') + Cardinality(Pending(u)') <= Limit
  BY DEF FailuresInv, IsFailure, Limit
<1>1. /\ IsFiniteSet(Pending(u)) /\ Cardinality(Pending(u)) \in Nat
      /\ Cardinality(Of(u)) \in Nat
  BY OfFinite, PendingFinite DEF FailuresInv
<1>2. Pending(u)' \in SUBSET Pending(u)
  OBVIOUS
<1>3. Cardinality(Pending(u)') <= Cardinality(Pending(u)) /\ Cardinality(Pending(u)') \in Nat
  BY <1>1, <1>2, FS_Subset, FS_CardinalityType
<1>4. Of(u)' \in SUBSET failures'
  BY DEF Of
<1>5. Cardinality(Of(u)') \in Nat
  BY <1>4, FS_Subset, FS_CardinalityType
<1>6. Limit \in Int
  BY AuthAssumption, FS_CardinalityType DEF Limit
<1> QED BY <1>1, <1>3, <1>5, <1>6 DEF FailuresInv

\* What is kept of the failures, and what they become with age.
LEMMA KeptFewer ==
  ASSUME FailuresInv, NEW users, NEW table \in BOOLEAN, failures' = Kept(users, table)
  PROVE  /\ IsFiniteSet(failures') /\ \A f \in failures' : IsFailure(f)
         /\ \A u : Cardinality(Of(u)') <= Cardinality(Of(u))
<1> DEFINE h == [f \in failures |-> Forgotten(f, users, table)]
<1>1. ASSUME NEW f \in failures
      PROVE  h[f].user = f.user /\ (h[f].row \/ h[f].mem => IsFailure(h[f]))
  <2>1. PICK u, a, n, m : f = [user |-> u, age |-> a, no |-> n, row |-> TRUE, mem |-> m]
    BY DEF FailuresInv, IsFailure
  <2>2. CASE f.user \notin users
    BY <2>1, <2>2 DEF Forgotten, IsFailure
  <2>3. CASE f.user \in users
    <3> DEFINE row == f.row /\ ~table
    <3>1. h[f] = [f EXCEPT !.mem = FALSE, !.row = row]
      BY <2>3 DEF Forgotten
    <3>2. row = TRUE \/ row = FALSE
      OBVIOUS
    <3> HIDE DEF row
    <3>3. CASE row = TRUE
      <4>1. h[f] = [user |-> u, age |-> a, no |-> n, row |-> TRUE, mem |-> FALSE]
        BY <2>1, <3>1, <3>3
      <4>2. f.user = u /\ h[f].user = u
        BY <2>1, <4>1
      <4> HIDE DEF h
      <4>3. IsFailure(h[f])
        BY <4>1 DEF IsFailure
      <4> QED BY <4>2, <4>3
    <3>4. CASE row = FALSE
      <4>1. h[f] = [user |-> u, age |-> a, no |-> n, row |-> FALSE, mem |-> FALSE]
        BY <2>1, <3>1, <3>4
      <4> QED BY <2>1, <4>1
    <3> QED BY <3>2, <3>3, <3>4
  <2> QED BY <2>2, <2>3
<1>2. /\ failures' \subseteq {h[f] : f \in failures}
      /\ \A f \in failures' : f.row \/ f.mem
  BY DEF Kept
<1>3. h = [f \in failures |-> h[f]]
  OBVIOUS
<1> HIDE DEF h
<1>4. IsFiniteSet(failures') /\ \A u : Cardinality(Of(u)') <= Cardinality(Of(u))
  BY <1>1, <1>2, <1>3, FewerFailures DEF FailuresInv
<1> QED BY <1>1, <1>2, <1>4

LEMMA AgedFewer ==
  ASSUME FailuresInv, failures' = Aged
  PROVE  /\ IsFiniteSet(failures') /\ \A f \in failures' : IsFailure(f)
         /\ \A u : Cardinality(Of(u)') <= Cardinality(Of(u))
<1> DEFINE h == [f \in failures |-> [f EXCEPT !.age = @ + 1]]
<1>1. ASSUME NEW f \in failures PROVE h[f].user = f.user /\ IsFailure(h[f])
  <2>1. PICK u, a, n, m : f = [user |-> u, age |-> a, no |-> n, row |-> TRUE, mem |-> m]
    BY DEF FailuresInv, IsFailure
  <2>2. h[f] = [user |-> u, age |-> a + 1, no |-> n, row |-> TRUE, mem |-> m]
    BY <2>1
  <2> QED BY <2>1, <2>2 DEF IsFailure
<1>2. failures' \subseteq {h[f] : f \in failures}
  BY DEF Aged
<1>3. h = [f \in failures |-> h[f]]
  OBVIOUS
<1> HIDE DEF h
<1>4. IsFiniteSet(failures') /\ \A u : Cardinality(Of(u)') <= Cardinality(Of(u))
  BY <1>1, <1>2, <1>3, FewerFailures DEF FailuresInv
<1> QED BY <1>1, <1>2, <1>4

LEMMA SameFailures ==
  ASSUME FailuresInv, UNCHANGED failures
  PROVE  /\ IsFiniteSet(failures') /\ \A f \in failures' : IsFailure(f)
         /\ \A u : Of(u)' = Of(u) /\ Cardinality(Of(u)') <= Cardinality(Of(u))
<1>1. \A u : Of(u)' = Of(u) /\ Cardinality(Of(u)) \in Nat
  BY OfFinite DEF Of, FailuresInv
<1> QED BY <1>1 DEF FailuresInv

\* A handler that stays short of the check, or leaves.
LEMMA FewerPending ==
  ASSUME AuthInv, NEW r \in Requests, NEW u,
         \/ Done(r) \/ \E pc : To(r, pc) /\ pc \notin {"verify", "failed"}
         \/ To(r, "failed") /\ req[r].pc = "verify"
         \/ \E h : req' = [req EXCEPT ![r] = h] /\ h.pc \notin {"verify", "failed"}
  PROVE  Pending(u)' \subseteq Pending(u)
<1>1. req \in [Requests -> Handler]
  BY DEF AuthInv, HandlersTyped
<1>2. /\ \A s \in Requests \ {r} : req'[s] = req[s]
      /\ \/ req'[r].pc \notin {"verify", "failed"}
         \/ req[r].pc = "verify" /\ req'[r].user = req[r].user
  BY <1>1 DEF Done, Idle, To, Handler
<1> QED BY <1>2 DEF Pending

LEMMA FewerFaults == ASSUME Saves, faults = 0 PROVE ~Refuses
BY DEF Saves, Refuses

LEMMA CheckBounded ==
  ASSUME AuthInv, FailuresInv, NEW r \in Requests, Check(r), Saves, faults = 0
  PROVE  FailuresInv'
<1>1. UNCHANGED failures /\ req[r].pc = "check"
  BY DEF Check
<1>2. CASE Done(r)
  <2>1. \A u \in Users : Pending(u)' \subseteq Pending(u)
    BY <1>2, FewerPending
  <2> QED BY <1>1, <2>1, SameFailures, QuietStep
<1>3. CASE To(r, "verify") /\ ~Locked(req[r].user)
  <2>1. req \in [Requests -> Handler]
    BY DEF AuthInv, HandlersTyped
  <2>2. /\ \A s \in Requests \ {r} : req'[s] = req[s]
        /\ req'[r].user = req[r].user /\ req[r].pc = "check"
    BY <1>1, <1>3, <2>1 DEF To, Handler
  <2> SUFFICES ASSUME NEW u \in Users
               PROVE  Cardinality(Of(u)') + Cardinality(Pending(u)') <= Limit
    BY <1>1, SameFailures DEF FailuresInv, IsFailure, Limit
  <2>3. Of(u)' = Of(u) /\ Cardinality(Of(u)) \in Nat
    BY <1>1, SameFailures, OfFinite DEF FailuresInv
  <2>4. CASE u = req[r].user
    <3>1. {f \in Of(u) : f.row} = Of(u)
      BY DEF FailuresInv, IsFailure, Of
    <3>2. Cardinality(Of(u)) < MaxAttempts
      BY <1>3, <2>3, <2>4, <3>1, AuthAssumption DEF Locked, InTable
    <3>3. Pending(u)' \in SUBSET Requests
      BY DEF Pending
    <3>4. Cardinality(Pending(u)') <= Cardinality(Requests)
      BY <3>3, AuthAssumption, FS_Subset
    <3>5. Cardinality(Pending(u)') \in Nat /\ Cardinality(Requests) \in Nat
      BY <3>3, AuthAssumption, FS_Subset, FS_CardinalityType
    <3> QED BY <2>3, <3>2, <3>4, <3>5, AuthAssumption DEF Limit
  <2>5. CASE u # req[r].user
    <3>1. Pending(u)' = Pending(u)
      BY <2>2, <2>5 DEF Pending
    <3> QED BY <2>3, <3>1 DEF FailuresInv
  <2> QED BY <2>4, <2>5
<1> QED BY <1>2, <1>3, FewerFaults DEF Check

LEMMA RecordBounded ==
  ASSUME AuthInv, FailuresInv, NEW r \in Requests, Record(r), Saves, faults = 0
  PROVE  FailuresInv'
<1> DEFINE u == req[r].user
<1>1. PICK new : /\ failures' = failures \cup {new} /\ IsFailure(new) /\ new.user = u
                 /\ Done(r) /\ req[r].pc = "failed"
  <2>1. Fail(u, TRUE) /\ Done(r) /\ req[r].pc = "failed"
    BY FewerFaults DEF Record
  <2> DEFINE new == [user |-> u, age |-> 0, no |-> Number(u), row |-> TRUE, mem |-> TRUE]
  <2>2. failures' = failures \cup {new} /\ IsFailure(new) /\ new.user = u
    BY <2>1 DEF Fail, IsFailure
  <2> QED BY <2>1, <2>2
<1>2. IsFiniteSet(failures') /\ \A f \in failures' : IsFailure(f)
  BY <1>1, FS_AddElement DEF FailuresInv
<1> SUFFICES ASSUME NEW v \in Users
             PROVE  Cardinality(Of(v)') + Cardinality(Pending(v)') <= Limit
  BY <1>2 DEF FailuresInv, IsFailure, Limit
<1>3. \A s \in Requests \ {r} : req'[s] = req[s]
  BY <1>1 DEF AuthInv, HandlersTyped, Done
<1>4. /\ IsFiniteSet(Of(v)) /\ Cardinality(Of(v)) \in Nat
      /\ IsFiniteSet(Pending(v)) /\ Cardinality(Pending(v)) \in Nat
  BY OfFinite, PendingFinite DEF FailuresInv
<1>5. CASE v = u
  <2>1. Of(v)' = Of(v) \cup {new}
    <3>1. Of(v)' = {f \in failures \cup {new} : f.user = v}
      BY <1>1 DEF Of
    <3>2. new.user = v
      BY <1>1, <1>5
    <3>3. {f \in failures \cup {new} : f.user = v} = {f \in failures : f.user = v} \cup {new}
      BY <3>2
    <3> QED BY <3>1, <3>3 DEF Of
  <2>2. Cardinality(Of(v)') <= Cardinality(Of(v)) + 1 /\ Cardinality(Of(v)') \in Nat
    <3>1. Cardinality(Of(v) \cup {new}) \in {Cardinality(Of(v)), Cardinality(Of(v)) + 1}
      BY <1>4, FS_AddElement
    <3> QED BY <1>4, <2>1, <3>1
  <2>3. Pending(v)' = Pending(v) \ {r} /\ r \in Pending(v)
    <3>1. req'[r].pc = "idle"
      BY <1>1 DEF AuthInv, HandlersTyped, Done, Idle
    <3> QED BY <1>1, <1>3, <1>5, <3>1 DEF Pending
  <2>4. Cardinality(Pending(v)') = Cardinality(Pending(v)) - 1
    BY <1>4, <2>3, FS_RemoveElement
  <2>5. Limit \in Int
    BY AuthAssumption, FS_CardinalityType DEF Limit
  <2> QED BY <1>4, <2>2, <2>4, <2>5 DEF FailuresInv
<1>6. CASE v # u
  <2>1. Of(v)' = Of(v)
    BY <1>1, <1>6 DEF Of
  <2>2. Pending(v)' = Pending(v)
    <3>1. r \notin Pending(v) /\ req'[r].pc = "idle"
      BY <1>1, <1>6 DEF AuthInv, HandlersTyped, Done, Idle, Pending
    <3> QED BY <1>3, <3>1 DEF Pending
  <2> QED BY <2>1, <2>2 DEF FailuresInv
<1> QED BY <1>5, <1>6

LEMMA FailuresNext ==
  ASSUME LoginInv, [Next]_vars, faults' = 0
  PROVE  FailuresInv'
<1>1. faults = 0 /\ Saves /\ AuthInv /\ FailuresInv
  <2>1. Saves \/ Refuses
    BY FaultsCounted
  <2> QED BY <2>1 DEF LoginInv, Saves, Refuses
<1>2. ASSUME NEW r \in Requests, Check(r) \/ Record(r) PROVE FailuresInv'
  BY <1>1, <1>2, CheckBounded, RecordBounded
<1>3. ASSUME NEW r \in Requests, Clear(r) PROVE FailuresInv'
  <2>1. failures' = Kept({req[r].user}, TRUE) /\ Done(r)
    BY <1>1, <1>3, FewerFaults DEF Clear
  <2>2. \A u \in Users : Pending(u)' \subseteq Pending(u)
    BY <1>1, <2>1, FewerPending
  <2> QED BY <1>1, <2>1, <2>2, KeptFewer, QuietStep
<1>4. ASSUME NEW r \in Requests, Verify(r) \/ Decode(r) \/ Revoke(r) \/ Store(r)
      PROVE  FailuresInv'
  <2>1. UNCHANGED failures
    BY <1>4 DEF Verify, Decode, Revoke, Store
  <2>2. \/ Done(r) \/ \E pc : To(r, pc) /\ pc \notin {"verify", "failed"}
        \/ To(r, "failed") /\ req[r].pc = "verify"
    BY <1>4 DEF Verify, Decode, Revoke, Store, Answer
  <2>3. \A u \in Users : Pending(u)' \subseteq Pending(u)
    BY <1>1, <2>2, FewerPending
  <2> QED BY <1>1, <2>1, <2>3, SameFailures, QuietStep
<1>5. ASSUME NEW r \in Requests, \/ \E u \in Users : StartLogin(r, u)
                               \/ \E t \in Tokens : StartToken(r, t)
      PROVE  FailuresInv'
  <2>1. UNCHANGED failures
    BY <1>5 DEF StartLogin, StartToken
  <2>2. \E h : req' = [req EXCEPT ![r] = h] /\ h.pc \notin {"verify", "failed"}
    <3>1. ASSUME NEW u \in Users, StartLogin(r, u)
          PROVE  \E h : req' = [req EXCEPT ![r] = h] /\ h.pc \notin {"verify", "failed"}
      <4> WITNESS [op |-> "login", pc |-> "check", user |-> u, token |-> None]
      <4> QED BY <3>1 DEF StartLogin
    <3>2. ASSUME NEW t \in Tokens, NEW op \in {"refresh", "logout"},
                 req' = [req EXCEPT ![r] = [op |-> op, user |-> None, token |-> t,
                           pc |-> IF op = "logout" THEN "revoke" ELSE "decode"]]
          PROVE  \E h : req' = [req EXCEPT ![r] = h] /\ h.pc \notin {"verify", "failed"}
      <4> WITNESS [op |-> op, user |-> None, token |-> t,
                   pc |-> IF op = "logout" THEN "revoke" ELSE "decode"]
      <4> QED BY <3>2
    <3> QED BY <1>5, <3>1, <3>2 DEF StartToken
  <2>3. \A u \in Users : Pending(u)' \subseteq Pending(u)
    BY <1>1, <2>2, FewerPending
  <2> QED BY <1>1, <2>1, <2>3, SameFailures, QuietStep
<1>6. ASSUME \E u \in Users : Evict(u) PROVE FailuresInv'
  <2>1. (\E u \in Users : failures' = Kept({u}, FALSE)) /\ UNCHANGED req
    BY <1>6 DEF Evict
  <2>2. \A u \in Users : Pending(u)' \subseteq Pending(u)
    BY <2>1 DEF Pending
  <2> QED BY <1>1, <2>1, <2>2, KeptFewer, QuietStep
<1>7. ASSUME Tick PROVE FailuresInv'
  <2>1. \A u \in Users : Pending(u)' \subseteq Pending(u)
    BY <1>7 DEF Tick, Pending
  <2> QED BY <1>1, <1>7, <2>1, AgedFewer, QuietStep DEF Tick
<1>8. ASSUME Restart PROVE FailuresInv'
  <2>1. \A u \in Users : Pending(u)' \subseteq Pending(u)
    BY <1>8 DEF Restart, Pending, Idle
  <2> QED BY <1>1, <1>8, <2>1, KeptFewer, QuietStep DEF Restart
<1>9. CASE UNCHANGED vars
  <2>1. UNCHANGED failures /\ \A u \in Users : Pending(u)' \subseteq Pending(u)
    BY <1>9 DEF vars, Pending
  <2> QED BY <1>1, <2>1, SameFailures, QuietStep
<1> QED
  BY <1>2, <1>3, <1>4, <1>5, <1>6, <1>7, <1>8, <1>9 DEF Next, Step

LEMMA FailuresInit == ASSUME Init PROVE FailuresInv
<1>1. \A u \in Users : Of(u) = {}
  BY DEF Init, Of
<1>2. \A r \in Requests : req[r].pc = "idle"
  BY DEF Init, Idle
<1>3. \A u \in Users : Pending(u) = {}
  BY <1>2 DEF Pending
<1>4. Cardinality({}) = 0 /\ IsFiniteSet({}) /\ 0 <= Limit
  <2>1. Cardinality(Requests) \in Nat
    BY FS_CardinalityType, AuthAssumption
  <2> QED BY <2>1, FS_EmptySet, AuthAssumption DEF Limit
<1>5. failures = {} /\ \A u \in Users : Cardinality(Of(u)) = 0 /\ Cardinality(Pending(u)) = 0
  BY <1>1, <1>3, <1>4 DEF Init
<1> QED BY <1>4, <1>5 DEF FailuresInv

(* With the database at work an account takes no more failed logins within *)
(* the window than its limit and, of the handlers, all but one; restarts,  *)
(* evictions and successful logins in between do not change that.          *)
THEOREM AttemptsLimited == Spec => []AttemptsBounded
<1>1. Init => LoginInv
  BY AuthInit, FailuresInit DEF Init, LoginInv
<1>2. LoginInv /\ [Next]_vars => LoginInv'
  <2> SUFFICES ASSUME LoginInv, [Next]_vars PROVE LoginInv'
    OBVIOUS
  <2>1. AuthInv' /\ faults' \in Nat
    BY AuthNext, FaultsCounted DEF LoginInv
  <2> QED BY <2>1, FailuresNext DEF LoginInv
<1>3. LoginInv => AttemptsBounded
  <2> SUFFICES ASSUME FailuresInv, NEW u \in Users
               PROVE  Cardinality(Of(u)) <= Limit
    BY DEF LoginInv, AttemptsBounded, Limit
  <2>1. Cardinality(Of(u)) \in Nat /\ Cardinality(Pending(u)) \in Nat
    BY OfFinite, PendingFinite DEF FailuresInv
  <2>2. Limit \in Int
    BY AuthAssumption, FS_CardinalityType DEF Limit
  <2> QED BY <2>1, <2>2 DEF FailuresInv
<1> QED
  BY <1>1, <1>2, <1>3, PTL DEF Spec
=============================================================================
