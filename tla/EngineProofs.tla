---------------------------- MODULE EngineProofs ----------------------------
(***************************************************************************)
(* Proofs about the engines.  The cost allocation loses no cent and shares *)
(* fairly; what is shown of one debt agrees, and a month that is paid      *)
(* stays paid; a campaign claims what is overdue; the matching of invoices *)
(* agrees with the allocation of payments, and the preflight with what     *)
(* generate refuses.  For any contracts, keys, costs, bookings and         *)
(* readings.                                                               *)
(***************************************************************************)
EXTENDS EngineProperties, EngineLemmas

UnitShares == [contract : Contracts, value : Shares]
Costs      == [key : Keys, amount : Amounts]

EngineType ==
  /\ shares \in [Keys -> Seq(UnitShares)]
  /\ costs \in Seq(Costs)
  /\ advances \in [Contracts -> Int]

AccountType ==
  /\ contract # None => contract \in [start : Starts, end : Ends]
  /\ rent \in Nat
  /\ payments \in Seq([day : Days, amount : Payments])
  /\ today \in Days

PeriodType ==
  /\ DOMAIN current \subseteq Contracts
  /\ \A c \in DOMAIN current : current[c] \in Flats
  /\ flats \in [Flats -> [area_sqm : 0 .. 1, person_count : 0 .. 1, rooms : 0 .. 1]]
  /\ items \subseteq KeyTypes
  /\ readings \in [Flats -> Histories]

MatchingType == bookings \in Seq(Booking)

EngineTypeOK == EngineType /\ AccountType /\ MatchingType /\ PeriodType
-----------------------------------------------------------------------------
\* The types hold at first.
LEMMA TypeInit == Init => EngineTypeOK
<1> SUFFICES ASSUME Init PROVE EngineTypeOK
  OBVIOUS
<1> USE AllocationAssumption, AccountAssumption, PreflightAssumption
<1>1. EngineType
  BY DEF Init, EngineInit, EngineType
<1>2. AccountType
  BY DEF Init, AccountInit, AccountType
<1>3. PeriodType
  <2>1. /\ DOMAIN current = {} /\ readings = [f \in Flats |-> <<>>] /\ items = {}
        /\ flats = [f \in Flats |-> [area_sqm |-> 0, person_count |-> 0, rooms |-> 0]]
    BY DEF Init, PeriodInit
  <2> QED BY <2>1 DEF PeriodType
<1>4. MatchingType
  BY DEF Init, MatchingInit, MatchingType
<1> QED BY <1>1, <1>2, <1>3, <1>4 DEF EngineTypeOK

\* A sequence with one entry taken out, or another put in its place.
LEMMA OneOut ==
  ASSUME NEW S, NEW s \in Seq(S), NEW i \in DOMAIN s
  PROVE  SubSeq(s, 1, i - 1) \o SubSeq(s, i + 1, Len(s)) \in Seq(S)
<1>1. Len(s) \in Nat /\ i \in 1 .. Len(s) /\ \A j \in 1 .. Len(s) : s[j] \in S
  OBVIOUS
<1>2. SubSeq(s, 1, i - 1) \in Seq(S)
  <2>1. \A j \in 1 .. i - 1 : s[j] \in S
    BY <1>1
  <2> QED BY <1>1, <2>1
<1>3. SubSeq(s, i + 1, Len(s)) \in Seq(S)
  <2>1. \A j \in i + 1 .. Len(s) : s[j] \in S
    BY <1>1
  <2> QED BY <1>1, <2>1
<1> QED BY <1>2, <1>3

LEMMA OneReplaced ==
  ASSUME NEW S, NEW s \in Seq(S), NEW i \in DOMAIN s, NEW b \in S
  PROVE  [s EXCEPT ![i] = b] \in Seq(S)
  OBVIOUS

\* Each operation on the bookings keeps the types.
LEMMA MatchingTypeNext == MatchingType /\ MatchingNext => MatchingType'
<1> SUFFICES ASSUME MatchingType, MatchingNext PROVE MatchingType'
  OBVIOUS
<1> USE DEF MatchingType
<1>1. CASE EnterBooking
  BY <1>1 DEF EnterBooking
<1>2. CASE PatchBooking
  BY <1>2, OneReplaced DEF PatchBooking
<1>3. CASE DeleteBooking
  BY <1>3, OneOut DEF DeleteBooking
<1> QED BY <1>1, <1>2, <1>3 DEF MatchingNext

\* Each operation of the cost allocation keeps the types.
LEMMA EngineTypeNext == EngineType /\ EngineNext => EngineType'
<1> SUFFICES ASSUME EngineType, EngineNext PROVE EngineType'
  OBVIOUS
<1> USE AllocationAssumption DEF EngineType
<1>1. ASSUME NEW k \in Keys, NEW c \in Contracts, NEW value \in Shares, AddUnitShare(k, c, value)
      PROVE  EngineType'
  <2>1. [contract |-> c, value |-> value] \in UnitShares
    BY DEF UnitShares
  <2>2. Append(shares[k], [contract |-> c, value |-> value]) \in Seq(UnitShares)
    BY <2>1
  <2> QED BY <1>1, <2>2 DEF AddUnitShare
<1>2. ASSUME NEW k \in Keys, NEW amount \in Amounts, AddCost(k, amount) PROVE EngineType'
  <2>1. [key |-> k, amount |-> amount] \in Costs
    BY DEF Costs
  <2> QED BY <1>2, <2>1 DEF AddCost
<1>3. ASSUME NEW c \in Contracts, NEW amount \in Advances, AddAdvance(c, amount) PROVE EngineType'
  BY <1>3 DEF AddAdvance
<1> QED BY <1>1, <1>2, <1>3 DEF EngineNext

\* Each operation of an account keeps the types.
LEMMA AccountTypeNext == AccountType /\ AccountNext => AccountType'
<1> SUFFICES ASSUME AccountType, AccountNext PROVE AccountType'
  OBVIOUS
<1> USE AccountAssumption DEF AccountType
<1>1. CASE Sign
  BY <1>1 DEF Sign, Terms
<1>2. CASE DayPasses
  BY <1>2 DEF DayPasses
<1>3. CASE Book
  <2>1. PICK day \in Days, amount \in Payments : payments' = Append(payments, [day |-> day, amount |-> amount])
    BY <1>3 DEF Book
  <2>2. [day |-> day, amount |-> amount] \in [day : Days, amount : Payments]
    OBVIOUS
  <2>3. payments' \in Seq([day : Days, amount : Payments])
    BY <2>1, <2>2
  <2> QED BY <1>3, <2>3 DEF Book
<1>4. CASE ChangeRent
  BY <1>4 DEF ChangeRent
<1>5. CASE ChangeTerms
  BY <1>5 DEF ChangeTerms, Terms
<1>6. CASE CorrectBooking
  <2>1. PICK i \in DOMAIN payments, day \in Days, amount \in Payments :
          payments' = [payments EXCEPT ![i] = [day |-> day, amount |-> amount]]
    BY <1>6 DEF CorrectBooking
  <2>2. [day |-> day, amount |-> amount] \in [day : Days, amount : Payments]
    OBVIOUS
  <2>3. payments' \in Seq([day : Days, amount : Payments])
    BY <2>1, <2>2, OneReplaced
  <2> QED BY <1>6, <2>3 DEF CorrectBooking
<1>7. CASE RemoveBooking
  <2>1. PICK i \in DOMAIN payments :
          payments' = SubSeq(payments, 1, i - 1) \o SubSeq(payments, i + 1, Len(payments))
    BY <1>7 DEF RemoveBooking
  <2>2. PICK S : S = [day : Days, amount : Payments]
    OBVIOUS
  <2>3. payments \in Seq(S)
    BY <2>2
  <2>4. payments' \in Seq(S)
    BY <2>1, <2>3, OneOut
  <2> QED BY <1>7, <2>2, <2>4 DEF RemoveBooking
<1> QED BY <1>1, <1>2, <1>3, <1>4, <1>5, <1>6, <1>7 DEF AccountNext

\* Each operation of a period keeps the types.
LEMMA PeriodTypeNext == PeriodType /\ PeriodNext => PeriodType'
<1> SUFFICES ASSUME PeriodType, PeriodNext PROVE PeriodType'
  OBVIOUS
<1> USE DEF PeriodType
<1>1. ASSUME NEW c \in Contracts, NEW f \in Flats, Begin(c, f) PROVE PeriodType'
  BY <1>1 DEF Begin
<1>2. ASSUME NEW c \in Contracts, End(c) PROVE PeriodType'
  BY <1>2 DEF End, Restrict
<1>3. ASSUME NEW f \in Flats, NEW field \in {"area_sqm", "person_count", "rooms"}, Enter(f, field)
      PROVE  PeriodType'
  <2>1. flats' = [flats EXCEPT ![f] = [flats[f] EXCEPT ![field] = 1 - flats[f][field]]]
    BY <1>3 DEF Enter
  <2>2. [flats[f] EXCEPT ![field] = 1 - flats[f][field]]
          \in [area_sqm : 0 .. 1, person_count : 0 .. 1, rooms : 0 .. 1]
    <3>1. flats[f] \in [area_sqm : 0 .. 1, person_count : 0 .. 1, rooms : 0 .. 1]
      OBVIOUS
    <3> QED BY <3>1
  <2> QED BY <1>3, <2>1, <2>2 DEF Enter
<1>4. ASSUME NEW type \in KeyTypes, AddItem(type) PROVE PeriodType'
  BY <1>4 DEF AddItem
<1>5. ASSUME NEW f \in Flats, Read(f) PROVE PeriodType'
  BY <1>5 DEF Read
<1> QED BY <1>1, <1>2, <1>3, <1>4, <1>5 DEF PeriodNext

\* Every step keeps the types.
LEMMA TypeNext == EngineTypeOK /\ [Next]_vars => EngineTypeOK'
<1> SUFFICES ASSUME EngineTypeOK, [Next]_vars PROVE EngineTypeOK'
  OBVIOUS
<1>1. ASSUME UNCHANGED engine PROVE EngineType'
  BY <1>1 DEF EngineTypeOK, EngineType, engine
<1>2. ASSUME UNCHANGED account PROVE AccountType'
  BY <1>2 DEF EngineTypeOK, AccountType, account
<1>3. ASSUME UNCHANGED period PROVE PeriodType'
  BY <1>3 DEF EngineTypeOK, PeriodType, period
<1>4. ASSUME UNCHANGED bookings PROVE MatchingType'
  BY <1>4 DEF EngineTypeOK, MatchingType
<1>5. CASE EngineNext /\ UNCHANGED <<account, bookings, period>>
  BY <1>2, <1>3, <1>4, <1>5, EngineTypeNext DEF EngineTypeOK
<1>6. CASE AccountNext /\ UNCHANGED <<engine, bookings, period>>
  BY <1>1, <1>3, <1>4, <1>6, AccountTypeNext DEF EngineTypeOK
<1>7. CASE MatchingNext /\ UNCHANGED <<engine, account, period>>
  BY <1>1, <1>2, <1>3, <1>7, MatchingTypeNext DEF EngineTypeOK
<1>8. CASE PeriodNext /\ UNCHANGED <<engine, account, bookings>>
  BY <1>1, <1>2, <1>4, <1>8, PeriodTypeNext DEF EngineTypeOK
<1>9. CASE UNCHANGED vars
  BY <1>1, <1>2, <1>3, <1>4, <1>9 DEF EngineTypeOK, vars
<1> QED BY <1>5, <1>6, <1>7, <1>8, <1>9 DEF Next
-----------------------------------------------------------------------------
(* The cost allocation.                                                    *)

\* The list of shares of a key.
LEMMA ShareFacts ==
  ASSUME EngineType, NEW k \in Keys
  PROVE  /\ shares[k] \in Seq(UnitShares) /\ Len(shares[k]) \in Nat
         /\ DOMAIN shares[k] = 1 .. Len(shares[k])
         /\ \A i \in DOMAIN shares[k] : shares[k][i].value \in Nat /\ shares[k][i].contract \in Contracts
<1>1. shares[k] \in Seq(UnitShares)
  BY DEF EngineType
<1>2. \A i \in DOMAIN shares[k] : shares[k][i] \in UnitShares
  BY <1>1
<1>3. \A i \in DOMAIN shares[k] : shares[k][i].value \in Nat /\ shares[k][i].contract \in Contracts
  BY <1>2, AllocationAssumption DEF UnitShares
<1> QED BY <1>1, <1>3

\* The list of shares of a cost that is billed.
LEMMA BilledFacts ==
  ASSUME EngineType, NEW n \in Billed
  PROVE  /\ n \in DOMAIN costs /\ costs[n] \in Costs /\ costs[n].key \in Keys /\ costs[n].amount \in Int
         /\ shares[costs[n].key] \in Seq(UnitShares)
         /\ Len(shares[costs[n].key]) \in Nat \ {0}
         /\ DOMAIN shares[costs[n].key] = 1 .. Len(shares[costs[n].key])
         /\ \A i \in DOMAIN shares[costs[n].key] : /\ shares[costs[n].key][i].value \in Nat
                                                  /\ shares[costs[n].key][i].contract \in Contracts
         /\ TotalShare(costs[n].key) \in Nat /\ TotalShare(costs[n].key) > 0
<1> USE AllocationAssumption
<1>1. n \in DOMAIN costs /\ costs[n] \in Costs /\ TotalShare(costs[n].key) # 0
  BY DEF Billed, EngineType
<1>2. PICK k \in Keys : k = costs[n].key
  BY <1>1 DEF Costs
<1>3. costs[n].amount \in Int
  BY <1>1 DEF Costs
<1>4. shares[k] \in Seq(UnitShares) /\ Len(shares[k]) \in Nat /\ DOMAIN shares[k] = 1 .. Len(shares[k])
  BY ShareFacts
<1>5. \A i \in DOMAIN shares[k] : shares[k][i].value \in Nat /\ shares[k][i].contract \in Contracts
  BY ShareFacts
<1> DEFINE values == [i \in DOMAIN shares[k] |-> shares[k][i].value]
<1>6. TotalShare(k) = SumFunctionOnSet(values, DOMAIN shares[k])
  <2>1. TotalShare(k) = SumOf(values) /\ DOMAIN values = DOMAIN shares[k]
    BY DEF TotalShare
  <2> HIDE DEF values
  <2> QED BY <2>1, SumOfAll
<1>7. IsFiniteSet(DOMAIN shares[k])
  BY <1>4, FS_Interval
<1>8. \A i \in DOMAIN shares[k] : values[i] \in Nat
  BY <1>5
<1> HIDE DEF values
<1>9. TotalShare(k) \in Nat
  BY <1>6, <1>7, <1>8, SumAtLeast
<1>10. Len(shares[k]) # 0
  <2> SUFFICES ASSUME Len(shares[k]) = 0 PROVE FALSE
    OBVIOUS
  <2>1. DOMAIN shares[k] = {}
    BY <1>4
  <2>2. TotalShare(k) = 0
    BY <1>6, <2>1, SumEmpty
  <2> QED BY <1>1, <1>2, <2>2
<1> QED BY <1>1, <1>2, <1>3, <1>4, <1>5, <1>9, <1>10

\* The portions of a cost are amounts and add up to it.
LEMMA PortionsAddUp ==
  ASSUME EngineType, NEW n \in Billed
  PROVE  LET cost == costs[n] D == DOMAIN shares[cost.key] IN
           /\ IsFiniteSet(D)
           /\ \A i \in D : Portions(cost)[i] \in Int
           /\ SumFunctionOnSet(Portions(cost), D) = cost.amount
<1> DEFINE cost == costs[n]
           T == TotalShare(cost.key)
           D == DOMAIN shares[cost.key]
           E == [j \in D |-> Exact(cost, j)]
<1>1. PICK last \in Nat \ {0} : last = Len(shares[cost.key]) /\ D = 1 .. last
  BY BilledFacts
<1>2. cost.amount \in Int /\ T \in Nat /\ T > 0 /\ \A i \in D : shares[cost.key][i].value \in Nat
  BY BilledFacts
<1>3. ASSUME NEW j \in D PROVE Exact(cost, j) \in Int
  <2>1. cost.amount * shares[cost.key][j].value \in Int
    BY <1>2
  <2> HIDE DEF cost
  <2>2. HalfUp(cost.amount * shares[cost.key][j].value, T) \in Int
    BY <1>2, <2>1, Rounded
  <2> QED BY <2>2 DEF Exact
<1>4. E \in [D -> Int]
  BY <1>3
<1> DEFINE before == [j \in 1 .. last - 1 |-> Exact(cost, j)]
           P == Portions(cost)
<1>5. P = [i \in 1 .. last |-> IF i < last THEN Exact(cost, i) ELSE cost.amount - SumOf(before)]
  BY <1>1 DEF Portions
<1>6. IsFiniteSet(1 .. last - 1) /\ IsFiniteSet(D)
  BY <1>1, FS_Interval
<1>7. \A j \in 1 .. last - 1 : before[j] \in Int
  BY <1>1, <1>3
<1>8. SumOf(before) = SumFunctionOnSet(before, 1 .. last - 1)
  <2>1. DOMAIN before = 1 .. last - 1
    OBVIOUS
  <2> HIDE DEF before
  <2> QED BY <2>1, SumOfAll
<1> HIDE DEF before, P, E, cost, D
<1>9. PICK rest \in Int : rest = SumFunctionOnSet(before, 1 .. last - 1)
  BY <1>6, <1>7, SumType
<1>10. \A i \in 1 .. last : P[i] \in Int
  BY <1>1, <1>2, <1>3, <1>5, <1>8, <1>9
<1>11. \A j \in 1 .. last - 1 : P[j] = before[j]
  BY <1>1, <1>5 DEF before
<1>12. SumFunctionOnSet(P, 1 .. last - 1) = rest
  BY <1>6, <1>7, <1>9, <1>11, SumExt
<1>13. SumFunctionOnSet(P, 1 .. last) = SumFunctionOnSet(P, 1 .. last - 1) + P[last]
  <2>1. PICK m \in Nat : last = m + 1
    <3>1. last - 1 \in Nat /\ last = (last - 1) + 1
      OBVIOUS
    <3> QED BY <3>1
  <2>2. SumFunctionOnSet(P, 1 .. m + 1) = SumFunctionOnSet(P, 1 .. m) + P[m + 1]
    BY <1>10, <2>1, SumUpTo
  <2>3. last - 1 = m
    BY <2>1
  <2> QED BY <2>1, <2>2, <2>3
<1>14. P[last] = cost.amount - rest
  BY <1>5, <1>8, <1>9
<1>15. SumFunctionOnSet(P, D) = cost.amount
  BY <1>1, <1>2, <1>12, <1>13, <1>14
<1> QED BY <1>1, <1>6, <1>10, <1>15 DEF P, cost, D

\* The contracts that get a statement are finitely many.
LEMMA StatedFinite == EngineType => Stated \subseteq Contracts /\ IsFiniteSet(Stated)
<1> SUFFICES ASSUME EngineType PROVE Stated \subseteq Contracts /\ IsFiniteSet(Stated)
  OBVIOUS
<1>1. Stated \subseteq Contracts
  BY ShareFacts DEF Stated
<1>2. IsFiniteSet(Contracts) /\ Stated \in SUBSET Contracts
  BY <1>1, AllocationAssumption
<1> QED BY <1>1, <1>2, FS_Subset

\* The costs that are billed are finitely many.
LEMMA BilledFinite == EngineType => IsFiniteSet(Billed)
<1> SUFFICES ASSUME EngineType PROVE IsFiniteSet(Billed)
  OBVIOUS
<1>1. costs \in Seq(Costs)
  BY DEF EngineType
<1>2. IsFiniteSet(DOMAIN costs)
  <2>1. DOMAIN costs = 1 .. Len(costs) /\ Len(costs) \in Nat
    BY <1>1
  <2> QED BY <2>1, FS_Interval
<1>3. Billed \in SUBSET (DOMAIN costs)
  BY DEF Billed
<1> QED BY <1>2, <1>3, FS_Subset

\* What a cost adds to the statements is the whole cost.
LEMMA LinesAddUp ==
  ASSUME EngineType, NEW n \in Billed
  PROVE  /\ \A c \in Stated : LineOf(costs[n], c) \in Int
         /\ SumFunctionOnSet([c \in Stated |-> LineOf(costs[n], c)], Stated) = costs[n].amount
<1> DEFINE cost == costs[n]
           list == shares[cost.key]
           D == DOMAIN list
           P == Portions(cost)
           m == [c \in Stated |-> [i \in D |-> IF list[i].contract = c THEN P[i] ELSE 0]]
           t == [i \in D |-> [c \in Stated |-> IF list[i].contract = c THEN P[i] ELSE 0]]
           rows == [c \in Stated |-> LineOf(cost, c)]
<1>1. IsFiniteSet(Stated) /\ IsFiniteSet(D)
  BY StatedFinite, PortionsAddUp
<1>2. (\A i \in D : P[i] \in Int) /\ SumFunctionOnSet(P, D) = cost.amount
  BY PortionsAddUp
<1>3. ASSUME NEW i \in D PROVE list[i].contract \in Stated
  BY BilledFacts DEF Stated
<1>4. ASSUME NEW c \in Stated PROVE rows[c] = SumFunctionOnSet(m[c], D) /\ rows[c] \in Int
  <2>a. rows[c] = SumOf(m[c]) /\ DOMAIN m[c] = D
    BY DEF LineOf
  <2>1. rows[c] = SumFunctionOnSet(m[c], D)
    <3> HIDE DEF rows, m, D
    <3> QED BY <2>a, SumOfAll
  <2>2. \A i \in D : m[c][i] \in Int
    BY <1>2
  <2> HIDE DEF m, rows, D
  <2>3. SumFunctionOnSet(m[c], D) \in Int
    BY <1>1, <2>2, SumType
  <2> QED BY <2>1, <2>3
<1>5. ASSUME NEW i \in D PROVE P[i] = SumFunctionOnSet(t[i], Stated)
  <2>1. PICK e \in Stated : e = list[i].contract
    BY <1>3
  <2>2. t[i][e] = P[i] /\ t[i][e] \in Int /\ \A c \in Stated \ {e} : t[i][c] = 0
    BY <1>2, <2>1
  <2> HIDE DEF t
  <2>3. SumFunctionOnSet(t[i], Stated) = t[i][e]
    BY <1>1, <2>2, SumOne
  <2> QED BY <2>2, <2>3
<1>6. \A c \in Stated, i \in D : m[c][i] \in Int /\ t[i][c] = m[c][i]
  BY <1>2
<1> HIDE DEF m, t, rows, P, D
<1>7. \A c \in Stated : rows[c] = SumFunctionOnSet(m[c], D)
  BY <1>4
<1>8. \A i \in D : P[i] = SumFunctionOnSet(t[i], Stated)
  BY <1>5
<1>9. IsTable(Stated, D, m, t, rows, P)
  BY <1>6, <1>7, <1>8 DEF IsTable
<1>10. SumFunctionOnSet(rows, Stated) = SumFunctionOnSet(P, D)
  BY <1>1, <1>9, SumExchange
<1> QED BY <1>2, <1>4, <1>10 DEF rows

\* The statements add up to the costs, in every state of these types.
LEMMA CostsExactState == EngineType => CostsExact
<1> SUFFICES ASSUME EngineType PROVE CostsExact
  OBVIOUS
<1> DEFINE m == [c \in Stated |-> [n \in Billed |-> LineOf(costs[n], c)]]
           t == [n \in Billed |-> [c \in Stated |-> LineOf(costs[n], c)]]
           list == [c \in Stated |-> Generate[c].balance + advances[c]]
           amounts == [n \in Billed |-> costs[n].amount]
<1>1. IsFiniteSet(Stated) /\ IsFiniteSet(Billed) /\ Stated \subseteq Contracts
  BY StatedFinite, BilledFinite
<1>2. \A c \in Stated, n \in Billed : m[c][n] \in Int /\ t[n][c] = m[c][n]
  BY LinesAddUp
<1>3. ASSUME NEW c \in Stated PROVE list[c] = SumFunctionOnSet(m[c], Billed)
  <2>a. TotalCost(c) = SumOf(m[c]) /\ DOMAIN m[c] = Billed
    BY DEF TotalCost
  <2>1. TotalCost(c) = SumFunctionOnSet(m[c], Billed)
    <3> HIDE DEF m
    <3> QED BY <2>a, SumOfAll
  <2>2. TotalCost(c) \in Int
    <3> HIDE DEF m
    <3> QED BY <1>1, <1>2, <2>1, SumType
  <2>3. advances[c] \in Int
    BY <1>1 DEF EngineType
  <2>4. list[c] = (TotalCost(c) - advances[c]) + advances[c]
    BY DEF Generate
  <2> HIDE DEF list, m
  <2> QED BY <2>1, <2>2, <2>3, <2>4
<1>4. ASSUME NEW n \in Billed PROVE amounts[n] = SumFunctionOnSet(t[n], Stated)
  BY LinesAddUp
<1>5. CostsExact <=> SumFunctionOnSet(list, Stated) = SumFunctionOnSet(amounts, Billed)
  <2>1. CostsExact <=> SumOf(list) = SumOf(amounts)
    BY DEF CostsExact
  <2>2. DOMAIN list = Stated /\ DOMAIN amounts = Billed
    OBVIOUS
  <2> HIDE DEF list, amounts
  <2> QED BY <2>1, <2>2, SumOfAll
<1> HIDE DEF m, t, list, amounts
<1>6. \A c \in Stated : list[c] = SumFunctionOnSet(m[c], Billed)
  BY <1>3
<1>7. \A n \in Billed : amounts[n] = SumFunctionOnSet(t[n], Stated)
  BY <1>4
<1>8. IsTable(Stated, Billed, m, t, list, amounts)
  BY <1>2, <1>6, <1>7 DEF IsTable
<1> QED BY <1>1, <1>5, <1>8, SumExchange

\* Rounding moves a portion by half a cent at most.
LEMMA ExactIsNear ==
  ASSUME EngineType, NEW n \in Billed, NEW i \in DOMAIN shares[costs[n].key]
  PROVE  LET cost == costs[n]
             T    == TotalShare(cost.key)
             off  == Exact(cost, i) * T - cost.amount * shares[cost.key][i].value
         IN  Exact(cost, i) \in Int /\ 2 * off <= T /\ -T <= 2 * off
<1> DEFINE cost == costs[n]
<1>1. PICK T \in Nat : T = TotalShare(cost.key) /\ T > 0
  BY BilledFacts
<1>2. PICK p \in Int : p = cost.amount * shares[cost.key][i].value
  <2>1. cost.amount \in Int /\ shares[cost.key][i].value \in Nat
    BY BilledFacts
  <2> HIDE DEF cost
  <2> QED BY <2>1
<1>3. PICK e \in Int : e = HalfUp(p, T) /\ 2 * (e * T - p) <= T /\ -T <= 2 * (e * T - p)
  BY <1>1, Rounded
<1>4. Exact(cost, i) = e
  BY <1>1, <1>2, <1>3 DEF Exact
<1> HIDE DEF cost
<1>5. 2 * (Exact(cost, i) * T - cost.amount * shares[cost.key][i].value) = 2 * (e * T - p)
  BY <1>2, <1>4
<1> QED BY <1>1, <1>3, <1>4, <1>5 DEF cost

\* How far the portions are off, each times the sum of the shares, adds up to
\* nothing.
LEMMA OffsCancel ==
  ASSUME EngineType, NEW n \in Billed
  PROVE  LET cost == costs[n]
             D    == DOMAIN shares[cost.key]
             T    == TotalShare(cost.key)
         IN  SumFunctionOnSet([i \in D |-> Portions(cost)[i] * T
                                           - cost.amount * shares[cost.key][i].value], D) = 0
<1> DEFINE cost == costs[n]
           list == shares[cost.key]
           D    == DOMAIN list
           P    == Portions(cost)
<1>1. PICK T \in Nat : T = TotalShare(cost.key) /\ T > 0
  BY BilledFacts
<1>2. PICK a \in Int : a = cost.amount
  BY BilledFacts
<1>3. IsFiniteSet(D) /\ (\A i \in D : P[i] \in Int) /\ SumFunctionOnSet(P, D) = a
  BY <1>2, PortionsAddUp
<1> DEFINE values == [i \in D |-> list[i].value]
<1>4. (\A i \in D : values[i] \in Int) /\ DOMAIN values = D
  <2>1. \A i \in D : list[i].value \in Nat
    BY BilledFacts
  <2> HIDE DEF D, list
  <2> QED BY <2>1
<1>5. SumFunctionOnSet(values, D) = T
  <2>1. T = SumOf(values)
    BY <1>1 DEF TotalShare
  <2> HIDE DEF values, D
  <2> QED BY <1>4, <2>1, SumOfAll
<1> DEFINE scaled == [i \in D |-> T * P[i]]
           due    == [i \in D |-> (-a) * values[i]]
           off    == [i \in D |-> P[i] * T - a * list[i].value]
<1>6. \A i \in D : scaled[i] \in Int /\ due[i] \in Int /\ off[i] = scaled[i] + due[i]
  <2> SUFFICES ASSUME NEW i \in D PROVE scaled[i] \in Int /\ due[i] \in Int /\ off[i] = scaled[i] + due[i]
    OBVIOUS
  <2>1. PICK x \in Int : x = P[i]
    BY <1>3
  <2>2. PICK v \in Int : v = values[i] /\ v = list[i].value
    BY <1>4
  <2>3. scaled[i] = T * x /\ due[i] = (-a) * v /\ off[i] = x * T - a * v
    BY <2>1, <2>2
  <2> HIDE DEF scaled, due, off, values, D, P, list
  <2> QED BY <2>3
<1>7. \A i \in D : scaled[i] = T * P[i] /\ due[i] = (-a) * values[i]
  OBVIOUS
<1> HIDE DEF scaled, due, off, values, D, P
<1>8. SumFunctionOnSet(off, D) = SumFunctionOnSet(scaled, D) + SumFunctionOnSet(due, D)
  BY <1>3, <1>6, SumPlus
<1>9. SumFunctionOnSet(scaled, D) = T * a
  <2>1. T \in Int
    OBVIOUS
  <2>2. \A i \in D : P[i] \in Int /\ scaled[i] = T * P[i]
    BY <1>3, <1>7
  <2> QED BY <1>3, <2>1, <2>2, SumTimes
<1>10. SumFunctionOnSet(due, D) = (-a) * T
  <2>1. -a \in Int
    OBVIOUS
  <2>2. \A i \in D : values[i] \in Int /\ due[i] = (-a) * values[i]
    BY <1>4, <1>7
  <2> QED BY <1>3, <1>5, <2>1, <2>2, SumTimes
<1>11. T * a + (-a) * T = 0
  OBVIOUS
<1>12. SumFunctionOnSet(off, D) = 0
  BY <1>8, <1>9, <1>10, <1>11
<1> QED BY <1>1, <1>2, <1>12 DEF off, D, P

\* No share is off by more than rounding, in every state of these types.
LEMMA FairSharesState == EngineType => FairShares
<1> SUFFICES ASSUME EngineType, NEW n \in Billed, NEW i \in DOMAIN shares[costs[n].key]
             PROVE  LET cost  == costs[n]
                        list  == shares[cost.key]
                        off   == Portions(cost)[i] * TotalShare(cost.key) - cost.amount * list[i].value
                        slack == TotalShare(cost.key) * (IF i < Len(list) THEN 1 ELSE Len(list) - 1)
                    IN  2 * off <= slack /\ -(2 * off) <= slack
  BY DEF FairShares
<1> DEFINE cost == costs[n]
           list == shares[cost.key]
           D    == DOMAIN list
           P    == Portions(cost)
           off  == [j \in D |-> P[j] * TotalShare(cost.key) - cost.amount * list[j].value]
<1>1. PICK T \in Nat : T = TotalShare(cost.key) /\ T > 0
  BY BilledFacts
<1>2. PICK last \in Nat \ {0} : last = Len(list) /\ D = 1 .. last
  BY BilledFacts
<1>3. \A j \in D : j < last => P[j] = Exact(cost, j)
  BY <1>2 DEF Portions
<1>4. \A j \in D : off[j] \in Int
  <2> SUFFICES ASSUME NEW j \in D PROVE off[j] \in Int
    OBVIOUS
  <2>a. P[j] \in Int
    BY PortionsAddUp
  <2>b. list[j].value \in Nat /\ cost.amount \in Int
    BY BilledFacts
  <2>1. P[j] \in Int /\ cost.amount \in Int /\ list[j].value \in Int
    BY <2>a, <2>b
  <2> HIDE DEF P, cost
  <2> QED BY <1>1, <2>1
<1>5. ASSUME NEW j \in D, j < last PROVE 2 * off[j] <= T /\ -T <= 2 * off[j]
  <2>1. off[j] = Exact(cost, j) * T - cost.amount * list[j].value
    BY <1>1, <1>3, <1>5
  <2>2. LET o == Exact(cost, j) * T - cost.amount * list[j].value IN 2 * o <= T /\ -T <= 2 * o
    BY <1>1, ExactIsNear
  <2> QED BY <2>1, <2>2
<1>6. SumFunctionOnSet(off, D) = 0
  BY OffsCancel
<1>7. off[i] = P[i] * T - cost.amount * list[i].value
  BY <1>1
<1> HIDE DEF off, P, D
<1>8. CASE i < last
  <2>1. 2 * off[i] <= T /\ -(2 * off[i]) <= T
    <3>1. i \in D
      BY DEF D
    <3>2. PICK o \in Int : o = off[i]
      BY <1>4, <3>1
    <3> QED BY <1>5, <1>8, <3>1, <3>2
  <2> QED BY <1>1, <1>2, <1>7, <1>8, <2>1 DEF P
<1>9. CASE ~(i < last)
  <2>1. i = last /\ i \in D
    BY <1>2, <1>9 DEF D
  <2>2. PICK m \in Nat : last = m + 1
    <3>1. last - 1 \in Nat /\ last = (last - 1) + 1
      OBVIOUS
    <3> QED BY <3>1
  <2>3. SumFunctionOnSet(off, 1 .. m + 1) = SumFunctionOnSet(off, 1 .. m) + off[m + 1]
    BY <1>2, <1>4, <2>2, SumUpTo
  <2> DEFINE twice == [j \in 1 .. m |-> 2 * off[j]]
  <2>4. IsFiniteSet(1 .. m) /\ Cardinality(1 .. m) = m
    BY FS_Interval
  <2>5. \A j \in 1 .. m : /\ off[j] \in Int /\ twice[j] = 2 * off[j]
                          /\ twice[j] \in Int /\ -T <= twice[j] /\ twice[j] <= T
    BY <1>2, <1>4, <1>5, <2>2
  <2> HIDE DEF twice
  <2>6. SumFunctionOnSet(twice, 1 .. m) = 2 * SumFunctionOnSet(off, 1 .. m)
    <3>1. PICK two \in Int : two = 2
      OBVIOUS
    <3>2. \A j \in 1 .. m : off[j] \in Int /\ twice[j] = two * off[j]
      BY <2>5, <3>1
    <3>3. SumFunctionOnSet(twice, 1 .. m) = two * SumFunctionOnSet(off, 1 .. m)
      BY <2>4, <3>2, SumTimes
    <3> QED BY <3>1, <3>3
  <2>7. SumFunctionOnSet(twice, 1 .. m) <= T * m /\ -(T * m) <= SumFunctionOnSet(twice, 1 .. m)
    <3>1. T \in Int
      OBVIOUS
    <3>2. \A j \in 1 .. m : twice[j] \in Int /\ -T <= twice[j] /\ twice[j] <= T
      BY <2>5
    <3>3. /\ SumFunctionOnSet(twice, 1 .. m) <= T * Cardinality(1 .. m)
          /\ -(T * Cardinality(1 .. m)) <= SumFunctionOnSet(twice, 1 .. m)
      BY <2>4, <3>1, <3>2, SumWithin
    <3> QED BY <2>4, <3>3
  <2>8. PICK rest \in Int : rest = SumFunctionOnSet(off, 1 .. m)
    BY <2>4, <2>5, SumType
  <2>9. PICK o \in Int : o = off[i]
    BY <1>4, <2>1
  <2>10. rest + o = 0
    BY <1>2, <1>6, <2>1, <2>2, <2>3, <2>8, <2>9
  <2>11. PICK b \in Int : b = T * m
    OBVIOUS
  <2>12. 2 * o <= b /\ -(2 * o) <= b
    BY <2>6, <2>7, <2>8, <2>10, <2>11
  <2>13. last - 1 = m
    BY <2>2
  <2> QED BY <1>1, <1>2, <1>7, <1>9, <2>9, <2>11, <2>12, <2>13 DEF P
<1> QED BY <1>8, <1>9
-----------------------------------------------------------------------------
(* The preflight.                                                          *)

\* A consumption is never below zero.
LEMMA ConsumptionType ==
  ASSUME PeriodType, NEW f \in Flats
  PROVE  Consumption(f) \in Nat
<1> DEFINE rows == readings[f]
           kept == {i \in DOMAIN rows : rows[i].day \in PeriodDays}
           N    == Cardinality(kept)
<1>1. rows \in Seq([day : Nat, value : Nat])
  BY PreflightAssumption DEF PeriodType
<1>2. /\ DOMAIN rows \subseteq Nat /\ IsFiniteSet(DOMAIN rows)
      /\ \A i \in DOMAIN rows : rows[i].day \in Int /\ rows[i].value \in Nat
  <2>1. /\ DOMAIN rows = 1 .. Len(rows) /\ Len(rows) \in Nat /\ IsFiniteSet(DOMAIN rows)
        /\ \A i \in DOMAIN rows : rows[i] \in [day : Nat, value : Nat]
    <3> HIDE DEF rows
    <3> QED BY <1>1, SeqFacts
  <2> QED BY <2>1
<1>3. kept \in SUBSET (DOMAIN rows) /\ IsFiniteSet(kept) /\ N \in Nat
  BY <1>2, FS_Subset, FS_CardinalityType
<1> DEFINE inside == ByDay(rows, kept)
<1>4. Consumption(f) = IF Len(inside) < 2 THEN 0
                       ELSE Positive(inside[Len(inside)].value - inside[1].value)
  BY DEF Consumption
<1> HIDE DEF kept, inside, rows
<1>5. PICK p \in Bijection(1 .. N, kept) : inside = [n \in 1 .. N |-> rows[p[n]]]
  BY <1>2, <1>3, ByDayIs DEF inside
<1>6. \A n \in 1 .. N : inside[n].value \in Nat
  <2>1. \A n \in 1 .. N : p[n] \in DOMAIN rows
    BY <1>3 DEF Bijection, Surjection
  <2> QED BY <1>2, <1>5, <2>1
<1>7. Len(inside) = N
  BY <1>3, <1>5
<1>8. CASE N < 2
  BY <1>4, <1>7, <1>8
<1>9. CASE ~(N < 2)
  <2>1. inside[N].value \in Nat /\ inside[1].value \in Nat
    BY <1>3, <1>6, <1>9
  <2> QED BY <1>3, <1>4, <1>7, <1>9, <2>1 DEF Positive
<1> QED BY <1>8, <1>9

\* Both judge alike, in every state of these types.
LEMMA PreflightAgreesState == PeriodType => PreflightAgrees
<1> SUFFICES ASSUME PeriodType PROVE PreflightAgrees
  OBVIOUS
<1>1. \A c \in DOMAIN current : current[c] \in Flats /\ current[c] \in Lived
  BY DEF PeriodType, Lived, Range
<1>2. \A f \in Lived : \E c \in DOMAIN current : f = current[c]
  BY DEF Lived, Range
<1>3. \A f \in Flats : flats[f].area_sqm \in Nat /\ Persons(f) \in Nat
  BY DEF PeriodType, Persons
<1>4. ASSUME NEW c \in DOMAIN current
      PROVE  /\ Share(c, "area_sqm") <= 0 <=> flats[current[c]].area_sqm = 0
             /\ Share(c, "person_count") <= 0 <=> Persons(current[c]) = 0
             /\ Share(c, "consumption") <= 0 <=> Consumption(current[c]) = 0
             /\ ~(Share(c, "unit_count") <= 0)
  <2>1. /\ flats[current[c]].area_sqm \in Nat /\ Persons(current[c]) \in Nat
        /\ Consumption(current[c]) \in Nat
    BY <1>1, <1>3, ConsumptionType
  <2> QED BY <2>1 DEF Share
<1> DEFINE NoArea        == "area_sqm" \in items /\ \E f \in Lived : flats[f].area_sqm = 0
           NoPersons     == "person_count" \in items /\ \E f \in Lived : Persons(f) = 0
           NoConsumption == /\ "consumption" \in items /\ Lived # {}
                            /\ \A f \in Lived : Consumption(f) = 0
<1>5. Blockers # {} <=> current = <<>> \/ items = {} \/ NoArea \/ NoPersons \/ NoConsumption
  <2>1. "NO_ACTIVE_CONTRACTS" \in Blockers <=> current = <<>>
    BY DEF Blockers
  <2>2. "NO_COST_ITEMS" \in Blockers <=> items = {}
    BY DEF Blockers
  <2>3. "MISSING_AREA" \in Blockers <=> NoArea
    BY DEF Blockers
  <2>4. "MISSING_PERSON_COUNT" \in Blockers <=> NoPersons
    BY DEF Blockers
  <2>5. "MISSING_CONSUMPTION" \in Blockers <=> NoConsumption
    BY DEF Blockers
  <2>6. Blockers \subseteq {"NO_ACTIVE_CONTRACTS", "NO_COST_ITEMS", "MISSING_AREA",
                            "MISSING_PERSON_COUNT", "MISSING_CONSUMPTION"}
    BY DEF Blockers
  <2> HIDE DEF NoArea, NoPersons, NoConsumption
  <2> QED BY <2>1, <2>2, <2>3, <2>4, <2>5, <2>6
<1>6. Refused <=> current = <<>> \/ items = {} \/ NoArea \/ NoPersons \/ SomeUnread
  <2>1. items \subseteq KeyTypes
    BY DEF PeriodType
  <2>2. (\E c \in DOMAIN current, type \in items : Share(c, type) <= 0)
          <=> NoArea \/ NoPersons \/ SomeUnread
    BY <1>1, <1>2, <1>4, <2>1 DEF KeyTypes, SomeUnread
  <2> QED BY <2>2 DEF Refused
<1>7. NoConsumption => SomeUnread
  BY DEF SomeUnread
<1> QED BY <1>5, <1>6, <1>7 DEF PreflightAgrees
-----------------------------------------------------------------------------
(* The match of an invoice, and the bookings in the order of their days.   *)

Bookings == [day : Days, amount : Payments]

\* Sorted by day, the bookings are the same bookings.
LEMMA BookingsByDay ==
  ASSUME NEW pays \in Seq(Bookings)
  PROVE  /\ Len(pays) \in Nat
         /\ DOMAIN ByDay(pays, DOMAIN pays) = 1 .. Len(pays)
         /\ AmountsOf(ByDay(pays, DOMAIN pays)) \in [1 .. Len(pays) -> Nat]
         /\ SumFunctionOnSet(AmountsOf(ByDay(pays, DOMAIN pays)), 1 .. Len(pays)) = SumOf(AmountsOf(pays))
<1> DEFINE rows == ByDay(pays, DOMAIN pays)
           m == Len(pays)
<1>1. /\ m \in Nat /\ DOMAIN pays = 1 .. m /\ IsFiniteSet(DOMAIN pays)
      /\ \A i \in DOMAIN pays : pays[i] \in Bookings
  <2>1. m \in Nat /\ DOMAIN pays = 1 .. m /\ \A i \in DOMAIN pays : pays[i] \in Bookings
    OBVIOUS
  <2>2. 1 \in Int /\ m \in Int
    OBVIOUS
  <2>3. IsFiniteSet(1 .. m)
    BY <2>2, FS_Interval
  <2> QED BY <2>1, <2>3
<1>2. \A i \in DOMAIN pays : pays[i].day \in Int /\ pays[i].amount \in Nat
  <2> SUFFICES ASSUME NEW i \in DOMAIN pays PROVE pays[i].day \in Int /\ pays[i].amount \in Nat
    OBVIOUS
  <2>1. pays[i].day \in Days /\ pays[i].amount \in Payments
    BY <1>1 DEF Bookings
  <2>2. Days \subseteq Nat /\ Payments \subseteq Nat
    BY AccountAssumption
  <2>3. pays[i].day \in Nat /\ pays[i].amount \in Nat
    BY <2>1, <2>2, Zenon
  <2>4. \A k \in Nat : k \in Int
    OBVIOUS
  <2> QED BY <2>3, <2>4, Zenon
<1>3. Cardinality(DOMAIN pays) = m
  <2>1. 1 \in Int /\ m \in Int
    BY <1>1
  <2>2. Cardinality(1 .. m) = IF 1 > m THEN 0 ELSE m - 1 + 1
    BY <2>1, FS_Interval
  <2> QED BY <1>1, <2>2
<1>4. PICK kept : kept = DOMAIN pays
  OBVIOUS
<1>5. \E p \in Bijection(1 .. Cardinality(kept), kept) :
           ByDay(pays, kept) = [n \in 1 .. Cardinality(kept) |-> pays[p[n]]]
  <2>1. kept \in SUBSET (DOMAIN pays) /\ IsFiniteSet(kept) /\ DOMAIN pays \subseteq Nat
    BY <1>1, <1>4
  <2> QED BY <1>2, <2>1, ByDayIs
<1> HIDE DEF m
<1>6. PICK p \in Bijection(1 .. m, 1 .. m) : rows = [n \in 1 .. m |-> pays[p[n]]]
  BY <1>1, <1>3, <1>4, <1>5
<1>7. p \in [1 .. m -> 1 .. m]
  BY DEF Bijection, Injection
<1>8. DOMAIN rows = 1 .. m /\ \A i \in 1 .. m : rows[i] = pays[p[i]] /\ p[i] \in DOMAIN pays
  BY <1>1, <1>6, <1>7
<1> HIDE DEF rows
<1> DEFINE amounts == AmountsOf(rows)
           booked == AmountsOf(pays)
<1>9. amounts = [i \in 1 .. m |-> rows[i].amount] /\ booked = [i \in 1 .. m |-> pays[i].amount]
  BY <1>1, <1>8 DEF AmountsOf
<1>10. /\ amounts \in [1 .. m -> Nat]
       /\ \A i \in 1 .. m : amounts[i] = booked[p[i]]
       /\ \A i \in 1 .. m : booked[i] \in Int
  <2>1. \A i \in 1 .. m : booked[i] = pays[i].amount /\ booked[i] \in Nat
    BY <1>1, <1>2, <1>9
  <2>2. ASSUME NEW i \in 1 .. m PROVE amounts[i] = booked[p[i]] /\ amounts[i] \in Nat
    <3>1. p[i] \in 1 .. m
      BY <1>7
    <3>2. amounts[i] = rows[i].amount /\ rows[i] = pays[p[i]]
      BY <1>8, <1>9
    <3>3. booked[p[i]] = pays[p[i]].amount /\ booked[p[i]] \in Nat
      BY <2>1, <3>1
    <3> HIDE DEF amounts, booked
    <3> QED BY <3>2, <3>3
  <2>3. amounts = [i \in 1 .. m |-> amounts[i]]
    BY <1>9
  <2> HIDE DEF amounts, booked
  <2> QED BY <2>1, <2>2, <2>3
<1>11. DOMAIN booked = 1 .. m
  BY <1>9
<1> HIDE DEF amounts, booked
<1>12. SumFunctionOnSet(amounts, 1 .. m) = SumFunctionOnSet(booked, 1 .. m)
  <2>1. IsFiniteSet(1 .. m)
    BY <1>1
  <2>2. PICK A : A = 1 .. m
    OBVIOUS
  <2>3. p \in Bijection(A, A) /\ IsFiniteSet(A)
    BY <2>1, <2>2
  <2>4. \A b \in A : booked[b] \in Int
    BY <1>10, <2>2
  <2>5. \A a \in A : amounts[a] = booked[p[a]]
    BY <1>10, <2>2
  <2>6. SumFunctionOnSet(amounts, A) = SumFunctionOnSet(booked, A)
    BY <2>3, <2>4, <2>5, SumMoved
  <2> QED BY <2>2, <2>6
<1>13. SumOf(booked) = SumFunctionOnSet(booked, 1 .. m)
  BY <1>11, SumOfAll
<1> QED BY <1>1, <1>8, <1>10, <1>12, <1>13 DEF amounts, booked, rows, m

\* An invoice leaves of itself what a payment of its amount leaves.
LEMMA MatchIs ==
  ASSUME NEW n \in Nat, NEW rows, DOMAIN rows = 1 .. n, Len(rows) = n,
         NEW owed \in [1 .. n -> Nat], \A i \in 1 .. n : owed[i] = rows[i].amount, NEW gross \in Nat
  PROVE  Match(gross, rows)
           = [refused |-> FALSE, amounts |-> Allocated(gross, owed), unmatched |-> Spent(gross, owed)[n]]
<1> DEFINE Gives(before, amount) == IF before = 0 \/ Smaller(before, amount) <= 0 THEN before
                                    ELSE before - Smaller(before, amount)
           Is(g) == g = [i \in 0 .. Len(rows) |-> IF i = 0 THEN gross ELSE Gives(g[i - 1], rows[i].amount)]
           left == CHOOSE g : Is(g)
           spent == Spent(gross, owed)
<1>1. n \in Nat /\ DOMAIN rows = 1 .. n /\ owed \in [1 .. n -> Nat] /\ gross \in Int
  OBVIOUS
<1>2. Len(rows) = n
  OBVIOUS
<1>3. Match(gross, rows) = [refused   |-> FALSE,
                            amounts   |-> [i \in 1 .. n |-> left[i - 1] - left[i]],
                            unmatched |-> left[n]]
  <2>1. Match(gross, rows) = [refused   |-> FALSE,
                              amounts   |-> [i \in 1 .. Len(rows) |-> left[i - 1] - left[i]],
                              unmatched |-> left[Len(rows)]]
    BY DEF Match
  <2> HIDE DEF left
  <2> QED BY <1>2, <2>1
<1>4. \A i \in 1 .. n : rows[i].amount = owed[i]
  OBVIOUS
<1>5. /\ spent \in [0 .. n -> Int] /\ spent[0] = gross
      /\ \A i \in 1 .. n : spent[i] = spent[i - 1] - Taken(spent[i - 1], owed[i])
  <2>1. spent \in [0 .. n -> Int]
    BY <1>1, SpentIs
  <2>2. spent[0] = gross
    BY <1>1, SpentIs
  <2>3. \A i \in 1 .. n : spent[i] = spent[i - 1] - Taken(spent[i - 1], owed[i])
    BY <1>1, SpentIs
  <2> QED BY <2>1, <2>2, <2>3
<1>6. Takes(n, gross, owed)
  BY <1>1, RowsTake
<1>7. Allocated(gross, owed) = [i \in 1 .. n |-> Taken(spent[i - 1], owed[i])]
  BY <1>6 DEF Takes
<1> HIDE DEF spent
<1>8. \A v \in Int, a \in Nat : Gives(v, a) = v - Taken(v, a) /\ Taken(v, a) \in Int
  BY DEF Taken, Smaller
<1> HIDE DEF Gives
<1>9. ASSUME NEW i \in 1 .. n
      PROVE  spent[i] = Gives(spent[i - 1], rows[i].amount) /\ spent[i - 1] - spent[i] = Taken(spent[i - 1], owed[i])
  <2>1. i - 1 \in 0 .. n
    BY <1>1
  <2>2. spent[i - 1] \in Int /\ owed[i] \in Nat
    BY <1>1, <1>5, <2>1
  <2>3. PICK v \in Int : v = spent[i - 1]
    BY <2>2
  <2>4. PICK a \in Nat : a = owed[i]
    BY <2>2
  <2>5. Gives(v, a) = v - Taken(v, a) /\ Taken(v, a) \in Int
    BY <1>8
  <2>6. spent[i] = v - Taken(v, a)
    BY <1>5, <2>3, <2>4
  <2>7. v - (v - Taken(v, a)) = Taken(v, a)
    BY <2>5
  <2> QED BY <1>4, <2>3, <2>4, <2>5, <2>6, <2>7
<1>10. Is(spent)
  <2>1. spent = [i \in 0 .. n |-> spent[i]] /\ Len(rows) = n
    BY <1>2, <1>5
  <2>2. \A i \in 0 .. n : spent[i] = IF i = 0 THEN gross ELSE Gives(spent[i - 1], rows[i].amount)
    BY <1>1, <1>5, <1>9
  <2> QED BY <2>1, <2>2
<1>11. Is(left)
  BY <1>10, Zenon
<1> HIDE DEF left
<1>12. /\ left = [i \in 0 .. n |-> left[i]] /\ left[0] = gross
       /\ \A i \in 1 .. n : left[i] = Gives(left[i - 1], rows[i].amount)
  <2>1. left = [i \in 0 .. n |-> IF i = 0 THEN gross ELSE Gives(left[i - 1], rows[i].amount)]
    BY <1>2, <1>11
  <2>2. 0 \in 0 .. n /\ \A i \in 1 .. n : i \in 0 .. n /\ i # 0
    BY <1>1
  <2> QED BY <2>1, <2>2
<1> DEFINE N == {i \in Nat : i <= n => left[i] = spent[i]}
<1>13. 0 \in N
  BY <1>5, <1>12
<1>14. ASSUME NEW i \in Nat, i \in N PROVE i + 1 \in N
  <2> SUFFICES ASSUME i + 1 <= n PROVE left[i + 1] = spent[i + 1]
    OBVIOUS
  <2>1. i + 1 \in 1 .. n /\ (i + 1) - 1 = i /\ i <= n
    BY <1>1
  <2>2. left[i + 1] = Gives(left[i], rows[i + 1].amount)
    BY <1>12, <2>1
  <2>3. spent[i + 1] = Gives(spent[i], rows[i + 1].amount)
    BY <1>9, <2>1
  <2> QED BY <1>14, <2>1, <2>2, <2>3
<1> HIDE DEF N
<1>15. \A i \in Nat : i \in N
  BY <1>13, <1>14, Induction
<1>16. \A i \in 0 .. n : left[i] = spent[i]
  BY <1>1, <1>15 DEF N
<1>17. [i \in 1 .. n |-> left[i - 1] - left[i]] = Allocated(gross, owed) /\ left[n] = spent[n]
  <2>1. ASSUME NEW i \in 1 .. n PROVE left[i - 1] - left[i] = Taken(spent[i - 1], owed[i])
    <3>1. i \in 0 .. n /\ i - 1 \in 0 .. n
      BY <1>1
    <3>2. left[i - 1] = spent[i - 1] /\ left[i] = spent[i]
      BY <1>16, <3>1
    <3> QED BY <1>9, <3>2
  <2>2. n \in 0 .. n
    BY <1>1
  <2> QED BY <1>7, <1>16, <2>1, <2>2
<1> QED BY <1>3, <1>17 DEF spent

\* The candidates are the open bookings of money that went out, by day.
LEMMA CandidatesAre ==
  ASSUME MatchingType
  PROVE  LET n == Cardinality(Unsettled) owed == AmountsOf(Candidates) IN
           /\ n \in Nat /\ DOMAIN Candidates = 1 .. n /\ Len(Candidates) = n
           /\ owed \in [1 .. n -> Nat] /\ \A i \in 1 .. n : owed[i] = Candidates[i].amount
           /\ SumFunctionOnSet(owed, 1 .. n) = SumOf([i \in Unsettled |-> -bookings[i].amount])
<1> DEFINE D == Unsettled
           n == Cardinality(D)
           row == [i \in D |-> [day |-> bookings[i].day, amount |-> -bookings[i].amount]]
           debt == [i \in D |-> -bookings[i].amount]
           owed == AmountsOf(Candidates)
<1>1. IsFiniteSet(D) /\ D \subseteq Nat /\ n \in Nat
  <2>1. bookings \in Seq(Booking)
    BY DEF MatchingType
  <2>2. IsFiniteSet(DOMAIN bookings) /\ DOMAIN bookings \subseteq Nat
    BY <2>1, SeqFacts
  <2>3. D \in SUBSET (DOMAIN bookings)
    BY DEF Unsettled
  <2> HIDE DEF D
  <2>4. IsFiniteSet(D)
    BY <2>2, <2>3, FS_Subset
  <2> QED BY <2>2, <2>3, <2>4, FS_CardinalityType
<1>2. \A i \in D : bookings[i].day \in Nat /\ -bookings[i].amount \in Nat
  <2> SUFFICES ASSUME NEW i \in D PROVE bookings[i].day \in Nat /\ -bookings[i].amount \in Nat
    OBVIOUS
  <2>1. bookings[i] \in Booking /\ bookings[i].amount < 0
    BY DEF Unsettled, MatchingType
  <2>2. PICK d \in BookingDays, a \in BookingAmounts : d = bookings[i].day /\ a = bookings[i].amount
    BY <2>1 DEF Booking
  <2>3. d \in Nat /\ a \in Int
    BY MatchingAssumption
  <2> QED BY <2>1, <2>2, <2>3
<1>3. /\ \A i \in D : row[i].day \in Int /\ row[i].amount = debt[i] /\ debt[i] \in Nat
      /\ DOMAIN row = D /\ DOMAIN debt = D
      /\ Candidates = ByDay(row, D)
  <2>1. Candidates = ByDay(row, D)
    BY DEF Candidates
  <2>2. ASSUME NEW i \in D PROVE row[i].day \in Int /\ row[i].amount = debt[i] /\ debt[i] \in Nat
    <3>1. row[i].day = bookings[i].day /\ row[i].amount = -bookings[i].amount /\ debt[i] = -bookings[i].amount
      OBVIOUS
    <3> HIDE DEF row, debt
    <3> QED BY <1>2, <3>1
  <2> QED BY <2>1, <2>2
<1> HIDE DEF row, debt, D, n
<1>4. PICK p \in Bijection(1 .. n, D) : ByDay(row, D) = [i \in 1 .. n |-> row[p[i]]]
  <2>1. D \in SUBSET (DOMAIN row) /\ DOMAIN row \subseteq Nat /\ \A i \in DOMAIN row : row[i].day \in Int
    BY <1>1, <1>3
  <2> QED BY <1>1, <2>1, ByDayIs DEF n
<1>5. p \in [1 .. n -> D]
  BY DEF Bijection, Injection
<1>6. Candidates = [i \in 1 .. n |-> row[p[i]]]
  BY <1>3, <1>4
<1>7. DOMAIN Candidates = 1 .. n /\ Len(Candidates) = n
  BY <1>1, <1>6
<1>8. ASSUME NEW i \in 1 .. n
      PROVE  owed[i] = Candidates[i].amount /\ owed[i] = debt[p[i]] /\ owed[i] \in Nat
  <2>1. p[i] \in D /\ Candidates[i] = row[p[i]]
    BY <1>5, <1>6
  <2>2. owed[i] = Candidates[i].amount
    BY <1>7 DEF AmountsOf
  <2> HIDE DEF owed
  <2> QED BY <1>3, <2>1, <2>2
<1>9. owed = [i \in 1 .. n |-> owed[i]]
  BY <1>7 DEF AmountsOf
<1> HIDE DEF owed
<1>10. owed \in [1 .. n -> Nat]
  BY <1>8, <1>9
<1>11. SumFunctionOnSet(owed, 1 .. n) = SumFunctionOnSet(debt, D)
  <2>1. IsFiniteSet(1 .. n)
    <3>1. 1 \in Int /\ n \in Int
      BY <1>1
    <3> QED BY <3>1, FS_Interval
  <2>2. PICK N : N = 1 .. n
    OBVIOUS
  <2>3. p \in Bijection(N, D) /\ IsFiniteSet(N) /\ \A a \in N : owed[a] = debt[p[a]]
    BY <1>8, <2>1, <2>2
  <2>4. \A b \in D : debt[b] \in Int
    BY <1>3
  <2>5. SumFunctionOnSet(owed, N) = SumFunctionOnSet(debt, D)
    BY <2>3, <2>4, SumMoved
  <2> QED BY <2>2, <2>5
<1>12. SumOf(debt) = SumFunctionOnSet(debt, D)
  BY <1>3, SumOfAll
<1> QED BY <1>1, <1>7, <1>8, <1>10, <1>11, <1>12 DEF owed, debt, D, n

\* Both agree for any bookings and any invoice, and no invoice is over while
\* there is a booking left for it.
LEMMA MatchAgreesState == MatchingType => MatchAgrees
<1> SUFFICES ASSUME MatchingType, NEW gross \in Invoices
    PROVE  LET match == Match(gross, Candidates)
               same  == Fifo(AmountsOf(Candidates), <<gross>>)
               open  == SumOf([i \in Unsettled |-> -bookings[i].amount])
           IN  IF gross < 0 THEN match.refused
               ELSE /\ ~match.refused
                    /\ match.amounts = same.paid[1] /\ match.unmatched = same.unapplied
                    /\ match.unmatched = Positive(gross - open)
  BY DEF MatchAgrees
<1>a. gross \in Int
  BY MatchingAssumption
<1>b. CASE gross < 0
  <2>1. Match(gross, Candidates) = Refusal
    BY <1>b DEF Match
  <2>2. Refusal.refused
    BY DEF Refusal
  <2> QED BY <1>b, <2>1, <2>2
<1>c. SUFFICES ASSUME ~(gross < 0)
    PROVE  LET match == Match(gross, Candidates)
               same  == Fifo(AmountsOf(Candidates), <<gross>>)
               open  == SumOf([i \in Unsettled |-> -bookings[i].amount])
           IN  /\ ~match.refused
               /\ match.amounts = same.paid[1] /\ match.unmatched = same.unapplied
               /\ match.unmatched = Positive(gross - open)
  BY <1>b
<1>1. gross \in Nat /\ gross \in Int
  BY <1>a, <1>c
<1> DEFINE totals == AmountsOf(Candidates)
           n == Cardinality(Unsettled)
           open == SumOf([i \in Unsettled |-> -bookings[i].amount])
<1>2. /\ DOMAIN Candidates = 1 .. n /\ Len(Candidates) = n
      /\ \A i \in 1 .. n : totals[i] = Candidates[i].amount
  BY CandidatesAre
<1>3. n \in Nat /\ totals \in [1 .. n -> Nat] /\ First(totals, n) = open
  BY CandidatesAre DEF First
<1> HIDE DEF totals, n, open
<1>4. Match(gross, Candidates)
        = [refused |-> FALSE, amounts |-> Allocated(gross, totals), unmatched |-> Spent(gross, totals)[n]]
  BY <1>1, <1>2, <1>3, MatchIs
<1>d. Spent(gross, totals)[n] = Positive(gross - open)
  <2>1. n \in 0 .. n
    BY <1>3
  <2> QED BY <1>1, <1>3, <2>1, SpentLeaves
<1>5. PICK amounts : amounts = <<gross>>
  OBVIOUS
<1>6. amounts \in [1 .. 1 -> Int] /\ Len(amounts) = 1 /\ amounts[1] = gross /\ 1 \in Nat
  BY <1>1, <1>5
<1>7. PaidOff(n, totals, 1, amounts, Owed(totals, amounts))
  BY <1>3, <1>6, OwedIs
<1>8. Owed(totals, amounts)[0] = totals
  BY <1>7 DEF PaidOff
<1> DEFINE over == [p \in 1 .. 1 |-> Spent(amounts[p], Owed(totals, amounts)[p - 1])[n]]
           same == Fifo(totals, amounts)
<1>9. Len(totals) = n
  BY <1>3, LenOf
<1>10. same.paid = [p \in 1 .. 1 |-> Allocated(amounts[p], Owed(totals, amounts)[p - 1])] /\ same.unapplied = SumOf(over)
  BY <1>6, <1>9 DEF Fifo
<1>11. same.paid[1] = Allocated(gross, totals)
  BY <1>6, <1>8, <1>10
<1>12. over[1] = Spent(gross, totals)[n] /\ DOMAIN over = 1 .. 1
  BY <1>6, <1>8
<1> HIDE DEF over
<1>13. Spent(gross, totals)[n] \in Int
  <2>1. Spent(gross, totals) \in [0 .. n -> Int]
    BY <1>1, <1>3, SpentIs
  <2> QED BY <1>3, <2>1
<1>14. SumOf(over) = Spent(gross, totals)[n]
  <2>1. SumOf(over) = SumFunctionOnSet(over, 1 .. 1)
    BY <1>12, SumOfAll
  <2>2. 1 .. 1 = {1} /\ 1 \in {1}
    OBVIOUS
  <2>3. IsFiniteSet({1})
    BY FS_Singleton
  <2>4. PICK D : D = {1}
    OBVIOUS
  <2>5. IsFiniteSet(D) /\ 1 \in D /\ \A x \in D \ {1} : over[x] = 0
    BY <2>3, <2>4
  <2>6. over[1] \in Int
    BY <1>12, <1>13
  <2>7. SumFunctionOnSet(over, D) = over[1]
    BY <2>5, <2>6, SumOne
  <2> QED BY <1>12, <2>1, <2>2, <2>4, <2>7
<1> HIDE DEF same
<1> QED BY <1>4, <1>5, <1>d, <1>10, <1>11, <1>14 DEF totals, same, open
-----------------------------------------------------------------------------
(* The account of a contract: its months, and what is paid of each.        *)

\* The parts of a quotient.
LEMMA Quotient ==
  ASSUME NEW k \in Nat, k > 0, NEW a \in Nat
  PROVE  a \div k \in Nat /\ k * (a \div k) <= a /\ a < k * (a \div k) + k
OBVIOUS

\* More days are no fewer months.
LEMMA QuotientGrows ==
  ASSUME NEW k \in Nat, k > 0, NEW a \in Nat, NEW b \in Nat, a <= b
  PROVE  a \div k <= b \div k
<1>1. PICK p \in Nat : p = a \div k /\ k * p <= a
  BY Quotient
<1>2. PICK q \in Nat : q = b \div k /\ b < k * q + k
  BY Quotient
<1>3. SUFFICES ASSUME q + 1 <= p PROVE FALSE
  BY <1>1, <1>2
<1>4. PICK d \in Nat : p = (q + 1) + d
  <2>1. p - (q + 1) \in Nat /\ p = (q + 1) + (p - (q + 1))
    BY <1>3
  <2> QED BY <2>1
<1>5. k * p = k * q + k + k * d /\ k * d \in Nat /\ k * q \in Nat
  BY <1>4
<1> QED BY <1>1, <1>2, <1>5

\* The receivables are the months from the first on, however many.
RowOf(i) ==
  [month |-> Month(contract.start) + i - 1,
   due   |-> (Month(contract.start) + i - 1) * MonthDays + DueDay - 1,
   total |-> rent]

Months(until) ==
  IF contract = None \/ until < contract.start THEN 0
  ELSE LET last == IF contract.end = None THEN until ELSE Smaller(contract.end, until)
       IN  Positive(Month(last) - Month(contract.start) + 1)

\* So the model defines them.
LEMMA ReceivablesAre ==
  ASSUME AccountType, NEW until \in Nat
  PROVE  /\ Months(until) \in Nat
         /\ Receivables(until) = [i \in 1 .. Months(until) |-> RowOf(i)]
<1>1. CASE contract = None \/ until < contract.start
  <2>1. Months(until) = 0 /\ Receivables(until) = <<>>
    BY <1>1 DEF Months, Receivables
  <2>2. 1 .. 0 = {}
    OBVIOUS
  <2>3. <<>> = [i \in 1 .. 0 |-> RowOf(i)]
    OBVIOUS
  <2> QED BY <2>1, <2>3
<1>2. CASE contract # None /\ ~(until < contract.start)
  <2> DEFINE last == IF contract.end = None THEN until ELSE Smaller(contract.end, until)
             count == Month(last) - Month(contract.start) + 1
  <2>1. contract.start \in Nat /\ (contract.end = None \/ contract.end \in Nat)
    BY <1>2, AccountAssumption DEF AccountType
  <2>2. last \in Nat
    BY <2>1 DEF Smaller
  <2> HIDE DEF last
  <2>3. Month(last) \in Nat /\ Month(contract.start) \in Nat
    BY <2>1, <2>2, AccountAssumption, Quotient DEF Month
  <2>4. Months(until) = Positive(count)
    BY <1>2 DEF Months, last
  <2>5. Receivables(until) = [i \in 1 .. count |-> RowOf(i)]
    BY <1>2 DEF Receivables, RowOf, last
  <2>6. 1 .. count = 1 .. Positive(count) /\ Positive(count) \in Nat
    BY <2>3 DEF Positive
  <2> QED BY <2>4, <2>5, <2>6
<1> QED BY <1>1, <1>2

\* More of them every month, and never another of the ones before.
LEMMA MonthsGrow ==
  ASSUME AccountType, NEW now \in Nat, NEW later \in Nat, now <= later
  PROVE  Months(now) <= Months(later)
<1>1. CASE contract = None \/ now < contract.start
  <2>1. Months(now) = 0 /\ Months(later) \in Nat
    BY <1>1, ReceivablesAre DEF Months
  <2> QED BY <2>1
<1>2. CASE contract # None /\ ~(now < contract.start)
  <2> DEFINE last(until) == IF contract.end = None THEN until ELSE Smaller(contract.end, until)
  <2>1. contract.start \in Nat /\ (contract.end = None \/ contract.end \in Nat)
    BY <1>2, AccountAssumption DEF AccountType
  <2>2. last(now) \in Nat /\ last(later) \in Nat /\ last(now) <= last(later)
    BY <2>1 DEF Smaller
  <2>3. Months(now) = Positive(Month(last(now)) - Month(contract.start) + 1)
    BY <1>2 DEF Months
  <2>4. Months(later) = Positive(Month(last(later)) - Month(contract.start) + 1)
    BY <1>2, <2>1 DEF Months
  <2> HIDE DEF last
  <2>5. PICK a \in Nat : a = Month(last(now))
    BY <2>2, AccountAssumption, Quotient DEF Month
  <2>6. PICK b \in Nat : b = Month(last(later))
    BY <2>2, AccountAssumption, Quotient DEF Month
  <2>7. a <= b
    BY <2>2, <2>5, <2>6, AccountAssumption, QuotientGrows DEF Month
  <2>8. PICK c \in Nat : c = Month(contract.start)
    BY <2>1, AccountAssumption, Quotient DEF Month
  <2> QED BY <2>3, <2>4, <2>5, <2>6, <2>7, <2>8 DEF Positive
<1> QED BY <1>1, <1>2

\* A row of the account has a day it is due.
LEMMA DueType == ASSUME AccountType, NEW until \in Nat, NEW i \in 1 .. Months(until) PROVE RowOf(i).due \in Int
<1>1. contract # None
  BY DEF Months
<1>2. contract.start \in Nat
  BY <1>1, AccountAssumption DEF AccountType
<1>3. PICK c \in Nat : c = Month(contract.start)
  BY <1>2, AccountAssumption, Quotient DEF Month
<1>4. RowOf(i).due = (c + i - 1) * MonthDays + DueDay - 1
  BY <1>3 DEF RowOf
<1>5. MonthDays \in Int /\ DueDay \in Int /\ i \in Int
  BY AccountAssumption
<1>6. (c + i - 1) * MonthDays \in Int
  BY <1>5
<1> QED BY <1>4, <1>5, <1>6

\* Every month has one line.
LEMMA MonthOnce ==
  ASSUME AccountType, NEW until \in Nat, NEW i \in 1 .. Months(until), NEW j \in 1 .. Months(until),
         RowOf(i).month = RowOf(j).month
  PROVE  i = j
<1>1. contract # None
  BY DEF Months
<1>2. contract.start \in Nat
  BY <1>1, AccountAssumption DEF AccountType
<1>3. PICK c \in Nat : c = Month(contract.start)
  BY <1>2, AccountAssumption, Quotient DEF Month
<1>4. RowOf(j).month = c + j - 1 /\ RowOf(i).month = c + i - 1
  BY <1>3 DEF RowOf
<1>5. c + j - 1 = c + i - 1
  BY <1>4
<1>6. i \in Int /\ j \in Int
  OBVIOUS
<1> QED BY <1>5, <1>6

\* What the allocation shares out, and to what.
Charges(now) == [i \in 1 .. Months(now) |-> rent]
Paid(pays)   == AmountsOf(ByDay(pays, DOMAIN pays))

\* The allocation shares the bookings out to the charges.
LEMMA AllocationIs ==
  ASSUME AccountType, NEW pays \in Seq(Bookings), NEW now \in Nat
  PROVE  /\ Months(now) \in Nat /\ Len(pays) \in Nat
         /\ Charges(now) \in [1 .. Months(now) -> Nat]
         /\ Paid(pays) \in [1 .. Len(pays) -> Nat]
         /\ Totals(Receivables(now)) = Charges(now)
         /\ First(Paid(pays), Len(pays)) = SumOf(AmountsOf(pays))
         /\ Shared(Months(now), Charges(now), Len(pays), Paid(pays), Allocation(pays, now))
<1>1. Months(now) \in Nat /\ Receivables(now) = [i \in 1 .. Months(now) |-> RowOf(i)]
  BY ReceivablesAre
<1>2. Charges(now) \in [1 .. Months(now) -> Nat]
  BY DEF Charges, AccountType
<1>3. Totals(Receivables(now)) = Charges(now)
  BY <1>1 DEF Totals, Charges, RowOf
<1>4. /\ Len(pays) \in Nat /\ Paid(pays) \in [1 .. Len(pays) -> Nat]
      /\ First(Paid(pays), Len(pays)) = SumOf(AmountsOf(pays))
  BY BookingsByDay DEF Paid, First
<1>5. Shared(Months(now), Charges(now), Len(pays), Paid(pays), Fifo(Charges(now), Paid(pays)))
  BY <1>1, <1>2, <1>4, FifoIs
<1>6. Allocation(pays, now) = Fifo(Charges(now), Paid(pays))
  BY <1>3 DEF Allocation, Paid
<1> QED BY <1>1, <1>2, <1>3, <1>4, <1>5, <1>6

\* A line of the settlement, when so much of its month stays owed.
LineOfMonth(i, owed, now) ==
  [month       |-> RowOf(i).month,
   due         |-> RowOf(i).due,
   total       |-> rent,
   paid        |-> rent - owed,
   outstanding |-> owed,
   status      |-> IF owed = 0 THEN "paid" ELSE IF now > RowOf(i).due THEN "overdue" ELSE "open"]

\* The settlement has such a line for every month.
LEMMA SettlementIs ==
  ASSUME AccountType, NEW pays \in Seq(Bookings), NEW now \in Nat
  PROVE  Settlement(pays, now)
           = [i \in 1 .. Months(now) |-> LineOfMonth(i, Allocation(pays, now).rows[i], now)]
<1> DEFINE n == Months(now)
           m == Len(pays)
           rows == Receivables(now)
           fifo == Allocation(pays, now)
           paid == fifo.paid
           At(month) == {j \in DOMAIN rows : rows[j].month = month}
           Part(p, month) == [i \in At(month) |-> paid[p][i]]
           PaidOf(month) == SumOf([p \in DOMAIN paid |-> SumOf(Part(p, month))])
           Line(r) == [month       |-> r.month,
                       due         |-> r.due,
                       total       |-> r.total,
                       paid        |-> PaidOf(r.month),
                       outstanding |-> Positive(r.total - PaidOf(r.month)),
                       status      |-> IF r.total <= PaidOf(r.month) THEN "paid"
                                       ELSE IF now > r.due THEN "overdue" ELSE "open"]
<1>1. Settlement(pays, now) = [i \in DOMAIN rows |-> Line(rows[i])]
  BY DEF Settlement
<1>2. n \in Nat /\ m \in Nat /\ Shared(n, Charges(now), m, Paid(pays), fifo) /\ rent \in Nat
  BY AllocationIs DEF AccountType
<1>3. rows = [i \in 1 .. n |-> RowOf(i)]
  BY ReceivablesAre
<1>4. /\ fifo.rows \in [1 .. n -> Nat] /\ DOMAIN paid = 1 .. m
      /\ \A p \in 1 .. m : paid[p] \in [1 .. n -> Nat]
      /\ \A i \in 1 .. n : SumFunctionOnSet([p \in 1 .. m |-> paid[p][i]], 1 .. m) = rent - fifo.rows[i]
  BY <1>2 DEF Shared, Charges
<1> HIDE DEF n, m, fifo, paid
<1>5. ASSUME NEW i \in 1 .. n PROVE At(rows[i].month) = {i}
  <2>1. ASSUME NEW j \in 1 .. n, RowOf(j).month = RowOf(i).month PROVE j = i
    BY <2>1, MonthOnce DEF n
  <2>2. \A j \in 1 .. n : rows[j] = RowOf(j)
    BY <1>3
  <2>3. DOMAIN rows = 1 .. n
    BY <1>3
  <2> HIDE DEF rows
  <2> QED BY <2>1, <2>2, <2>3
<1> HIDE DEF rows, At
<1>6. ASSUME NEW i \in 1 .. n PROVE PaidOf(rows[i].month) = rent - fifo.rows[i]
  <2> DEFINE month == rows[i].month
             f == [p \in DOMAIN paid |-> SumOf(Part(p, month))]
             g == [p \in 1 .. m |-> paid[p][i]]
  <2>1. ASSUME NEW p \in 1 .. m PROVE SumOf(Part(p, month)) = paid[p][i] /\ paid[p][i] \in Int
    <3>1. PICK D : D = {i}
      OBVIOUS
    <3>2. PICK h : h = Part(p, month)
      OBVIOUS
    <3>3. h = [j \in D |-> paid[p][j]]
      BY <1>5, <3>1, <3>2
    <3>4. DOMAIN h = D /\ h[i] = paid[p][i] /\ i \in D /\ \A j \in D \ {i} : h[j] = 0
      BY <3>1, <3>3
    <3>a. paid[p] \in [1 .. n -> Nat]
      BY <1>4
    <3>b. PICK v \in [1 .. n -> Nat] : v = paid[p]
      BY <3>a
    <3>c. v[i] \in Int
      OBVIOUS
    <3>5. paid[p][i] \in Int
      BY <3>b, <3>c
    <3>6. IsFiniteSet(D)
      BY <3>1, FS_Singleton
    <3>7. SumFunctionOnSet(h, D) = h[i]
      BY <3>4, <3>5, <3>6, SumOne
    <3>8. SumOf(h) = SumFunctionOnSet(h, D)
      BY <3>4, SumOfAll
    <3> QED BY <3>2, <3>4, <3>5, <3>7, <3>8
  <2> HIDE DEF Part, month
  <2>2. \A p \in 1 .. m : f[p] = g[p] /\ g[p] \in Int
    BY <1>4, <2>1
  <2>3. DOMAIN f = 1 .. m
    BY <1>4
  <2>4. PaidOf(month) = SumOf(f)
    OBVIOUS
  <2> HIDE DEF f, g
  <2>5. SumOf(f) = SumFunctionOnSet(f, 1 .. m)
    BY <2>3, SumOfAll
  <2>a. 1 \in Int /\ m \in Int
    BY <1>2
  <2>6. IsFiniteSet(1 .. m)
    BY <2>a, FS_Interval
  <2>7. SumFunctionOnSet(f, 1 .. m) = SumFunctionOnSet(g, 1 .. m)
    BY <2>2, <2>6, SumExt
  <2>8. SumFunctionOnSet(g, 1 .. m) = rent - fifo.rows[i]
    BY <1>4 DEF g
  <2>9. PaidOf(month) = rent - fifo.rows[i]
    BY <2>4, <2>5, <2>7, <2>8
  <2> HIDE DEF PaidOf
  <2> QED BY <2>9 DEF month
<1> HIDE DEF PaidOf
<1>7. ASSUME NEW i \in 1 .. n PROVE Line(rows[i]) = LineOfMonth(i, fifo.rows[i], now)
  <2>1. rows[i] = RowOf(i)
    BY <1>3
  <2>2. rows[i].total = rent /\ rows[i].month = RowOf(i).month /\ rows[i].due = RowOf(i).due
    BY <2>1 DEF RowOf
  <2>3. PICK o \in Nat : o = fifo.rows[i]
    BY <1>4
  <2>4. PaidOf(rows[i].month) = rent - o
    BY <1>6, <2>3
  <2>5. Positive(rent - (rent - o)) = o /\ (rent <= rent - o <=> o = 0)
    BY <1>2 DEF Positive
  <2> QED BY <2>2, <2>3, <2>4, <2>5 DEF LineOfMonth
<1>8. DOMAIN rows = 1 .. n
  BY <1>3
<1> HIDE DEF Line
<1>9. Settlement(pays, now) = [i \in 1 .. n |-> LineOfMonth(i, fifo.rows[i], now)]
  BY <1>1, <1>7, <1>8
<1> QED BY <1>9 DEF n, fifo

BookedOf(pays) == SumOf(AmountsOf(pays))

\* A month is paid once the bookings cover it and all before it.
LEMMA PaidWhenCovered ==
  ASSUME AccountType, NEW pays \in Seq(Bookings), NEW now \in Nat, NEW i \in 1 .. Months(now)
  PROVE  Allocation(pays, now).rows[i] = 0 <=> rent = 0 \/ First(Charges(now), i) <= BookedOf(pays)
<1> DEFINE n == Months(now)
           m == Len(pays)
           w == Allocation(pays, now).rows
<1>1. /\ n \in Nat /\ m \in Nat /\ Charges(now) \in [1 .. n -> Nat] /\ Paid(pays) \in [1 .. m -> Nat]
      /\ First(Paid(pays), m) = BookedOf(pays)
      /\ Shared(n, Charges(now), m, Paid(pays), Allocation(pays, now))
  BY AllocationIs DEF BookedOf
<1>2. /\ w \in [1 .. n -> Nat]
      /\ \A j \in 0 .. n : First(w, j) = Positive(First(Charges(now), j) - BookedOf(pays))
  BY <1>1 DEF Shared
<1>3. Charges(now)[i] = rent /\ rent \in Nat
  BY DEF Charges, AccountType
<1> HIDE DEF n, m, w
<1>4. i \in 1 .. n /\ i \in 0 .. n /\ i - 1 \in 0 .. n
  BY <1>1 DEF n
<1>5. PICK s \in Nat : s = First(Charges(now), i - 1)
  BY <1>1, <1>4, FirstSum
<1>6. First(Charges(now), i) = s + rent
  BY <1>1, <1>3, <1>4, <1>5, FirstSum
<1>7. PICK a \in Nat : a = BookedOf(pays)
  <2>1. m \in 0 .. m
    BY <1>1
  <2>2. First(Paid(pays), m) \in Nat
    BY <1>1, <2>1, FirstSum
  <2> QED BY <1>1, <2>2
<1>8. First(w, i) = First(w, i - 1) + w[i]
  BY <1>1, <1>2, <1>4, FirstSum
<1>9. Positive((s + rent) - a) = Positive(s - a) + w[i] /\ w[i] \in Nat
  <2>1. First(w, i) = Positive((s + rent) - a)
    BY <1>2, <1>4, <1>6, <1>7
  <2>2. First(w, i - 1) = Positive(s - a)
    BY <1>2, <1>4, <1>5, <1>7
  <2> QED BY <1>2, <1>4, <1>8, <2>1, <2>2
<1>10. w[i] = 0 <=> rent = 0 \/ s + rent <= a
  BY <1>3, <1>9 DEF Positive
<1> QED BY <1>6, <1>7, <1>10 DEF w

\* The paid months are those of which nothing is owed.
LEMMA PaidMonthsAre ==
  ASSUME AccountType, NEW pays \in Seq(Bookings), NEW now \in Nat
  PROVE  PaidMonths(pays, now)
           = {RowOf(i).month : i \in {j \in 1 .. Months(now) : Allocation(pays, now).rows[j] = 0}}
<1> DEFINE w == Allocation(pays, now).rows
           lines == Settlement(pays, now)
<1>1. lines = [i \in 1 .. Months(now) |-> LineOfMonth(i, w[i], now)]
  BY SettlementIs
<1>2. PaidMonths(pays, now) = {l.month : l \in {s \in Range(lines) : s.status = "paid"}}
  BY DEF PaidMonths
<1> HIDE DEF w, lines
<1>3. \A i \in 1 .. Months(now) : /\ lines[i].month = RowOf(i).month
                                  /\ lines[i].status = "paid" <=> w[i] = 0
  BY <1>1 DEF LineOfMonth
<1>4. Range(lines) = {lines[i] : i \in 1 .. Months(now)}
  BY <1>1 DEF Range
<1> QED BY <1>2, <1>3, <1>4 DEF w

\* The first months are charged the same, whatever follows.
LEMMA ChargesAgree ==
  ASSUME AccountType, NEW now \in Nat, NEW later \in Nat, now <= later, NEW i \in 1 .. Months(now)
  PROVE  i \in 1 .. Months(later) /\ First(Charges(later), i) = First(Charges(now), i)
<1>1. Months(now) \in Nat /\ Months(later) \in Nat
  BY ReceivablesAre
<1>2. Months(now) <= Months(later)
  BY MonthsGrow
<1>3. i \in 1 .. Months(later)
  BY <1>1, <1>2
<1> DEFINE f == Charges(later)
           g == Charges(now)
<1>4. \A j \in 1 .. i : f[j] = g[j] /\ g[j] \in Int
  <2>1. \A j \in 1 .. i : j \in 1 .. Months(now) /\ j \in 1 .. Months(later)
    BY <1>1, <1>2
  <2> QED BY <2>1 DEF Charges, AccountType
<1>5. IsFiniteSet(1 .. i)
  <2>1. 1 \in Int /\ i \in Int
    OBVIOUS
  <2> QED BY <2>1, FS_Interval
<1> HIDE DEF f, g
<1>6. SumFunctionOnSet(f, 1 .. i) = SumFunctionOnSet(g, 1 .. i)
  BY <1>4, <1>5, SumExt
<1> QED BY <1>3, <1>6 DEF First, f, g

\* More bookings and later days leave every paid month paid.
LEMMA PaidGrows ==
  ASSUME AccountType, NEW pays \in Seq(Bookings), NEW more \in Seq(Bookings), NEW now \in Nat,
         NEW later \in Nat, now <= later, BookedOf(pays) \in Int, BookedOf(more) \in Int,
         BookedOf(pays) <= BookedOf(more)
  PROVE  PaidMonths(pays, now) \subseteq PaidMonths(more, later)
<1> SUFFICES ASSUME NEW i \in 1 .. Months(now), Allocation(pays, now).rows[i] = 0
             PROVE  RowOf(i).month \in PaidMonths(more, later)
  BY PaidMonthsAre
<1>1. i \in 1 .. Months(later) /\ First(Charges(later), i) = First(Charges(now), i)
  BY ChargesAgree
<1>2. rent = 0 \/ First(Charges(now), i) <= BookedOf(pays)
  BY PaidWhenCovered
<1>3. First(Charges(now), i) \in Int
  <2>1. Months(now) \in Nat /\ Charges(now) \in [1 .. Months(now) -> Nat]
    BY ReceivablesAre DEF Charges, AccountType
  <2>2. i \in 0 .. Months(now)
    BY <2>1
  <2>3. First(Charges(now), i) \in Nat
    BY <2>1, <2>2, FirstSum
  <2> QED BY <2>3
<1>4. rent = 0 \/ First(Charges(later), i) <= BookedOf(more)
  <2>1. PICK a \in Int : a = First(Charges(now), i)
    BY <1>3
  <2> QED BY <1>1, <1>2, <2>1
<1>5. Allocation(more, later).rows[i] = 0
  BY <1>1, <1>4, PaidWhenCovered
<1> QED BY <1>1, <1>5, PaidMonthsAre

\* The bookings add up to a natural number.
LEMMA BookedType == ASSUME NEW pays \in Seq(Bookings) PROVE BookedOf(pays) \in Nat
<1>1. /\ Len(pays) \in Nat /\ Paid(pays) \in [1 .. Len(pays) -> Nat]
      /\ First(Paid(pays), Len(pays)) = BookedOf(pays)
  BY BookingsByDay DEF Paid, First, BookedOf
<1>2. Len(pays) \in 0 .. Len(pays)
  BY <1>1
<1> QED BY <1>1, <1>2, FirstSum

\* A booking adds its amount.
LEMMA BookedMore ==
  ASSUME NEW pays \in Seq(Bookings), NEW b \in Bookings
  PROVE  /\ Append(pays, b) \in Seq(Bookings)
         /\ BookedOf(Append(pays, b)) = BookedOf(pays) + b.amount
<1> DEFINE n == Len(pays)
           more == Append(pays, b)
           f == AmountsOf(pays)
           g == AmountsOf(more)
<1>1. /\ n \in Nat /\ DOMAIN pays = 1 .. n /\ DOMAIN more = 1 .. n + 1 /\ more \in Seq(Bookings)
      /\ \A i \in 1 .. n : more[i] = pays[i]
      /\ more[n + 1] = b
  OBVIOUS
<1>2. Payments \subseteq Nat
  BY AccountAssumption
<1>3. ASSUME NEW i \in 1 .. n + 1 PROVE more[i].amount \in Payments
  <2>1. more[i] \in Bookings
    BY <1>1
  <2> QED BY <2>1 DEF Bookings
<1> HIDE DEF more, n
<1>4. DOMAIN f = 1 .. n /\ DOMAIN g = 1 .. n + 1
  BY <1>1 DEF AmountsOf
<1>5. ASSUME NEW i \in 1 .. n + 1 PROVE g[i] = more[i].amount /\ g[i] \in Int
  <2>1. g[i] = more[i].amount
    BY <1>1 DEF AmountsOf
  <2>2. more[i].amount \in Nat
    BY <1>2, <1>3, Zenon
  <2> HIDE DEF g
  <2> QED BY <2>1, <2>2
<1>6. ASSUME NEW i \in 1 .. n PROVE f[i] = g[i]
  <2>1. f[i] = pays[i].amount
    BY <1>1 DEF AmountsOf
  <2>2. i \in 1 .. n + 1
    BY <1>1
  <2>3. more[i] = pays[i]
    BY <1>1
  <2> HIDE DEF f, g
  <2> QED BY <1>5, <2>1, <2>2, <2>3
<1> HIDE DEF f, g
<1>7. SumOf(f) = SumFunctionOnSet(f, 1 .. n) /\ SumOf(g) = SumFunctionOnSet(g, 1 .. n + 1)
  BY <1>4, SumOfAll
<1>8. SumFunctionOnSet(g, 1 .. n + 1) = SumFunctionOnSet(g, 1 .. n) + g[n + 1]
  BY <1>1, <1>5, SumUpTo
<1>9. SumFunctionOnSet(f, 1 .. n) = SumFunctionOnSet(g, 1 .. n)
  <2>1. 1 \in Int /\ n \in Int
    BY <1>1
  <2>2. IsFiniteSet(1 .. n)
    BY <2>1, FS_Interval
  <2>3. \A i \in 1 .. n : f[i] = g[i] /\ g[i] \in Int
    <3>1. \A i \in 1 .. n : i \in 1 .. n + 1
      BY <1>1
    <3> QED BY <1>5, <1>6, <3>1
  <2> QED BY <2>2, <2>3, SumExt
<1>10. g[n + 1] = b.amount
  <2>1. n + 1 \in 1 .. n + 1
    BY <1>1
  <2> QED BY <1>1, <1>5, <2>1
<1>11. SumOf(g) = SumOf(f) + b.amount
  BY <1>7, <1>8, <1>9, <1>10
<1> QED BY <1>1, <1>11 DEF BookedOf, f, g, more

\* A step of the account loses no paid month, unless it changes what was there.
PaidStep ==
  \A pays \in {payments'}, now \in {today'} :
    (rent' = rent /\ contract' = contract /\ \A i \in DOMAIN payments :
                                               i \in DOMAIN pays /\ pays[i] = payments[i])
      => PaidMonths(payments, today) \subseteq PaidMonths(pays, now)

\* Each operation keeps the paid months but those that change what was there.
LEMMA PaidStaysStep == AccountType /\ AccountNext => PaidStep
<1> SUFFICES ASSUME AccountType, AccountNext, NEW pays, pays = payments', NEW now, now = today',
                    rent' = rent, contract' = contract,
                    \A i \in DOMAIN payments : i \in DOMAIN pays /\ pays[i] = payments[i]
             PROVE  PaidMonths(payments, today) \subseteq PaidMonths(pays, now)
  BY DEF PaidStep
<1>1. payments \in Seq(Bookings) /\ today \in Nat /\ BookedOf(payments) \in Nat
  <2>1. payments \in Seq(Bookings)
    BY DEF AccountType, Bookings
  <2>2. today \in Nat
    BY AccountAssumption DEF AccountType
  <2> QED BY <2>1, <2>2, BookedType
<1>2. CASE Sign
  <2>1. pays = payments /\ now = today
    BY <1>2 DEF Sign
  <2> QED BY <2>1
<1>3. CASE DayPasses
  <2>1. pays = payments /\ now \in Nat /\ today <= now
    BY <1>1, <1>3, AccountAssumption DEF DayPasses
  <2> QED BY <1>1, <2>1, PaidGrows
<1>4. CASE Book
  <2>1. now = today
    BY <1>4 DEF Book
  <2>2. PICK day \in Days, amount \in Payments : pays = Append(payments, [day |-> day, amount |-> amount])
    BY <1>4 DEF Book
  <2>3. PICK b \in Bookings : b = [day |-> day, amount |-> amount]
    BY DEF Bookings
  <2>4. pays = Append(payments, b) /\ b.amount \in Nat
    BY <2>2, <2>3, AccountAssumption
  <2>5. pays \in Seq(Bookings) /\ BookedOf(pays) = BookedOf(payments) + b.amount
    BY <1>1, <2>4, BookedMore
  <2>6. BookedOf(payments) \in Int /\ BookedOf(pays) \in Int /\ BookedOf(payments) <= BookedOf(pays)
    <3>1. PICK x \in Nat : x = BookedOf(payments)
      BY <1>1
    <3>2. PICK y \in Nat : y = b.amount
      BY <2>4
    <3>3. BookedOf(pays) = x + y
      BY <2>5, <3>1, <3>2
    <3> QED BY <3>1, <3>3
  <2>7. today <= today
    BY <1>1
  <2> QED BY <1>1, <2>1, <2>5, <2>6, <2>7, PaidGrows
<1>5. CASE ChangeRent
  BY <1>5 DEF ChangeRent
<1>6. CASE ChangeTerms
  BY <1>6 DEF ChangeTerms
<1>7. CASE CorrectBooking
  <2>1. PICK i \in DOMAIN payments, day \in Days, amount \in Payments :
          pays = [payments EXCEPT ![i] = [day |-> day, amount |-> amount]] /\ now = today
    BY <1>7 DEF CorrectBooking
  <2>2. pays = payments
    BY <1>1, <2>1
  <2> QED BY <2>1, <2>2
<1>8. CASE RemoveBooking
  <2>1. PICK i \in DOMAIN payments :
          pays = SubSeq(payments, 1, i - 1) \o SubSeq(payments, i + 1, Len(payments))
    BY <1>8 DEF RemoveBooking
  <2>2. Len(payments) \in Nat /\ i \in 1 .. Len(payments)
    BY <1>1
  <2>3. Len(SubSeq(payments, 1, i - 1)) = i - 1 /\ SubSeq(payments, 1, i - 1) \in Seq(Bookings)
    <3>1. \A j \in 1 .. i - 1 : payments[j] \in Bookings
      BY <1>1, <2>2
    <3> QED BY <2>2, <3>1
  <2>4. Len(SubSeq(payments, i + 1, Len(payments))) = Len(payments) - i
        /\ SubSeq(payments, i + 1, Len(payments)) \in Seq(Bookings)
    <3>1. \A j \in i + 1 .. Len(payments) : payments[j] \in Bookings
      BY <1>1, <2>2
    <3> QED BY <2>2, <3>1
  <2>5. Len(pays) = Len(payments) - 1 /\ DOMAIN pays = 1 .. Len(payments) - 1
    <3>1. PICK a \in Seq(Bookings), b \in Seq(Bookings) :
            /\ a = SubSeq(payments, 1, i - 1) /\ b = SubSeq(payments, i + 1, Len(payments))
            /\ Len(a) = i - 1 /\ Len(b) = Len(payments) - i
      BY <2>3, <2>4
    <3>2. pays = a \o b
      BY <2>1, <3>1
    <3>3. a \o b \in Seq(Bookings) /\ Len(a \o b) = Len(a) + Len(b)
      OBVIOUS
    <3>4. pays \in Seq(Bookings) /\ Len(pays) = (i - 1) + (Len(payments) - i)
      BY <3>1, <3>2, <3>3
    <3>5. Len(pays) = Len(payments) - 1
      BY <2>2, <3>4
    <3> QED BY <3>4, <3>5
  <2>6. Len(payments) \in DOMAIN payments /\ Len(payments) \notin DOMAIN pays
    BY <1>1, <2>2, <2>5
  <2> QED BY <2>6
<1> QED BY <1>2, <1>3, <1>4, <1>5, <1>6, <1>7, <1>8 DEF AccountNext
-----------------------------------------------------------------------------
(* The views of one debt.                                                  *)

\* What the report says of its lines.
LEMMA ReportIs ==
  ASSUME AccountType
  PROVE  \E n \in Nat : \E owed \in [1 .. n -> Nat] :
           /\ n = Months(today) /\ owed = Allocation(payments, today).rows
           /\ Report = [i \in 1 .. n |-> LineOfMonth(i, owed[i], today)]
           /\ First(owed, n) = Positive(First(Charges(today), n) - BookedOf(payments))
           /\ Allocation(payments, today).unapplied = Positive(BookedOf(payments) - First(Charges(today), n))
           /\ First(Charges(today), n) \in Nat
           /\ SumOf(Totals(Receivables(today))) = First(Charges(today), n)
<1> DEFINE n == Months(today)
           m == Len(payments)
           fifo == Allocation(payments, today)
<1>1. payments \in Seq(Bookings) /\ today \in Nat
  BY AccountAssumption DEF AccountType, Bookings
<1>2. /\ n \in Nat /\ m \in Nat /\ Charges(today) \in [1 .. n -> Nat]
      /\ Totals(Receivables(today)) = Charges(today)
      /\ First(Paid(payments), m) = BookedOf(payments)
      /\ Shared(n, Charges(today), m, Paid(payments), fifo)
  BY <1>1, AllocationIs DEF BookedOf
<1>3. Report = [i \in 1 .. n |-> LineOfMonth(i, fifo.rows[i], today)]
  BY <1>1, SettlementIs DEF Report
<1> HIDE DEF n, m, fifo
<1>4. n \in 0 .. n
  BY <1>2
<1>5. /\ fifo.rows \in [1 .. n -> Nat]
      /\ First(fifo.rows, n) = Positive(First(Charges(today), n) - BookedOf(payments))
      /\ fifo.unapplied = Positive(BookedOf(payments) - First(Charges(today), n))
  BY <1>2, <1>4 DEF Shared
<1>6. First(Charges(today), n) \in Nat
  BY <1>2, <1>4, FirstSum
<1>7. SumOf(Totals(Receivables(today))) = First(Charges(today), n)
  <2>1. DOMAIN Charges(today) = 1 .. n
    BY DEF Charges, n
  <2>2. SumOf(Charges(today)) = SumFunctionOnSet(Charges(today), 1 .. n)
    BY <2>1, SumOfAll
  <2> QED BY <1>2, <2>2 DEF First
<1> QED
  <2>1. PICK owed \in [1 .. n -> Nat] : owed = fifo.rows
    BY <1>5
  <2>2. n = Months(today) /\ owed = Allocation(payments, today).rows
    BY <2>1 DEF n, fifo
  <2> QED BY <1>2, <1>3, <1>5, <1>6, <1>7, <2>1, <2>2 DEF fifo

\* A sum over disjoint parts.
LEMMA FiveParts ==
  ASSUME NEW A, NEW B, NEW C, NEW D, NEW E, IsFiniteSet(A), IsFiniteSet(B), IsFiniteSet(C), IsFiniteSet(D),
         IsFiniteSet(E), A \cap B = {}, (A \cup B) \cap C = {}, (A \cup B \cup C) \cap D = {},
         (A \cup B \cup C \cup D) \cap E = {},
         NEW f, \A x \in A \cup B \cup C \cup D \cup E : f[x] \in Int
  PROVE  SumFunctionOnSet(f, A \cup B \cup C \cup D \cup E)
           = SumFunctionOnSet(f, A) + SumFunctionOnSet(f, B) + SumFunctionOnSet(f, C)
             + SumFunctionOnSet(f, D) + SumFunctionOnSet(f, E)
<1> DEFINE S(X) == SumFunctionOnSet(f, X)
<1>1. PICK AB : AB = A \cup B
  OBVIOUS
<1>2. PICK AC : AC = AB \cup C
  OBVIOUS
<1>3. PICK AD : AD = AC \cup D
  OBVIOUS
<1>4. IsFiniteSet(AB) /\ IsFiniteSet(AC) /\ IsFiniteSet(AD)
  BY <1>1, <1>2, <1>3, FS_Union
<1>5. AB \cap C = {} /\ AC \cap D = {} /\ AD \cap E = {}
  BY <1>1, <1>2, <1>3
<1>6. \A x \in AD \cup E : f[x] \in Int
  BY <1>1, <1>2, <1>3
<1>7. S(A \cup B) = S(A) + S(B)
  BY SumUnion
<1>8. \A x \in AB \cup C : f[x] \in Int
  BY <1>1
<1>9. S(AB \cup C) = S(AB) + S(C)
  BY <1>4, <1>5, <1>8, SumUnion
<1>10. \A x \in AC \cup D : f[x] \in Int
  BY <1>1, <1>2
<1>11. S(AC \cup D) = S(AC) + S(D)
  BY <1>4, <1>5, <1>10, SumUnion
<1>12. S(AD \cup E) = S(AD) + S(E)
  BY <1>4, <1>5, <1>6, SumUnion
<1>13. S(A) \in Int /\ S(B) \in Int /\ S(C) \in Int /\ S(D) \in Int /\ S(E) \in Int
  BY SumType
<1>14. A \cup B \cup C \cup D \cup E = AD \cup E
  BY <1>1, <1>2, <1>3
<1> HIDE DEF S
<1>15. S(AD \cup E) = S(A) + S(B) + S(C) + S(D) + S(E)
  BY <1>1, <1>2, <1>3, <1>7, <1>9, <1>11, <1>12, <1>13
<1>16. S(A \cup B \cup C \cup D \cup E) = S(A) + S(B) + S(C) + S(D) + S(E)
  BY <1>14, <1>15
<1> QED BY <1>16 DEF S

\* Three counts add up.
LEMMA ThreeParts ==
  ASSUME NEW A, NEW B, NEW C, NEW n \in Nat, A \cup B \cup C = 1 .. n,
         A \cap B = {}, (A \cup B) \cap C = {}
  PROVE  Cardinality(A) + Cardinality(B) + Cardinality(C) = n
<1>1. IsFiniteSet(1 .. n) /\ Cardinality(1 .. n) = n
  <2>1. 1 \in Int /\ n \in Int
    OBVIOUS
  <2>2. IsFiniteSet(1 .. n) /\ Cardinality(1 .. n) = IF 1 > n THEN 0 ELSE n - 1 + 1
    BY <2>1, FS_Interval
  <2> QED BY <2>2
<1>2. PICK AB : AB = A \cup B
  OBVIOUS
<1>3. IsFiniteSet(A) /\ IsFiniteSet(B) /\ IsFiniteSet(C) /\ IsFiniteSet(AB)
  <2>1. A \subseteq 1 .. n /\ B \subseteq 1 .. n /\ C \subseteq 1 .. n /\ AB \subseteq 1 .. n
    BY <1>2
  <2> QED BY <1>1, <2>1, FS_Subset
<1>4. Cardinality(A \cup B) = Cardinality(A) + Cardinality(B) - Cardinality(A \cap B)
  BY <1>3, FS_Union
<1>5. Cardinality(AB \cup C) = Cardinality(AB) + Cardinality(C) - Cardinality(AB \cap C)
  BY <1>3, FS_Union
<1>6. Cardinality(A \cap B) = 0 /\ Cardinality(AB \cap C) = 0
  BY <1>2, FS_EmptySet
<1>7. Cardinality(A) \in Nat /\ Cardinality(B) \in Nat /\ Cardinality(C) \in Nat
  BY <1>3, FS_CardinalityType
<1>8. PICK a \in Nat, b \in Nat, c \in Nat : a = Cardinality(A) /\ b = Cardinality(B) /\ c = Cardinality(C)
  BY <1>7
<1>9. Cardinality(AB) = a + b
  BY <1>2, <1>4, <1>6, <1>8
<1>10. Cardinality(AB \cup C) = a + b + c
  BY <1>5, <1>6, <1>8, <1>9
<1>11. AB \cup C = 1 .. n
  BY <1>2
<1> QED BY <1>1, <1>8, <1>10, <1>11

\* Only what is not late is current.
LEMMA CurrentIs == ASSUME NEW late \in Int PROVE BucketOf(late) = "current" <=> late <= 0
<1>1. CASE late <= 0
  <2>1. ~(late \in 1 .. 30) /\ ~(late \in 31 .. 60) /\ ~(late \in 61 .. 90)
    BY <1>1
  <2> QED BY <1>1, <2>1 DEF BucketOf
<1>2. CASE ~(late <= 0)
  BY <1>2 DEF BucketOf
<1> QED BY <1>1, <1>2

\* The views agree, in every state of these types.
LEMMA ViewsAgreeState == AccountType => ViewsAgree
<1> SUFFICES ASSUME AccountType PROVE ViewsAgree
  OBVIOUS
<1>1. PICK n \in Nat : \E owed \in [1 .. n -> Nat] :
           /\ n = Months(today) /\ owed = Allocation(payments, today).rows
           /\ Report = [i \in 1 .. n |-> LineOfMonth(i, owed[i], today)]
           /\ First(owed, n) = Positive(First(Charges(today), n) - BookedOf(payments))
           /\ Allocation(payments, today).unapplied = Positive(BookedOf(payments) - First(Charges(today), n))
           /\ First(Charges(today), n) \in Nat
           /\ SumOf(Totals(Receivables(today))) = First(Charges(today), n)
  BY ReportIs
<1>2. PICK owed \in [1 .. n -> Nat] :
           /\ n = Months(today) /\ owed = Allocation(payments, today).rows
           /\ Report = [i \in 1 .. n |-> LineOfMonth(i, owed[i], today)]
           /\ First(owed, n) = Positive(First(Charges(today), n) - BookedOf(payments))
           /\ Allocation(payments, today).unapplied = Positive(BookedOf(payments) - First(Charges(today), n))
           /\ First(Charges(today), n) \in Nat
           /\ SumOf(Totals(Receivables(today))) = First(Charges(today), n)
  BY <1>1
<1> DEFINE lines == Report
           N == 1 .. n
           open == SumFunctionOnSet(owed, N)
           summary == Summary(lines)
<1>3. PICK charged \in Nat : charged = First(Charges(today), n)
  BY <1>2
<1>4. PICK booked \in Nat : booked = BookedOf(payments)
  <2>1. payments \in Seq(Bookings)
    BY DEF AccountType, Bookings
  <2> QED BY <2>1, BookedType
<1>5. open = Positive(charged - booked)
  BY <1>2, <1>3, <1>4 DEF First
<1>6. DOMAIN lines = N /\ Len(lines) = n
  <2>1. lines = [i \in 1 .. n |-> LineOfMonth(i, owed[i], today)]
    BY <1>2
  <2> HIDE DEF lines
  <2> QED BY <2>1
<1>7. \A i \in N : lines[i] = LineOfMonth(i, owed[i], today)
  BY <1>2
<1>8. IsFiniteSet(N)
  <2>1. 1 \in Int /\ n \in Int
    OBVIOUS
  <2> QED BY <2>1, FS_Interval
<1> HIDE DEF lines
<1>9. \A i \in N : /\ owed[i] \in Nat
                   /\ lines[i].outstanding = owed[i] /\ lines[i].paid = rent - owed[i]
                   /\ lines[i].total = rent /\ lines[i].due = RowOf(i).due
                   /\ lines[i].status = IF owed[i] = 0 THEN "paid"
                                        ELSE IF today > RowOf(i).due THEN "overdue" ELSE "open"
  <2> SUFFICES ASSUME NEW i \in N
               PROVE  /\ owed[i] \in Nat
                      /\ lines[i].outstanding = owed[i] /\ lines[i].paid = rent - owed[i]
                      /\ lines[i].total = rent /\ lines[i].due = RowOf(i).due
                      /\ lines[i].status = IF owed[i] = 0 THEN "paid"
                                           ELSE IF today > RowOf(i).due THEN "overdue" ELSE "open"
    OBVIOUS
  <2>1. lines[i] = LineOfMonth(i, owed[i], today) /\ owed[i] \in Nat
    BY <1>7
  <2> QED BY <2>1 DEF LineOfMonth
<1>10. rent \in Nat
  BY DEF AccountType
<1>11. open \in Int
  BY <1>8, <1>9, SumType
<1>12. summary.outstanding = open
  <2> DEFINE f == [i \in DOMAIN lines |-> lines[i].outstanding]
  <2>1. \A i \in N : f[i] = owed[i] /\ owed[i] \in Int
    BY <1>6, <1>9
  <2>2. DOMAIN f = N
    BY <1>6
  <2>3. summary.outstanding = SumOf(f)
    BY DEF Summary
  <2> HIDE DEF f
  <2>4. SumOf(f) = SumFunctionOnSet(f, N)
    BY <2>2, SumOfAll
  <2>5. SumFunctionOnSet(f, N) = SumFunctionOnSet(owed, N)
    BY <1>8, <2>1, SumExt
  <2> QED BY <2>3, <2>4, <2>5
<1>13. summary.expected = charged
  <2>1. Totals(lines) = Charges(today)
    <3>1. Totals(lines) = [i \in N |-> lines[i].total]
      BY <1>6 DEF Totals
    <3> QED BY <1>2, <1>9, <3>1 DEF Charges
  <2>2. summary.expected = SumOf(Charges(today))
    BY <2>1 DEF Summary
  <2>3. DOMAIN Charges(today) = N
    BY <1>2 DEF Charges
  <2>4. SumOf(Charges(today)) = SumFunctionOnSet(Charges(today), N)
    BY <2>3, SumOfAll
  <2> QED BY <1>3, <2>2, <2>4 DEF First
<1>14. summary.expected = summary.total_paid + summary.outstanding /\ summary.total_paid \in Int
  <2> DEFINE f == [i \in DOMAIN lines |-> lines[i].paid]
  <2>1. \A i \in N : f[i] \in Int /\ owed[i] \in Int /\ Charges(today)[i] = f[i] + owed[i]
    <3> SUFFICES ASSUME NEW i \in N PROVE f[i] \in Int /\ owed[i] \in Int /\ Charges(today)[i] = f[i] + owed[i]
      OBVIOUS
    <3>1. f[i] = rent - owed[i] /\ owed[i] \in Nat
      BY <1>6, <1>9
    <3>2. Charges(today)[i] = rent
      BY <1>2 DEF Charges
    <3> HIDE DEF f
    <3> QED BY <1>10, <3>1, <3>2
  <2>2. DOMAIN f = N
    BY <1>6
  <2>3. summary.total_paid = SumOf(f)
    BY DEF Summary
  <2> HIDE DEF f
  <2>4. SumOf(f) = SumFunctionOnSet(f, N)
    BY <2>2, SumOfAll
  <2>5. SumFunctionOnSet(f, N) \in Int
    BY <1>8, <2>1, SumType
  <2>6. SumFunctionOnSet(Charges(today), N) = SumFunctionOnSet(f, N) + SumFunctionOnSet(owed, N)
    BY <1>8, <2>1, SumPlus
  <2>7. SumFunctionOnSet(Charges(today), N) = charged
    BY <1>3 DEF First
  <2> QED BY <1>12, <1>13, <2>3, <2>4, <2>5, <2>6, <2>7
<1>15. Allocation(payments, today).unapplied = Positive(booked - charged)
  BY <1>2, <1>3, <1>4
<1>16. SumOf(Allocation(payments, today).rows) = open
  <2>1. DOMAIN owed = N
    OBVIOUS
  <2> QED BY <1>2, <2>1, SumOfAll
<1>17. Balance = [outstanding |-> Positive(charged - booked), overpaid |-> Positive(-(charged - booked))]
  BY <1>2, <1>3, <1>4 DEF Balance, BookedOf
<1>18. summary.receivables = summary.paid + summary.open + summary.overdue
  <2> DEFINE Those(status) == {i \in DOMAIN lines : lines[i].status = status}
  <2>1. \A i \in N : lines[i].status \in {"paid", "open", "overdue"}
    BY <1>9
  <2>2. /\ Those("paid") \cup Those("open") \cup Those("overdue") = 1 .. n
        /\ Those("paid") \cap Those("open") = {}
        /\ (Those("paid") \cup Those("open")) \cap Those("overdue") = {}
    BY <1>6, <2>1
  <2>3. /\ summary.receivables = n /\ summary.paid = Cardinality(Those("paid"))
        /\ summary.open = Cardinality(Those("open")) /\ summary.overdue = Cardinality(Those("overdue"))
    BY <1>6 DEF Summary
  <2> HIDE DEF Those, summary
  <2>4. Cardinality(Those("paid")) + Cardinality(Those("open")) + Cardinality(Those("overdue")) = n
    BY <2>2, ThreeParts
  <2> QED BY <2>3, <2>4
<1> DEFINE Inside(bucket) == {i \in N : owed[i] > 0 /\ BucketOf(today - RowOf(i).due) = bucket}
           Of(bucket) == SumFunctionOnSet(owed, Inside(bucket))
<1>19. ASSUME NEW S \in SUBSET N
       PROVE  /\ SumOf([i \in S |-> lines[i].outstanding]) = SumFunctionOnSet(owed, S)
              /\ IsFiniteSet(S)
  <2> DEFINE f == [i \in S |-> lines[i].outstanding]
  <2>1. \A i \in S : f[i] = owed[i] /\ owed[i] \in Int
    BY <1>9
  <2>2. DOMAIN f = S
    OBVIOUS
  <2>3. IsFiniteSet(S)
    BY <1>8, FS_Subset
  <2> HIDE DEF f
  <2>4. SumOf(f) = SumFunctionOnSet(f, S)
    BY <2>2, SumOfAll
  <2>5. SumFunctionOnSet(f, S) = SumFunctionOnSet(owed, S)
    BY <2>1, <2>3, SumExt
  <2> QED BY <2>3, <2>4, <2>5 DEF f
<1>20. ASSUME NEW bucket PROVE Aging(lines, bucket) = Of(bucket) /\ Inside(bucket) \in SUBSET N
  <2> DEFINE inside == {i \in DOMAIN lines : /\ lines[i].outstanding > 0
                                             /\ BucketOf(today - lines[i].due) = bucket}
  <2>1. inside = Inside(bucket)
    BY <1>6, <1>9
  <2>2. Aging(lines, bucket) = SumOf([i \in inside |-> lines[i].outstanding])
    BY DEF Aging
  <2>3. Inside(bucket) \in SUBSET N
    OBVIOUS
  <2> HIDE DEF inside, Inside
  <2> QED BY <1>19, <2>1, <2>2, <2>3
<1>21. open = Of("current") + Of("days_1_30") + Of("days_31_60") + Of("days_61_90") + Of("days_90_plus")
  <2> DEFINE A == Inside("current")
             B == Inside("days_1_30")
             C == Inside("days_31_60")
             D == Inside("days_61_90")
             E == Inside("days_90_plus")
             All == A \cup B \cup C \cup D \cup E
  <2>1. \A x : BucketOf(x) \in {"current", "days_1_30", "days_31_60", "days_61_90", "days_90_plus"}
    BY DEF BucketOf
  <2>2. All = {i \in N : owed[i] > 0}
    BY <2>1
  <2>3. /\ A \cap B = {} /\ (A \cup B) \cap C = {} /\ (A \cup B \cup C) \cap D = {}
        /\ (A \cup B \cup C \cup D) \cap E = {}
    OBVIOUS
  <2>4. IsFiniteSet(A) /\ IsFiniteSet(B) /\ IsFiniteSet(C) /\ IsFiniteSet(D) /\ IsFiniteSet(E)
    BY <1>8, FS_Subset
  <2>5. All \in SUBSET N /\ \A x \in All : owed[x] \in Int
    BY <1>9
  <2>6. \A x \in N \ All : owed[x] = 0
    BY <1>9, <2>2
  <2> HIDE DEF Inside
  <2>7. SumFunctionOnSet(owed, All) = Of("current") + Of("days_1_30") + Of("days_31_60") + Of("days_61_90")
                                      + Of("days_90_plus")
    BY <2>3, <2>4, <2>5, FiveParts
  <2> HIDE DEF All
  <2>8. SumFunctionOnSet(owed, N) = SumFunctionOnSet(owed, All)
    BY <1>8, <2>5, <2>6, SumPart
  <2> QED BY <2>7, <2>8
<1>22. Of("current") = SumOf([i \in {j \in DOMAIN lines : lines[j].status = "open"} |-> lines[i].outstanding])
  <2> DEFINE S == {j \in DOMAIN lines : lines[j].status = "open"}
  <2>1. S \in SUBSET N
    BY <1>6
  <2>2. S = Inside("current")
    <3>1. ASSUME NEW i \in N
          PROVE  lines[i].status = "open" <=> owed[i] > 0 /\ BucketOf(today - RowOf(i).due) = "current"
      <4>1. today \in Int /\ RowOf(i).due \in Int
        <5>1. today \in Nat
          BY AccountAssumption DEF AccountType
        <5>2. i \in 1 .. Months(today)
          BY <1>2
        <5>3. RowOf(i).due \in Int
          BY <5>1, <5>2, DueType
        <5> QED BY <5>1, <5>3
      <4>a. PICK late \in Int : late = today - RowOf(i).due
        BY <4>1
      <4>b. BucketOf(late) = "current" <=> late <= 0
        BY CurrentIs
      <4>2. BucketOf(today - RowOf(i).due) = "current" <=> today - RowOf(i).due <= 0
        BY <4>a, <4>b
      <4>3. today > RowOf(i).due <=> ~(today - RowOf(i).due <= 0)
        BY <4>1
      <4> QED BY <1>9, <4>2, <4>3
    <3> QED BY <1>6, <3>1
  <2> HIDE DEF S, Inside
  <2>3. SumOf([i \in S |-> lines[i].outstanding]) = SumFunctionOnSet(owed, S)
    BY <1>19, <2>1
  <2> QED BY <2>2, <2>3 DEF S
<1> HIDE DEF summary, Of, Inside, open
<1>23. \A bucket : Aging(lines, bucket) = Of(bucket)
  BY <1>20
<1>24. /\ open = SumOf(Allocation(payments, today).rows)
       /\ open = Balance.outstanding
       /\ open = summary.expected - summary.total_paid
       /\ Allocation(payments, today).unapplied = Balance.overpaid
       /\ summary.total_paid + Allocation(payments, today).unapplied = SumOf(AmountsOf(payments))
  <2>1. open = Balance.outstanding
    BY <1>5, <1>17
  <2>2. open = summary.expected - summary.total_paid
    BY <1>11, <1>12, <1>14
  <2>3. -(charged - booked) = booked - charged
    OBVIOUS
  <2>4. Allocation(payments, today).unapplied = Balance.overpaid
    BY <1>15, <1>17, <2>3
  <2>5. charged = summary.total_paid + open
    BY <1>12, <1>13, <1>14
  <2>6. summary.total_paid + Positive(booked - charged) = booked
    BY <1>5, <1>14, <2>5 DEF Positive
  <2> QED BY <1>4, <1>15, <1>16, <2>1, <2>2, <2>4, <2>6 DEF BookedOf
<1>25. /\ open = Aging(lines, "current") + Aging(lines, "days_1_30") + Aging(lines, "days_31_60")
                + Aging(lines, "days_61_90") + Aging(lines, "days_90_plus")
       /\ Aging(lines, "current")
           = SumOf([i \in {j \in DOMAIN lines : lines[j].status = "open"} |-> lines[i].outstanding])
  BY <1>21, <1>22, <1>23
<1> QED BY <1>12, <1>18, <1>24, <1>25 DEF ViewsAgree, summary, lines
-----------------------------------------------------------------------------
(* The dunning campaign.                                                   *)

\* A level is reached once its limit is, and not before.
LEMMA LevelIs ==
  ASSUME NEW late \in Int
  PROVE  /\ Level(late) \in 0 .. 3
         /\ Level(late) > 0 <=> late >= AfterDays[1]
         /\ \A k \in 1 .. 3 : k <= Level(late) <=> AfterDays[k] <= late
<1>1. PICK a \in Nat, b \in Nat, c \in Nat :
        a = AfterDays[1] /\ b = AfterDays[2] /\ c = AfterDays[3] /\ a <= b /\ b <= c
  <2>1. 1 \in 1 .. 3 /\ 2 \in 1 .. 3 /\ 3 \in 1 .. 3
    OBVIOUS
  <2> QED BY <2>1, DunningAssumption
<1>6. \A k \in 1 .. 3 : k = 1 \/ k = 2 \/ k = 3
  OBVIOUS
<1>2. CASE late >= c
  <2>1. Level(late) = 3
    BY <1>1, <1>2 DEF Level
  <2> QED BY <1>1, <1>2, <1>6, <2>1
<1>3. CASE late < c /\ late >= b
  <2>1. Level(late) = 2
    BY <1>1, <1>3 DEF Level
  <2> QED BY <1>1, <1>3, <1>6, <2>1
<1>4. CASE late < b /\ late >= a
  <2>1. Level(late) = 1
    BY <1>1, <1>4 DEF Level
  <2> QED BY <1>1, <1>4, <1>6, <2>1
<1>5. CASE late < a
  <2>1. Level(late) = 0
    BY <1>1, <1>5 DEF Level
  <2> QED BY <1>1, <1>5, <1>6, <2>1
<1> QED BY <1>2, <1>3, <1>4, <1>5

\* The order of a batch has a place for every decision.
BatchOrder(S, decided) ==
  [i \in S |-> {j \in S : \/ Before(decided[j], decided[i])
                          \/ ~Before(decided[i], decided[j]) /\ j <= i}]

\* The order is one, however many decisions are alike.
LEMMA BatchIsOrder ==
  ASSUME NEW S, S \subseteq Nat, NEW decided,
         \A i \in S : decided[i].level \in Int /\ decided[i].overdue \in Int
  PROVE  IsOrder(S, BatchOrder(S, decided))
<1> DEFINE level == [i \in S |-> decided[i].level]
           late  == [i \in S |-> decided[i].overdue]
           upto  == BatchOrder(S, decided)
           First2(j, i) == level[j] > level[i] \/ (level[j] = level[i] /\ late[j] > late[i])
<1>1. \A i \in S : i \in Nat /\ level[i] \in Int /\ late[i] \in Int
  OBVIOUS
<1>2. \A i, j \in S : i \in upto[j] <=> First2(i, j) \/ (~First2(j, i) /\ i <= j)
  BY DEF BatchOrder, Before
<1>3. \A i \in S : upto[i] \subseteq S
  BY DEF BatchOrder
<1> HIDE DEF level, late, upto
<1>4. ASSUME NEW i \in S PROVE i \in upto[i]
  <2>1. ~First2(i, i) /\ i <= i
    BY <1>1
  <2> HIDE DEF First2
  <2> QED BY <1>2, <2>1
<1>5. ASSUME NEW i \in S, NEW j \in S PROVE i \in upto[j] \/ j \in upto[i]
  <2>1. i <= j \/ j <= i
    BY <1>1
  <2> HIDE DEF First2
  <2> QED BY <1>2, <2>1
<1>6. ASSUME NEW i \in S, NEW j \in S, i \in upto[j], j \in upto[i] PROVE i = j
  <2>1. First2(i, j) \/ (~First2(j, i) /\ i <= j)
    BY <1>2, <1>6
  <2>2. First2(j, i) \/ (~First2(i, j) /\ j <= i)
    BY <1>2, <1>6
  <2>3. ~(First2(i, j) /\ First2(j, i))
    <3>1. PICK a \in Int, b \in Int : a = level[i] /\ b = level[j]
      BY <1>1
    <3>2. PICK c \in Int, d \in Int : c = late[i] /\ d = late[j]
      BY <1>1
    <3>3. ~((a > b \/ (a = b /\ c > d)) /\ (b > a \/ (b = a /\ d > c)))
      OBVIOUS
    <3> QED BY <3>1, <3>2, <3>3
  <2>4. i <= j /\ j <= i
    BY <2>1, <2>2, <2>3
  <2> QED BY <1>1, <2>4
<1>7. ASSUME NEW i \in S, NEW j \in S, i \in upto[j], NEW k \in upto[i] PROVE k \in upto[j]
  <2>1. k \in S
    BY <1>3
  <2>2. First2(k, i) \/ (~First2(i, k) /\ k <= i)
    BY <1>2, <2>1
  <2>3. First2(i, j) \/ (~First2(j, i) /\ i <= j)
    BY <1>2, <1>7
  <2>4. First2(k, j) \/ (~First2(j, k) /\ k <= j)
    BY <1>1, <2>1, <2>2, <2>3
  <2> QED BY <1>2, <2>1, <2>4
<1> QED BY <1>3, <1>4, <1>5, <1>6, <1>7 DEF IsOrder, upto

\* The campaign claims what is overdue, when a day late is enough.
LEMMA CampaignClaimsState == AccountType /\ AfterDays[1] = 1 => CampaignClaims
<1> SUFFICES ASSUME AccountType, AfterDays[1] = 1 PROVE CampaignClaims
  OBVIOUS
<1>1. PICK n \in Nat : \E owed \in [1 .. n -> Nat] :
         n = Months(today) /\ Report = [i \in 1 .. n |-> LineOfMonth(i, owed[i], today)]
  BY ReportIs
<1>2. PICK owed \in [1 .. n -> Nat] :
         n = Months(today) /\ Report = [i \in 1 .. n |-> LineOfMonth(i, owed[i], today)]
  BY <1>1
<1> DEFINE lines == Report
           N == 1 .. n
           late == [i \in N |-> today - RowOf(i).due]
           overdue == {i \in DOMAIN lines : lines[i].status = "overdue"}
           unpaid == {i \in DOMAIN lines : lines[i].outstanding > 0}
           decided == [i \in unpaid |-> Decision(lines[i])]
           order == BatchOrder(unpaid, decided)
           K == Cardinality(unpaid)
           places == Sorted(unpaid, order)
           batch == Batch(lines)
           claims == Claims(batch)
           M == DOMAIN claims
<1>3. DOMAIN lines = N /\ \A i \in N : lines[i] = LineOfMonth(i, owed[i], today) /\ owed[i] \in Nat
  BY <1>2
<1>4. batch = [m \in 1 .. K |-> decided[places[m]]]
  BY DEF Batch, BatchOrder
<1> HIDE DEF lines, batch
<1>5. \A i \in N : late[i] \in Int /\ late[i] = today - RowOf(i).due /\ (today > RowOf(i).due <=> late[i] >= 1)
  <2> SUFFICES ASSUME NEW i \in N PROVE late[i] \in Int /\ (today > RowOf(i).due <=> late[i] >= 1)
    OBVIOUS
  <2>1. today \in Nat
    BY AccountAssumption DEF AccountType
  <2>2. RowOf(i).due \in Int
    BY <1>2, <2>1, DueType
  <2>3. PICK d \in Int : d = RowOf(i).due
    BY <2>2
  <2> QED BY <2>1, <2>3
<1> HIDE DEF late
<1>6. ASSUME NEW i \in N
      PROVE  /\ i \in unpaid <=> owed[i] > 0
             /\ i \in overdue <=> owed[i] > 0 /\ late[i] >= 1
             /\ lines[i].month = RowOf(i).month /\ lines[i].outstanding = owed[i] /\ lines[i].due = RowOf(i).due
  <2>1. lines[i] = LineOfMonth(i, owed[i], today) /\ owed[i] \in Nat
    BY <1>3
  <2>2. /\ lines[i].month = RowOf(i).month /\ lines[i].outstanding = owed[i] /\ lines[i].due = RowOf(i).due
        /\ lines[i].status = IF owed[i] = 0 THEN "paid" ELSE IF today > RowOf(i).due THEN "overdue" ELSE "open"
    BY <2>1 DEF LineOfMonth
  <2> QED BY <1>3, <1>5, <2>1, <2>2
<1>7. unpaid \subseteq N /\ overdue \subseteq N /\ unpaid \subseteq Nat /\ IsFiniteSet(unpaid) /\ IsFiniteSet(overdue)
  <2>1. unpaid \subseteq N /\ overdue \subseteq N
    BY <1>3
  <2>2. IsFiniteSet(N)
    <3>1. 1 \in Int /\ n \in Int
      OBVIOUS
    <3> QED BY <3>1, FS_Interval
  <2> QED BY <2>1, <2>2, FS_Subset
<1>8. ASSUME NEW i \in unpaid
      PROVE  /\ decided[i].month = RowOf(i).month /\ decided[i].outstanding = owed[i]
             /\ decided[i].level = Level(late[i]) /\ decided[i].level \in Int /\ decided[i].overdue \in Int
             /\ decided[i].level > 0 <=> i \in overdue
             /\ decided[i].level > 0 => decided[i].level \in 1 .. 3
             /\ \A k \in 1 .. 3 : k <= decided[i].level <=> AfterDays[k] <= late[i]
  <2>1. i \in N /\ owed[i] > 0
    BY <1>6, <1>7
  <2>2. decided[i] = Decision(lines[i])
    OBVIOUS
  <2>3. PICK d \in Int : d = late[i] /\ d = today - RowOf(i).due
    BY <1>5, <2>1
  <2>4. /\ decided[i].month = lines[i].month /\ decided[i].outstanding = lines[i].outstanding
        /\ decided[i].level = Level(d) /\ decided[i].overdue = Positive(d)
    BY <1>6, <2>1, <2>2, <2>3 DEF Decision
  <2>5. Positive(d) \in Int
    BY DEF Positive
  <2>6. /\ Level(d) \in 0 .. 3 /\ (Level(d) > 0 <=> d >= 1)
        /\ \A k \in 1 .. 3 : k <= Level(d) <=> AfterDays[k] <= d
    BY LevelIs
  <2> HIDE DEF decided, unpaid, overdue
  <2>7. decided[i].month = RowOf(i).month /\ decided[i].outstanding = owed[i]
    BY <1>6, <2>1, <2>4
  <2>8. decided[i].level = Level(late[i]) /\ decided[i].level \in 0 .. 3 /\ decided[i].overdue \in Int
    BY <2>3, <2>4, <2>5, <2>6
  <2>9. decided[i].level > 0 <=> i \in overdue
    BY <1>6, <2>1, <2>3, <2>4, <2>6
  <2>10. decided[i].level \in Int /\ (decided[i].level > 0 => decided[i].level \in 1 .. 3)
    BY <2>8
  <2>11. \A k \in 1 .. 3 : k <= decided[i].level <=> AfterDays[k] <= late[i]
    BY <2>3, <2>4, <2>6
  <2> QED BY <2>7, <2>8, <2>9, <2>10, <2>11
<1> HIDE DEF decided, unpaid, overdue
<1>9. places \in Bijection(1 .. K, unpaid)
  <2>1. IsOrder(unpaid, order)
    BY <1>7, <1>8, BatchIsOrder
  <2> HIDE DEF order
  <2> QED BY <1>7, <2>1, SortedBijection
<1> HIDE DEF places, order, K
<1>10. /\ places \in [1 .. K -> unpaid]
       /\ \A a, b \in 1 .. K : places[a] = places[b] => a = b
       /\ \A i \in unpaid : \E a \in 1 .. K : places[a] = i
  BY <1>9 DEF Bijection, Injection, Surjection, IsInjective
<1>11. M = {m \in 1 .. K : places[m] \in overdue}
  <2>1. DOMAIN batch = 1 .. K
    BY <1>4
  <2>2. M = {m \in DOMAIN batch : batch[m].level > 0}
    BY DEF Claims
  <2>3. ASSUME NEW m \in 1 .. K PROVE batch[m].level > 0 <=> places[m] \in overdue
    <3>1. batch[m] = decided[places[m]] /\ places[m] \in unpaid
      BY <1>4, <1>10
    <3> QED BY <1>8, <3>1
  <2> HIDE DEF M
  <2> QED BY <2>1, <2>2, <2>3
<1>12. ASSUME NEW m \in M
       PROVE  /\ claims[m].month = RowOf(places[m]).month
              /\ claims[m].principal = owed[places[m]] /\ owed[places[m]] \in Int
              /\ claims[m].fee \in Int /\ claims[m].fee = Fees[claims[m].level]
              /\ claims[m].claim = claims[m].principal + claims[m].fee
              /\ claims[m].level \in 1 .. 3
              /\ \A k \in 1 .. 3 : k <= claims[m].level <=> AfterDays[k] <= late[places[m]]
  <2>1. m \in 1 .. K /\ places[m] \in overdue /\ places[m] \in unpaid
    BY <1>10, <1>11
  <2>2. PICK d : d = decided[places[m]]
    OBVIOUS
  <2>3. claims[m] = [month |-> batch[m].month, level |-> batch[m].level, principal |-> batch[m].outstanding,
                     fee |-> Fees[batch[m].level], claim |-> batch[m].outstanding + Fees[batch[m].level]]
    BY DEF Claims
  <2>4. batch[m] = d
    BY <1>4, <2>1, <2>2
  <2>5. /\ d.month = RowOf(places[m]).month /\ d.outstanding = owed[places[m]] /\ d.level \in 1 .. 3
        /\ \A k \in 1 .. 3 : k <= d.level <=> AfterDays[k] <= late[places[m]]
    BY <1>8, <2>1, <2>2
  <2>6. Fees[d.level] \in Int
    <3>1. PICK level \in 1 .. 3 : level = d.level
      BY <2>5
    <3>2. Fees \in [1 .. 3 -> Nat]
      BY DunningAssumption
    <3>3. Fees[level] \in Int
      BY <3>2
    <3> QED BY <3>1, <3>3
  <2>7. owed[places[m]] \in Int
    <3>1. PICK i \in N : i = places[m]
      BY <1>7, <2>1
    <3>2. owed[i] \in Int
      OBVIOUS
    <3> QED BY <3>1, <3>2
  <2> HIDE DEF claims
  <2> QED BY <2>3, <2>4, <2>5, <2>6, <2>7
<1> HIDE DEF claims, M
<1> DEFINE q == [m \in M |-> places[m]]
<1>13. /\ q \in Bijection(M, overdue)
       /\ \A m \in M : q[m] = places[m] /\ q[m] \in overdue
       /\ \A a, b \in M : q[a] = q[b] => a = b
       /\ \A i \in overdue : \E m \in M : q[m] = i
  <2>1. \A m \in M : q[m] = places[m] /\ q[m] \in overdue
    BY <1>11
  <2>2. \A a, b \in M : q[a] = q[b] => a = b
    BY <1>10, <1>11
  <2>3. ASSUME NEW i \in overdue PROVE \E m \in M : q[m] = i
    <3>1. i \in unpaid
      BY <1>6, <1>7
    <3>2. PICK a \in 1 .. K : places[a] = i
      BY <1>10, <3>1
    <3> QED BY <1>11, <3>2
  <2>4. q \in [M -> overdue]
    BY <2>1
  <2> HIDE DEF q
  <2> QED BY <2>1, <2>2, <2>3, <2>4 DEF Bijection, Injection, Surjection, IsInjective
<1> HIDE DEF q
<1>14. IsFiniteSet(M)
  <2>1. IsFiniteSet(1 .. K) /\ M \subseteq 1 .. K
    <3>1. K \in Nat
      BY <1>7, FS_CardinalityType DEF K
    <3>2. 1 \in Int /\ K \in Int
      BY <3>1
    <3> QED BY <1>11, <3>2, FS_Interval
  <2> QED BY <2>1, FS_Subset
<1>15. Cardinality(M) = Cardinality(overdue)
  BY <1>13, <1>14, FS_Bijection DEF ExistsBijection
<1>16. {claims[m].month : m \in M} = {lines[i].month : i \in overdue}
  <2>1. \A i \in overdue : lines[i].month = RowOf(i).month
    BY <1>6, <1>7
  <2>2. \A m \in M : claims[m].month = RowOf(q[m]).month
    BY <1>12, <1>13
  <2> QED BY <1>13, <2>1, <2>2
<1> DEFINE campaign == Campaign(claims)
           principal == [m \in M |-> claims[m].principal]
           fee == [m \in M |-> claims[m].fee]
           packages == Packages(campaign)
<1>17. /\ campaign.lines = claims /\ campaign.total_principal = SumOf(principal)
       /\ campaign.total_claim = SumOf(principal) + SumOf(fee)
  BY DEF Campaign, M
<1>18. /\ \A m \in M : principal[m] = claims[m].principal /\ fee[m] = claims[m].fee
       /\ DOMAIN principal = M /\ DOMAIN fee = M
  OBVIOUS
<1> HIDE DEF campaign, principal, fee
<1>19. SumOf(principal) = SumFunctionOnSet(principal, M) /\ SumOf(fee) = SumFunctionOnSet(fee, M)
  BY <1>18, SumOfAll
<1>20. SumOf(principal) = SumOf([i \in overdue |-> lines[i].outstanding])
  <2> DEFINE f == [i \in overdue |-> lines[i].outstanding]
  <2>1. \A i \in overdue : f[i] = owed[i] /\ f[i] \in Int
    <3> SUFFICES ASSUME NEW i \in overdue PROVE f[i] = owed[i] /\ owed[i] \in Int
      OBVIOUS
    <3>1. i \in N
      BY <1>7
    <3> QED BY <1>3, <1>6, <3>1
  <2>2. DOMAIN f = overdue
    OBVIOUS
  <2> HIDE DEF f
  <2>3. \A m \in M : principal[m] = f[q[m]]
    BY <1>12, <1>13, <1>18, <2>1
  <2>4. SumFunctionOnSet(principal, M) = SumFunctionOnSet(f, overdue)
    BY <1>13, <1>14, <2>1, <2>3, SumMoved
  <2>5. SumOf(f) = SumFunctionOnSet(f, overdue)
    BY <2>2, SumOfAll
  <2> QED BY <1>19, <2>4, <2>5 DEF f
<1>21. ASSUME NEW m \in M
       PROVE  /\ packages[m].claim = principal[m] + fee[m] /\ principal[m] \in Int /\ fee[m] \in Int
              /\ packages[m].month = claims[m].month
  <2> DEFINE line == CHOOSE l \in Range(claims) : l.month = claims[m].month
  <2>1. packages[m].claim = line.claim /\ packages[m].month = claims[m].month
    BY <1>17 DEF Packages, M
  <2>2. Range(claims) = {claims[a] : a \in M}
    BY DEF Range, M
  <2>3. line \in Range(claims) /\ line.month = claims[m].month
    BY <2>2
  <2> HIDE DEF line
  <2>4. PICK a \in M : line = claims[a]
    BY <2>2, <2>3
  <2>5. RowOf(places[a]).month = RowOf(places[m]).month
    BY <1>12, <2>3, <2>4
  <2>6. places[a] \in 1 .. n /\ places[m] \in 1 .. n
    BY <1>7, <1>11
  <2>7. today \in Nat
    BY AccountAssumption DEF AccountType
  <2>8. places[a] = places[m]
    BY <1>2, <2>5, <2>6, <2>7, MonthOnce
  <2>9. a = m
    BY <1>13, <2>8
  <2>10. line.claim = claims[m].principal + claims[m].fee
    BY <1>12, <2>4, <2>9
  <2> QED BY <1>12, <1>18, <2>1, <2>10
<1>22. SumOf([m \in DOMAIN packages |-> packages[m].claim]) = SumOf(principal) + SumOf(fee)
  <2> DEFINE h == [m \in DOMAIN packages |-> packages[m].claim]
  <2>1. DOMAIN packages = M
    BY <1>17 DEF Packages, M
  <2>2. DOMAIN h = M /\ \A m \in M : h[m] = packages[m].claim
    BY <2>1
  <2> HIDE DEF h, packages
  <2>3. SumOf(h) = SumFunctionOnSet(h, M)
    BY <2>2, SumOfAll
  <2>4. \A m \in M : principal[m] \in Int /\ fee[m] \in Int /\ h[m] = principal[m] + fee[m]
    BY <1>21, <2>2
  <2>5. SumFunctionOnSet(h, M) = SumFunctionOnSet(principal, M) + SumFunctionOnSet(fee, M)
    BY <1>14, <2>4, SumPlus
  <2> QED BY <1>19, <2>3, <2>5 DEF h
<1>23. /\ campaign.total_principal = SumOf([i \in overdue |-> lines[i].outstanding])
       /\ campaign.total_claim = SumOf([m \in DOMAIN packages |-> packages[m].claim])
  BY <1>17, <1>20, <1>22
<1>24. ASSUME NEW m \in M PROVE \E i \in overdue : OfItsMonth(claims[m], packages[m], lines[i])
  <2>1. PICK i \in overdue : i = places[m]
    BY <1>11
  <2>2. /\ i \in N /\ lines[i].month = RowOf(i).month /\ lines[i].outstanding = owed[i]
        /\ late[i] = today - lines[i].due
    BY <1>5, <1>6, <1>7, <2>1
  <2>3. /\ claims[m].month = lines[i].month /\ claims[m].principal = lines[i].outstanding
        /\ claims[m].level \in 1 .. 3 /\ claims[m].fee = Fees[claims[m].level]
        /\ \A k \in 1 .. 3 : k <= claims[m].level <=> AfterDays[k] <= late[i]
    BY <1>12, <2>1, <2>2
  <2>4. packages[m].month = lines[i].month /\ packages[m].claim = lines[i].outstanding + Fees[claims[m].level]
    BY <1>18, <1>21, <2>3
  <2>5. OfItsMonth(claims[m], packages[m], lines[i])
    BY <2>2, <2>3, <2>4 DEF OfItsMonth
  <2> QED BY <2>5
<1> HIDE DEF packages
<1>25. ClaimsOverdue(lines, claims, campaign, packages)
  BY <1>15, <1>16, <1>23, <1>24 DEF ClaimsOverdue, M, overdue
<1> QED BY <1>25 DEF CampaignClaims, packages, campaign, claims, batch, lines
-----------------------------------------------------------------------------
(* The theorems.  Every state of the system has the types, and with them   *)
(* the properties.                                                         *)

\* Every step keeps the types of the three engines' data.
LEMMA Typed == Spec => []EngineTypeOK
  BY TypeInit, TypeNext, PTL DEF Spec

\* The cost allocation (allocation_engine.py) loses and invents no cent: the
\* statements together hold the costs that have a share, less the advances.
THEOREM CostsAllocated == Spec => []CostsExact
<1>1. EngineTypeOK => CostsExact
  BY CostsExactState DEF EngineTypeOK
<1> QED BY <1>1, Typed, PTL

\* Each portion is within half a cent of the exact one; the last, which takes
\* the remainder, within half a cent for each portion before it.
THEOREM SharesFair == Spec => []FairShares
<1>1. EngineTypeOK => FairShares
  BY FairSharesState DEF EngineTypeOK
<1> QED BY <1>1, Typed, PTL

\* The allocation of the payments, the settlement and its summary, the aging
\* and the balance (lease_engine.py) show the same debt.
THEOREM ViewsEqual == Spec => []ViewsAgree
<1>1. EngineTypeOK => ViewsAgree
  BY ViewsAgreeState DEF EngineTypeOK
<1> QED BY <1>1, Typed, PTL

\* A month that is paid stays so until the rent of the unit, the days of the
\* contract or a booking that was there is changed: no later booking and no
\* new month opens it again.
THEOREM PaidKept == Spec => PaidStaysPaid
<1>1. EngineTypeOK /\ [Next]_vars
        => [\A pays \in {payments'}, now \in {today'} :
              (rent' = rent /\ contract' = contract /\ \A i \in DOMAIN payments :
                                                         i \in DOMAIN pays /\ pays[i] = payments[i])
                => PaidMonths(payments, today) \subseteq PaidMonths(pays, now)]_account
  <2> SUFFICES ASSUME EngineTypeOK, [Next]_vars, ~UNCHANGED account PROVE PaidStep
    BY DEF PaidStep
  <2>1. AccountNext
    BY DEF Next, vars
  <2> QED BY <2>1, PaidStaysStep DEF EngineTypeOK
<1> QED BY <1>1, Typed, PTL DEF Spec, PaidStaysPaid

\* A dunning campaign (dunning_engine.py) under a policy that sends the first
\* notice a day after the rent was due, as the default does, claims what the
\* settlement shows overdue and each month once, with the level and the fee
\* its own lateness calls for, and each package has the claim of its notice.
THEOREM CampaignsClaim == AfterDays[1] = 1 /\ Spec => []CampaignClaims
<1> SUFFICES ASSUME AfterDays[1] = 1 PROVE Spec => []CampaignClaims
  OBVIOUS
<1>1. EngineTypeOK => CampaignClaims
  BY CampaignClaimsState DEF EngineTypeOK
<1> QED BY <1>1, Typed, PTL

\* An invoice is matched with the open bookings (invoice_matching.py) just as
\* a payment of its amount would be allocated to them, and what is left of it
\* is what they cannot cover; one below zero is refused.
THEOREM MatchesAgree == Spec => []MatchAgrees
<1>1. EngineTypeOK => MatchAgrees
  BY MatchAgreesState DEF EngineTypeOK
<1> QED BY <1>1, Typed, PTL

\* Generate refuses a period if and only if the preflight names a blocker, but
\* for the consumption of units of which some were not read.
THEOREM PreflightTells == Spec => []PreflightAgrees
<1>1. EngineTypeOK => PreflightAgrees
  BY PreflightAgreesState DEF EngineTypeOK
<1> QED BY <1>1, Typed, PTL
=============================================================================
