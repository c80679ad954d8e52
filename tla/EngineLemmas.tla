---------------------------- MODULE EngineLemmas ----------------------------
(***************************************************************************)
(* Facts the proofs about the engines rest on: induction over numbers and  *)
(* over finite sets, sums over finite sets, the order a list is sorted in, *)
(* what is computed step by step, and the allocation of payments to rows,  *)
(* for any amounts.                                                        *)
(***************************************************************************)
EXTENDS TenantAccount, FiniteSetTheorems, WellFoundedInduction, TLAPS
-----------------------------------------------------------------------------
(* Induction, and functions that are defined by recursion.                 *)

\* A set of natural numbers that is not empty has a least member.
LEMMA LeastOf ==
  ASSUME NEW T, T \subseteq Nat, T # {}
  PROVE  \E x \in T : \A y \in T : x <= y
<1> DEFINE R == OpToRel(<, Nat)
<1>1. IsWellFoundedOn(R, Nat)
  BY NatLessThanWellFounded
<1>2. \A x, y \in Nat : <<x, y>> \in R <=> x < y
  BY DEF OpToRel
<1> HIDE DEF R
<1>3. PICK x \in T : \A y \in T : ~(<<y, x>> \in R)
  BY <1>1, WFMin
<1>4. \A y \in T : ~(y < x)
  BY <1>2, <1>3
<1> QED BY <1>4

\* Induction, over a set of numbers instead of a predicate.
LEMMA Induction ==
  ASSUME NEW S, 0 \in S, \A n \in Nat : n \in S => n + 1 \in S
  PROVE  \A n \in Nat : n \in S
<1> SUFFICES ASSUME Nat \ S # {} PROVE FALSE
  OBVIOUS
<1>1. PICK x \in Nat \ S : \A y \in Nat \ S : x <= y
  BY LeastOf
<1> QED BY <1>1, x - 1 \in Nat

\* A finite set has a property if the empty set has it, and a set has it when it
\* does with any element taken out.
LEMMA FiniteInduction ==
  ASSUME NEW D, IsFiniteSet(D), NEW P, {} \in P,
         \A S \in SUBSET D : S # {} /\ (\A x \in S : S \ {x} \in P) => S \in P
  PROVE  D \in P
<1> DEFINE N == {n \in Nat : \A S \in SUBSET D : Cardinality(S) = n => S \in P}
<1>1. 0 \in N
  BY FS_EmptySet, FS_Subset
<1>2. ASSUME NEW n \in Nat, n \in N PROVE n + 1 \in N
  <2> SUFFICES ASSUME NEW S \in SUBSET D, Cardinality(S) = n + 1 PROVE S \in P
    OBVIOUS
  <2>1. IsFiniteSet(S) /\ S # {}
    BY FS_Subset, FS_EmptySet
  <2>2. ASSUME NEW x \in S PROVE S \ {x} \in P
    <3>1. S \ {x} \in SUBSET D
      OBVIOUS
    <3>2. Cardinality(S \ {x}) = Cardinality(S) - 1
      BY <2>1, <2>2, FS_RemoveElement
    <3> QED BY <1>2, <3>1, <3>2
  <2> QED BY <2>1, <2>2
<1> HIDE DEF N
<1>3. \A n \in Nat : n \in N
  BY <1>1, <1>2, Induction
<1> QED BY <1>3, FS_CardinalityType DEF N
-----------------------------------------------------------------------------
(* Recursion over the subsets of a finite set. *)
Looks(F, D, V) ==
  /\ F \in [[SUBSET D -> V] -> [SUBSET D -> V]]
  /\ \A g, h \in [SUBSET D -> V], S \in SUBSET D :
       (\A T \in SUBSET S : T # S => g[T] = h[T]) => F[g][S] = F[h][S]

HasFixpoint(F, D, V) == \E g \in [SUBSET D -> V] : F[g] = g

\* A definition that looks only at smaller sets has a solution.
LEMMA Recursion ==
  ASSUME NEW D, IsFiniteSet(D), NEW V, V # {}, NEW F, Looks(F, D, V)
  PROVE  HasFixpoint(F, D, V)
<1> DEFINE Good(g, n) == \A S \in SUBSET D : Cardinality(S) < n => F[g][S] = g[S]
           N == {n \in Nat : \E g \in [SUBSET D -> V] : Good(g, n)}
<1>1. 0 \in N
  <2>1. \A S \in SUBSET D : Cardinality(S) \in Nat
    BY FS_Subset, FS_CardinalityType
  <2>2. [S \in SUBSET D |-> CHOOSE v \in V : TRUE] \in [SUBSET D -> V]
    OBVIOUS
  <2>3. \A g : Good(g, 0)
    BY <2>1
  <2> QED BY <2>2, <2>3
<1>2. ASSUME NEW n \in Nat, n \in N PROVE n + 1 \in N
  <2>1. PICK g \in [SUBSET D -> V] : Good(g, n)
    BY <1>2
  <2>2. F[g] \in [SUBSET D -> V]
    BY DEF Looks
  <2>3. ASSUME NEW S \in SUBSET D, Cardinality(S) < n + 1 PROVE F[F[g]][S] = F[g][S]
    <3>1. ASSUME NEW T \in SUBSET S, T # S PROVE F[g][T] = g[T]
      <4>1. IsFiniteSet(S) /\ IsFiniteSet(T) /\ T \in SUBSET D
        BY <3>1, FS_Subset
      <4>2. Cardinality(T) \in Nat /\ Cardinality(S) \in Nat
        BY <4>1, FS_CardinalityType
      <4>3. Cardinality(T) <= Cardinality(S) /\ Cardinality(T) # Cardinality(S)
        BY <3>1, <4>1, FS_Subset
      <4>4. Cardinality(T) < n
        BY <2>3, <4>2, <4>3
      <4> QED BY <2>1, <4>1, <4>4
    <3> QED BY <2>2, <3>1 DEF Looks
  <2>4. Good(F[g], n + 1)
    BY <2>3
  <2> HIDE DEF Good
  <2>5. \E h \in [SUBSET D -> V] : Good(h, n + 1)
    BY <2>2, <2>4
  <2> QED BY <2>5
<1> HIDE DEF N
<1>3. Cardinality(D) + 1 \in N
  BY <1>1, <1>2, Induction, FS_CardinalityType
<1>4. PICK g \in [SUBSET D -> V] : Good(g, Cardinality(D) + 1)
  BY <1>3 DEF N
<1>5. \A S \in SUBSET D : F[g][S] = g[S]
  BY <1>4, FS_Subset, FS_CardinalityType
<1>6. F[g] \in [SUBSET D -> V]
  BY DEF Looks
<1> QED BY <1>5, <1>6 DEF HasFixpoint
-----------------------------------------------------------------------------
Pick(S) == CHOOSE x \in S : TRUE
\* What a sum adds up, from the empty set on.
Adds(f, g, D) == g = [S \in SUBSET D |-> IF S = {} THEN 0 ELSE f[Pick(S)] + g[S \ {Pick(S)}]]

\* The sum the community modules define by a fold is one that adds up.
LEMMA SumIsFold ==
  ASSUME NEW D, IsFiniteSet(D), NEW f, \A x \in D : f[x] \in Int
  PROVE  \E g \in [SUBSET D -> Int] : Adds(f, g, D) /\ SumFunctionOnSet(f, D) = g[D]
<1> DEFINE it == CHOOSE g : Adds(f, g, D)
<1>1. SumFunctionOnSet(f, D) = it[D]
  BY DEF SumFunctionOnSet, FoldFunctionOnSet, MapThenFoldSet, Adds, Pick
<1>a. PICK V : V = Int
  OBVIOUS
<1> DEFINE F == [g \in [SUBSET D -> V] |->
                  [S \in SUBSET D |-> IF S = {} THEN 0 ELSE f[Pick(S)] + g[S \ {Pick(S)}]]]
<1>2. \A S \in SUBSET D : S # {} => Pick(S) \in S
  BY DEF Pick
<1>3. F \in [[SUBSET D -> V] -> [SUBSET D -> V]]
  <2>1. ASSUME NEW g \in [SUBSET D -> V], NEW S \in SUBSET D, S # {}
        PROVE  f[Pick(S)] + g[S \ {Pick(S)}] \in V
    BY <1>2, <1>a, <2>1
  <2>2. 0 \in V
    BY <1>a
  <2> QED BY <2>1, <2>2
<1>4. ASSUME NEW g \in [SUBSET D -> V], NEW h \in [SUBSET D -> V], NEW S \in SUBSET D,
             \A T \in SUBSET S : T # S => g[T] = h[T]
      PROVE  F[g][S] = F[h][S]
  BY <1>2, <1>4
<1>5. \A g \in [SUBSET D -> V] : F[g] = g <=> Adds(f, g, D)
  BY DEF Adds
<1> HIDE DEF F
<1>6. \E g \in [SUBSET D -> V] : F[g] = g
  <2>1. Looks(F, D, V)
    BY <1>3, <1>4 DEF Looks
  <2>2. V # {}
    BY <1>a
  <2>3. HasFixpoint(F, D, V)
    BY <2>1, <2>2, Recursion
  <2> QED BY <2>3 DEF HasFixpoint
<1>7. \E g : Adds(f, g, D)
  BY <1>5, <1>6
<1>8. Adds(f, it, D)
  BY <1>7, Zenon
<1> HIDE DEF it
<1>9. it[D] \in Int /\ \A S \in SUBSET D : it[S] \in Int
  <2> DEFINE P == {S \in SUBSET D : it[S] \in Int}
  <2>1. \A S \in SUBSET D : it[S] = IF S = {} THEN 0 ELSE f[Pick(S)] + it[S \ {Pick(S)}]
    BY <1>8 DEF Adds
  <2>2. \A S \in SUBSET D : S \in P
    <3> SUFFICES ASSUME NEW S \in SUBSET D PROVE S \in P
      OBVIOUS
    <3>1. {} \in P
      <4>1. {} \in SUBSET D
        OBVIOUS
      <4>2. it[{}] = 0
        BY <2>1, <4>1, Zenon
      <4> QED BY <4>1, <4>2
    <3>2. ASSUME NEW T \in SUBSET S, T # {}, \A x \in T : T \ {x} \in P PROVE T \in P
      <4>1. T \in SUBSET D /\ Pick(T) \in T
        BY <1>2, <3>2
      <4>2. T \ {Pick(T)} \in P /\ f[Pick(T)] \in Int
        BY <3>2, <4>1
      <4>3. it[T] = f[Pick(T)] + it[T \ {Pick(T)}]
        BY <2>1, <3>2, <4>1, Zenon
      <4> QED BY <4>1, <4>2, <4>3
    <3>3. IsFiniteSet(S)
      BY FS_Subset
    <3> HIDE DEF P
    <3> QED BY <3>1, <3>2, <3>3, FiniteInduction
  <2> QED BY <2>2
<1>10. it = [S \in SUBSET D |-> it[S]]
  BY <1>8 DEF Adds
<1> QED BY <1>1, <1>8, <1>9, <1>10

\* What is added up of a part is the sum over that part.
LEMMA SumOfPart ==
  ASSUME NEW D, IsFiniteSet(D), NEW f, \A x \in D : f[x] \in Int,
         NEW g \in [SUBSET D -> Int], Adds(f, g, D), NEW S \in SUBSET D
  PROVE  SumFunctionOnSet(f, S) = g[S]
<1>1. IsFiniteSet(S) /\ \A x \in S : f[x] \in Int
  BY FS_Subset
<1>2. PICK h \in [SUBSET S -> Int] : Adds(f, h, S) /\ SumFunctionOnSet(f, S) = h[S]
  BY <1>1, SumIsFold
<1>3. \A T : T # {} => Pick(T) \in T
  BY DEF Pick
<1> DEFINE P == {T \in SUBSET S : g[T] = h[T]}
<1>4. {} \in P
  <2>1. {} \in SUBSET S /\ {} \in SUBSET D
    OBVIOUS
  <2>2. g[{}] = 0 /\ h[{}] = 0
    BY <1>2, <2>1, Zenon DEF Adds
  <2> QED BY <2>1, <2>2
<1>5. ASSUME NEW T \in SUBSET S, T # {}, \A x \in T : T \ {x} \in P PROVE T \in P
  <2>1. T \in SUBSET D /\ Pick(T) \in T
    BY <1>3, <1>5
  <2>2. g[T] = f[Pick(T)] + g[T \ {Pick(T)}] /\ h[T] = f[Pick(T)] + h[T \ {Pick(T)}]
    BY <1>2, <1>5, <2>1, Zenon DEF Adds
  <2>3. T \ {Pick(T)} \in P
    BY <1>5, <2>1
  <2> QED BY <2>2, <2>3
<1> HIDE DEF P
<1>6. S \in P
  BY <1>1, <1>4, <1>5, FiniteInduction
<1> QED BY <1>2, <1>6 DEF P

\* The sum of nothing.
LEMMA SumEmpty == ASSUME NEW f PROVE SumFunctionOnSet(f, {}) = 0
<1>1. IsFiniteSet({})
  BY FS_EmptySet
<1>2. PICK g \in [SUBSET {} -> Int] : Adds(f, g, {}) /\ SumFunctionOnSet(f, {}) = g[{}]
  BY <1>1, SumIsFold
<1>3. {} \in SUBSET {}
  OBVIOUS
<1>4. g[{}] = 0
  BY <1>2, <1>3, Zenon DEF Adds
<1> QED BY <1>2, <1>4

\* A sum of integers is one.
LEMMA SumType ==
  ASSUME NEW D, IsFiniteSet(D), NEW f, \A x \in D : f[x] \in Int
  PROVE  SumFunctionOnSet(f, D) \in Int
<1>1. PICK g \in [SUBSET D -> Int] : SumFunctionOnSet(f, D) = g[D]
  BY SumIsFold
<1>2. D \in SUBSET D
  OBVIOUS
<1> QED BY <1>1, <1>2

\* Any element can be taken out of a sum.
LEMMA SumOut ==
  ASSUME NEW D, IsFiniteSet(D), NEW f, \A x \in D : f[x] \in Int, NEW e \in D
  PROVE  SumFunctionOnSet(f, D) = f[e] + SumFunctionOnSet(f, D \ {e})
<1>1. PICK g \in [SUBSET D -> Int] : Adds(f, g, D) /\ SumFunctionOnSet(f, D) = g[D]
  BY SumIsFold
<1>2. \A T : T # {} => Pick(T) \in T
  BY DEF Pick
<1> DEFINE P == {S \in SUBSET D : \A x \in S : g[S] = f[x] + g[S \ {x}]}
<1>3. {} \in P
  OBVIOUS
<1>4. ASSUME NEW S \in SUBSET D, S # {}, \A x \in S : S \ {x} \in P PROVE S \in P
  <2> SUFFICES ASSUME NEW x \in S PROVE g[S] = f[x] + g[S \ {x}]
    OBVIOUS
  <2> DEFINE y == Pick(S)
  <2>1. y \in S
    BY <1>2, <1>4
  <2>2. g[S] = f[y] + g[S \ {y}]
    BY <1>1, <1>4, Zenon DEF Adds
  <2> HIDE DEF y
  <2>3. CASE x = y
    BY <2>2, <2>3
  <2>4. CASE x # y
    <3>1. S \ {x} \in P /\ S \ {y} \in P /\ x \in S \ {y} /\ y \in S \ {x}
      BY <1>4, <2>1, <2>4
    <3>2. g[S \ {y}] = f[x] + g[(S \ {y}) \ {x}] /\ g[S \ {x}] = f[y] + g[(S \ {x}) \ {y}]
      BY <3>1
    <3>3. (S \ {y}) \ {x} = (S \ {x}) \ {y} /\ (S \ {x}) \ {y} \in SUBSET D
      OBVIOUS
    <3>4. g[(S \ {x}) \ {y}] \in Int /\ f[x] \in Int /\ f[y] \in Int
      BY <2>1, <3>3
    <3> DEFINE a == g[S \ {y}]
               b == g[S \ {x}]
               r == g[(S \ {x}) \ {y}]
    <3>5. a = f[x] + r /\ b = f[y] + r /\ g[S] = f[y] + a /\ r \in Int
      BY <2>2, <3>2, <3>3, <3>4
    <3> HIDE DEF a, b, r
    <3>6. g[S] = f[x] + b
      BY <3>4, <3>5
    <3> QED BY <3>6 DEF b
  <2> QED BY <2>3, <2>4
<1>5. D \in P
  <2> HIDE DEF P
  <2> QED BY <1>3, <1>4, FiniteInduction
<1>6. D \ {e} \in SUBSET D
  OBVIOUS
<1>7. SumFunctionOnSet(f, D \ {e}) = g[D \ {e}]
  BY <1>1, <1>6, SumOfPart
<1> QED BY <1>1, <1>5, <1>7

\* One more addend.
LEMMA SumAdd ==
  ASSUME NEW D, IsFiniteSet(D), NEW e, e \notin D, NEW f, \A x \in D \cup {e} : f[x] \in Int
  PROVE  SumFunctionOnSet(f, D \cup {e}) = f[e] + SumFunctionOnSet(f, D)
<1>1. IsFiniteSet(D \cup {e}) /\ (D \cup {e}) \ {e} = D /\ e \in D \cup {e}
  BY FS_AddElement
<1> QED BY <1>1, SumOut

\* A sum depends on what is added only.
LEMMA SumExt ==
  ASSUME NEW D, IsFiniteSet(D), NEW f, NEW g, \A x \in D : f[x] = g[x] /\ g[x] \in Int
  PROVE  SumFunctionOnSet(f, D) = SumFunctionOnSet(g, D)
<1> DEFINE P == {S \in SUBSET D : SumFunctionOnSet(f, S) = SumFunctionOnSet(g, S)}
<1>1. {} \in P
  BY SumEmpty
<1>2. ASSUME NEW S \in SUBSET D, S # {}, \A x \in S : S \ {x} \in P PROVE S \in P
  <2>1. PICK x \in S : TRUE
    BY <1>2
  <2>2. IsFiniteSet(S) /\ S \ {x} \in P /\ f[x] = g[x]
    BY <1>2, FS_Subset
  <2>3. SumFunctionOnSet(f, S) = f[x] + SumFunctionOnSet(f, S \ {x})
    BY <2>2, SumOut
  <2>4. SumFunctionOnSet(g, S) = g[x] + SumFunctionOnSet(g, S \ {x})
    BY <2>2, SumOut
  <2> QED BY <2>2, <2>3, <2>4
<1> HIDE DEF P
<1>3. D \in P
  BY <1>1, <1>2, FiniteInduction
<1> QED BY <1>3 DEF P

\* A sum of zeros.
LEMMA SumZero ==
  ASSUME NEW D, IsFiniteSet(D), NEW f, \A x \in D : f[x] = 0
  PROVE  SumFunctionOnSet(f, D) = 0
<1> DEFINE P == {S \in SUBSET D : SumFunctionOnSet(f, S) = 0}
<1>1. {} \in P
  BY SumEmpty
<1>2. ASSUME NEW S \in SUBSET D, S # {}, \A x \in S : S \ {x} \in P PROVE S \in P
  <2>1. PICK x \in S : TRUE
    BY <1>2
  <2>2. IsFiniteSet(S) /\ S \ {x} \in P /\ f[x] = 0
    BY <1>2, FS_Subset
  <2>3. SumFunctionOnSet(f, S) = f[x] + SumFunctionOnSet(f, S \ {x})
    BY <2>2, SumOut
  <2> QED BY <2>2, <2>3
<1> HIDE DEF P
<1>3. D \in P
  BY <1>1, <1>2, FiniteInduction
<1> QED BY <1>3 DEF P

\* Only one element counts.
LEMMA SumOne ==
  ASSUME NEW D, IsFiniteSet(D), NEW e \in D, NEW f, f[e] \in Int, \A x \in D \ {e} : f[x] = 0
  PROVE  SumFunctionOnSet(f, D) = f[e]
<1>1. IsFiniteSet(D \ {e}) /\ \A x \in D : f[x] \in Int
  BY FS_Subset
<1>2. SumFunctionOnSet(f, D \ {e}) = 0
  BY <1>1, SumZero
<1>3. SumFunctionOnSet(f, D) = f[e] + SumFunctionOnSet(f, D \ {e})
  BY <1>1, SumOut
<1> QED BY <1>2, <1>3

\* Sums are added addend by addend.
LEMMA SumPlus ==
  ASSUME NEW D, IsFiniteSet(D), NEW f, NEW g, NEW h,
         \A x \in D : f[x] \in Int /\ g[x] \in Int /\ h[x] = f[x] + g[x]
  PROVE  SumFunctionOnSet(h, D) = SumFunctionOnSet(f, D) + SumFunctionOnSet(g, D)
<1> DEFINE P == {S \in SUBSET D :
                   SumFunctionOnSet(h, S) = SumFunctionOnSet(f, S) + SumFunctionOnSet(g, S)}
<1>1. {} \in P
  BY SumEmpty
<1>2. ASSUME NEW S \in SUBSET D, S # {}, \A x \in S : S \ {x} \in P PROVE S \in P
  <2>1. PICK x \in S : TRUE
    BY <1>2
  <2> DEFINE R == S \ {x}
             sf == SumFunctionOnSet(f, R)
             sg == SumFunctionOnSet(g, R)
             sh == SumFunctionOnSet(h, R)
  <2>2. IsFiniteSet(S) /\ IsFiniteSet(R) /\ \A y \in S : f[y] \in Int /\ g[y] \in Int /\ h[y] \in Int
    BY FS_Subset
  <2>3. SumFunctionOnSet(f, S) = f[x] + sf /\ sf \in Int
    BY <2>2, SumOut, SumType
  <2>4. SumFunctionOnSet(g, S) = g[x] + sg /\ sg \in Int
    BY <2>2, SumOut, SumType
  <2>5. SumFunctionOnSet(h, S) = h[x] + sh
    BY <2>2, SumOut
  <2>6. sh = sf + sg
    BY <1>2
  <2>7. h[x] = f[x] + g[x] /\ f[x] \in Int /\ g[x] \in Int
    BY <1>2
  <2> HIDE DEF sf, sg, sh
  <2> QED BY <2>3, <2>4, <2>5, <2>6, <2>7
<1> HIDE DEF P
<1>3. D \in P
  BY <1>1, <1>2, FiniteInduction
<1> QED BY <1>3 DEF P

\* A factor can be taken out of a sum.
LEMMA SumTimes ==
  ASSUME NEW D, IsFiniteSet(D), NEW k \in Int, NEW f, NEW h,
         \A x \in D : f[x] \in Int /\ h[x] = k * f[x]
  PROVE  SumFunctionOnSet(h, D) = k * SumFunctionOnSet(f, D)
<1> DEFINE P == {S \in SUBSET D : SumFunctionOnSet(h, S) = k * SumFunctionOnSet(f, S)}
<1>1. {} \in P
  BY SumEmpty
<1>2. ASSUME NEW S \in SUBSET D, S # {}, \A x \in S : S \ {x} \in P PROVE S \in P
  <2>1. PICK x \in S : TRUE
    BY <1>2
  <2> DEFINE R == S \ {x}
             sf == SumFunctionOnSet(f, R)
             sh == SumFunctionOnSet(h, R)
  <2>2. IsFiniteSet(S) /\ IsFiniteSet(R) /\ \A y \in S : f[y] \in Int /\ h[y] \in Int
    BY FS_Subset
  <2>3. SumFunctionOnSet(f, S) = f[x] + sf /\ sf \in Int
    BY <2>2, SumOut, SumType
  <2>4. SumFunctionOnSet(h, S) = h[x] + sh
    BY <2>2, SumOut
  <2>5. sh = k * sf
    BY <1>2
  <2>6. h[x] = k * f[x] /\ f[x] \in Int
    BY <1>2
  <2> HIDE DEF sf, sh
  <2>7. k * (f[x] + sf) = k * f[x] + k * sf
    BY <2>3, <2>6
  <2> QED BY <2>3, <2>4, <2>5, <2>6, <2>7
<1> HIDE DEF P
<1>3. D \in P
  BY <1>1, <1>2, FiniteInduction
<1> QED BY <1>3 DEF P

\* A table is added up by rows or by columns.
IsTable(A, B, m, t, rows, cols) ==
  /\ \A a \in A, b \in B : m[a][b] \in Int /\ t[b][a] = m[a][b]
  /\ \A a \in A : rows[a] = SumFunctionOnSet(m[a], B)
  /\ \A b \in B : cols[b] = SumFunctionOnSet(t[b], A)

\* The rows of a table add up to what its columns do.
LEMMA SumExchange ==
  ASSUME NEW A, NEW B, IsFiniteSet(A), IsFiniteSet(B), NEW m, NEW t, NEW rows, NEW cols,
         IsTable(A, B, m, t, rows, cols)
  PROVE  SumFunctionOnSet(rows, A) = SumFunctionOnSet(cols, B)
<1> USE DEF IsTable
<1> DEFINE col(S) == [b \in B |-> SumFunctionOnSet(t[b], S)]
           P == {S \in SUBSET A : SumFunctionOnSet(rows, S) = SumFunctionOnSet(col(S), B)}
<1>0. \A a \in A : rows[a] \in Int
  BY SumType
<1>1. {} \in P
  <2>1. \A b \in B : col({})[b] = 0
    BY SumEmpty
  <2> HIDE DEF col
  <2>2. SumFunctionOnSet(col({}), B) = 0
    BY <2>1, SumZero
  <2> QED BY <2>2, SumEmpty
<1>2. ASSUME NEW S \in SUBSET A, S # {}, \A x \in S : S \ {x} \in P PROVE S \in P
  <2>1. PICK x \in S : TRUE
    BY <1>2
  <2> DEFINE R == S \ {x}
  <2>2. IsFiniteSet(S) /\ IsFiniteSet(R) /\ R \in SUBSET A /\ x \in A
    BY FS_Subset
  <2>3. SumFunctionOnSet(rows, S) = rows[x] + SumFunctionOnSet(rows, R)
    BY <1>0, <2>2, SumOut
  <2>4. SumFunctionOnSet(rows, R) = SumFunctionOnSet(col(R), B)
    BY <1>2
  <2>5. ASSUME NEW b \in B
        PROVE  m[x][b] \in Int /\ col(R)[b] \in Int /\ col(S)[b] = m[x][b] + col(R)[b]
    <3> DEFINE f == t[b]
    <3>1. f[x] = m[x][b] /\ f[x] \in Int /\ (\A a \in S : f[a] \in Int) /\ \A a \in R : f[a] \in Int
      BY <2>2
    <3>2. col(S)[b] = SumFunctionOnSet(f, S) /\ col(R)[b] = SumFunctionOnSet(f, R)
      OBVIOUS
    <3> HIDE DEF f, col
    <3>3. SumFunctionOnSet(f, S) = f[x] + SumFunctionOnSet(f, R)
      BY <2>2, <3>1, SumOut
    <3>4. SumFunctionOnSet(f, R) \in Int
      BY <2>2, <3>1, SumType
    <3> QED BY <3>1, <3>2, <3>3, <3>4
  <2>6. rows[x] = SumFunctionOnSet(m[x], B)
    BY <2>2
  <2> DEFINE cs == col(S)
             cr == col(R)
             row == m[x]
  <2> HIDE DEF col
  <2>a. \A b \in B : row[b] \in Int /\ cr[b] \in Int /\ cs[b] = row[b] + cr[b]
    BY <2>5
  <2> HIDE DEF cs, cr, row
  <2>b. SumFunctionOnSet(cs, B) = SumFunctionOnSet(row, B) + SumFunctionOnSet(cr, B)
    BY <2>a, SumPlus
  <2>7. SumFunctionOnSet(col(S), B) = SumFunctionOnSet(m[x], B) + SumFunctionOnSet(col(R), B)
    BY <2>b DEF cs, cr, row
  <2> QED BY <2>3, <2>4, <2>6, <2>7
<1>3. A \in P
  <2> HIDE DEF P
  <2> QED BY <1>1, <1>2, FiniteInduction
<1>4. \A b \in B : cols[b] = col(A)[b] /\ col(A)[b] \in Int
  <2> SUFFICES ASSUME NEW b \in B PROVE cols[b] = col(A)[b] /\ cols[b] \in Int
    OBVIOUS
  <2> DEFINE f == t[b]
  <2>1. \A a \in A : f[a] \in Int
    OBVIOUS
  <2>2. cols[b] = SumFunctionOnSet(f, A) /\ col(A)[b] = SumFunctionOnSet(f, A)
    OBVIOUS
  <2> HIDE DEF f, col
  <2> QED BY <2>1, <2>2, SumType
<1>5. SumFunctionOnSet(cols, B) = SumFunctionOnSet(col(A), B)
  <2> HIDE DEF col
  <2> QED BY <1>4, SumExt
<1> QED BY <1>3, <1>5

\* A sum of natural numbers is at least each of them.
LEMMA SumAtLeast ==
  ASSUME NEW D, IsFiniteSet(D), NEW f, \A x \in D : f[x] \in Nat
  PROVE  /\ SumFunctionOnSet(f, D) \in Nat
         /\ \A x \in D : f[x] <= SumFunctionOnSet(f, D)
<1> DEFINE P == {S \in SUBSET D : SumFunctionOnSet(f, S) \in Nat}
<1>1. {} \in P
  BY SumEmpty
<1>2. ASSUME NEW S \in SUBSET D, S # {}, \A x \in S : S \ {x} \in P PROVE S \in P
  <2>1. PICK x \in S : TRUE
    BY <1>2
  <2>2. IsFiniteSet(S) /\ S \ {x} \in P /\ f[x] \in Nat /\ \A y \in S : f[y] \in Int
    BY <1>2, FS_Subset
  <2>3. SumFunctionOnSet(f, S) = f[x] + SumFunctionOnSet(f, S \ {x})
    BY <2>2, SumOut
  <2> QED BY <2>2, <2>3
<1>3. ASSUME NEW S \in SUBSET D PROVE S \in P
  <2>1. IsFiniteSet(S)
    BY FS_Subset
  <2>2. \A T \in SUBSET S : T \in SUBSET D
    OBVIOUS
  <2> HIDE DEF P
  <2> QED BY <1>1, <1>2, <2>1, <2>2, FiniteInduction
<1>4. ASSUME NEW x \in D PROVE f[x] <= SumFunctionOnSet(f, D)
  <2>1. SumFunctionOnSet(f, D) = f[x] + SumFunctionOnSet(f, D \ {x})
    BY SumOut
  <2>2. D \ {x} \in P /\ f[x] \in Nat
    BY <1>3
  <2> QED BY <2>1, <2>2
<1> QED BY <1>3, <1>4

\* A sum is as far from zero as there are elements, each at most b away.
LEMMA SumWithin ==
  ASSUME NEW D, IsFiniteSet(D), NEW b \in Int, NEW f, \A x \in D : f[x] \in Int /\ -b <= f[x] /\ f[x] <= b
  PROVE  /\ SumFunctionOnSet(f, D) <= b * Cardinality(D)
         /\ -(b * Cardinality(D)) <= SumFunctionOnSet(f, D)
<1> DEFINE Within(S) == /\ SumFunctionOnSet(f, S) <= b * Cardinality(S)
                        /\ -(b * Cardinality(S)) <= SumFunctionOnSet(f, S)
           P == {S \in SUBSET D : Within(S)}
<1>1. {} \in P
  BY SumEmpty, FS_EmptySet
<1>2. ASSUME NEW S \in SUBSET D, S # {}, \A x \in S : S \ {x} \in P PROVE S \in P
  <2>1. PICK x \in S : TRUE
    BY <1>2
  <2> DEFINE R == S \ {x}
             sf == SumFunctionOnSet(f, R)
             n  == Cardinality(R)
  <2>2. IsFiniteSet(S) /\ IsFiniteSet(R) /\ R \in P /\ \A y \in S : f[y] \in Int
    BY <1>2, FS_Subset
  <2>3. SumFunctionOnSet(f, S) = f[x] + sf /\ sf \in Int
    BY <2>2, SumOut, SumType
  <2>4. Cardinality(S) = n + 1 /\ n \in Nat
    BY <2>2, FS_RemoveElement, FS_CardinalityType
  <2>5. sf <= b * n /\ -(b * n) <= sf
    BY <2>2
  <2>6. f[x] \in Int /\ -b <= f[x] /\ f[x] <= b
    OBVIOUS
  <2> HIDE DEF sf, n, P
  <2>7. PICK p \in Int : p = b * n
    BY <2>4
  <2>8. b * Cardinality(S) = p + b
    BY <2>4, <2>7
  <2>9. Within(S)
    BY <2>3, <2>5, <2>6, <2>7, <2>8
  <2> QED BY <2>9 DEF P
<1>3. D \in P
  <2> HIDE DEF P
  <2> QED BY <1>1, <1>2, FiniteInduction
<1> QED BY <1>3

\* What SumOf adds up of a function is all of it.
LEMMA SumOfAll == ASSUME NEW f, NEW D, DOMAIN f = D PROVE SumOf(f) = SumFunctionOnSet(f, D)
  BY DEF SumOf, SumFunction

\* What is zero need not be added.
LEMMA SumPart ==
  ASSUME NEW D, IsFiniteSet(D), NEW S \in SUBSET D, NEW f,
         \A x \in S : f[x] \in Int, \A x \in D \ S : f[x] = 0
  PROVE  SumFunctionOnSet(f, D) = SumFunctionOnSet(f, S)
<1> DEFINE P == {T \in SUBSET D : SumFunctionOnSet(f, T) = SumFunctionOnSet(f, T \cap S)}
<1>1. {} \in P
  <2>1. {} \cap S = {}
    OBVIOUS
  <2> QED BY <2>1
<1>2. ASSUME NEW T \in SUBSET D, T # {}, \A x \in T : T \ {x} \in P PROVE T \in P
  <2>1. PICK x \in T : TRUE
    BY <1>2
  <2>2. IsFiniteSet(T) /\ IsFiniteSet(T \cap S) /\ \A y \in T : f[y] \in Int
    BY FS_Subset
  <2>3. SumFunctionOnSet(f, T) = f[x] + SumFunctionOnSet(f, T \ {x})
    BY <2>2, SumOut
  <2>4. SumFunctionOnSet(f, T \ {x}) = SumFunctionOnSet(f, (T \ {x}) \cap S)
    BY <1>2
  <2>5. CASE x \in S
    <3>1. SumFunctionOnSet(f, T \cap S) = f[x] + SumFunctionOnSet(f, (T \cap S) \ {x})
      BY <2>2, <2>5, SumOut
    <3>2. (T \cap S) \ {x} = (T \ {x}) \cap S
      OBVIOUS
    <3> QED BY <2>3, <2>4, <3>1, <3>2
  <2>6. CASE x \notin S
    <3>1. (T \ {x}) \cap S = T \cap S /\ f[x] = 0
      BY <2>6
    <3>2. SumFunctionOnSet(f, T \cap S) \in Int
      <4>1. \A y \in T \cap S : f[y] \in Int
        OBVIOUS
      <4> QED BY <2>2, <4>1, SumType
    <3>3. SumFunctionOnSet(f, T \ {x}) = SumFunctionOnSet(f, T \cap S)
      BY <2>4, <3>1
    <3> QED BY <2>3, <3>1, <3>2, <3>3
  <2> QED BY <2>5, <2>6
<1>3. D \in P
  <2> HIDE DEF P
  <2> QED BY <1>1, <1>2, FiniteInduction
<1>4. D \cap S = S
  OBVIOUS
<1> QED BY <1>3, <1>4

\* The sum over two disjoint sets.
LEMMA SumUnion ==
  ASSUME NEW S, NEW T, IsFiniteSet(S), IsFiniteSet(T), S \cap T = {},
         NEW f, \A x \in S \cup T : f[x] \in Int
  PROVE  SumFunctionOnSet(f, S \cup T) = SumFunctionOnSet(f, S) + SumFunctionOnSet(f, T)
<1> DEFINE D == S \cup T
           inS == [x \in D |-> IF x \in S THEN f[x] ELSE 0]
           inT == [x \in D |-> IF x \in T THEN f[x] ELSE 0]
<1>1. IsFiniteSet(D) /\ S \in SUBSET D /\ T \in SUBSET D
  BY FS_Union
<1>2. /\ \A x \in D : inS[x] \in Int /\ inT[x] \in Int /\ f[x] = inS[x] + inT[x]
      /\ \A x \in S : inS[x] = f[x] /\ f[x] \in Int
      /\ \A x \in T : inT[x] = f[x] /\ f[x] \in Int
      /\ \A x \in D \ S : inS[x] = 0
      /\ \A x \in D \ T : inT[x] = 0
  OBVIOUS
<1> HIDE DEF D, inS, inT
<1>3. SumFunctionOnSet(f, D) = SumFunctionOnSet(inS, D) + SumFunctionOnSet(inT, D)
  BY <1>1, <1>2, SumPlus
<1>4. SumFunctionOnSet(inS, D) = SumFunctionOnSet(inS, S)
  BY <1>1, <1>2, SumPart
<1>5. SumFunctionOnSet(inT, D) = SumFunctionOnSet(inT, T)
  BY <1>1, <1>2, SumPart
<1>6. SumFunctionOnSet(inS, S) = SumFunctionOnSet(f, S)
  BY <1>2, SumExt
<1>7. SumFunctionOnSet(inT, T) = SumFunctionOnSet(f, T)
  BY <1>2, SumExt
<1> QED BY <1>3, <1>4, <1>5, <1>6, <1>7 DEF D

\* The order of the addends does not matter.
LEMMA SumMoved ==
  ASSUME NEW A, NEW B, IsFiniteSet(A), NEW p \in Bijection(A, B),
         NEW f, \A b \in B : f[b] \in Int, NEW h, \A a \in A : h[a] = f[p[a]]
  PROVE  SumFunctionOnSet(h, A) = SumFunctionOnSet(f, B)
<1>1. /\ p \in [A -> B]
      /\ \A a, b \in A : p[a] = p[b] => a = b
      /\ \A b \in B : \E a \in A : p[a] = b
  BY DEF Bijection, Injection, Surjection, IsInjective
<1>2. IsFiniteSet(B)
  <2>1. p \in Surjection(A, B)
    BY DEF Bijection
  <2> QED BY <2>1, FS_Surjection
<1> DEFINE m == [a \in A |-> [b \in B |-> IF p[a] = b THEN f[b] ELSE 0]]
<1>3. \A a \in A, b \in B : m[a][b] \in Int
  OBVIOUS
<1>4. ASSUME NEW a \in A PROVE h[a] = SumFunctionOnSet(m[a], B)
  <2>1. p[a] \in B /\ m[a][p[a]] = f[p[a]] /\ f[p[a]] \in Int /\ \A b \in B \ {p[a]} : m[a][b] = 0
    BY <1>1
  <2> HIDE DEF m
  <2>2. SumFunctionOnSet(m[a], B) = m[a][p[a]]
    BY <1>2, <2>1, SumOne
  <2> QED BY <2>1, <2>2
<1> DEFINE t == [b \in B |-> [a \in A |-> IF p[a] = b THEN f[b] ELSE 0]]
<1>5. ASSUME NEW b \in B PROVE f[b] = SumFunctionOnSet(t[b], A)
  <2> DEFINE c == t[b]
  <2>1. PICK a \in A : p[a] = b
    BY <1>1
  <2>2. c[a] = f[b] /\ c[a] \in Int /\ \A x \in A \ {a} : c[x] = 0
    BY <1>1, <2>1
  <2> HIDE DEF c, t
  <2>3. SumFunctionOnSet(c, A) = c[a]
    BY <2>2, SumOne
  <2>4. f[b] = SumFunctionOnSet(c, A)
    BY <2>2, <2>3
  <2> QED BY <2>4 DEF c
<1>6. \A a \in A, b \in B : t[b][a] = m[a][b]
  OBVIOUS
<1> HIDE DEF m, t
<1>7. \A a \in A : h[a] = SumFunctionOnSet(m[a], B)
  BY <1>4
<1>8. \A b \in B : f[b] = SumFunctionOnSet(t[b], A)
  BY <1>5
<1>9. IsTable(A, B, m, t, h, f)
  BY <1>3, <1>6, <1>7, <1>8 DEF IsTable
<1> QED BY <1>2, <1>9, SumExchange

\* The sum over one number more.
LEMMA SumUpTo ==
  ASSUME NEW n \in Nat, NEW f, \A i \in 1 .. n + 1 : f[i] \in Int
  PROVE  SumFunctionOnSet(f, 1 .. n + 1) = SumFunctionOnSet(f, 1 .. n) + f[n + 1]
<1>1. IsFiniteSet(1 .. n + 1) /\ IsFiniteSet(1 .. n)
  BY FS_Interval
<1>2. (1 .. n + 1) \ {n + 1} = 1 .. n /\ n + 1 \in 1 .. n + 1
  OBVIOUS
<1>3. SumFunctionOnSet(f, 1 .. n + 1) = f[n + 1] + SumFunctionOnSet(f, 1 .. n)
  BY <1>1, <1>2, SumOut
<1>4. SumFunctionOnSet(f, 1 .. n) \in Int /\ f[n + 1] \in Int
  BY <1>1, SumType
<1> QED BY <1>3, <1>4
-----------------------------------------------------------------------------
\* Of two members one comes first, and what comes before does so for good.
IsOrder(S, upto) ==
  /\ \A i \in S : i \in upto[i] /\ upto[i] \subseteq S
  /\ \A i, j \in S : i \in upto[j] \/ j \in upto[i]
  /\ \A i, j \in S : i \in upto[j] /\ j \in upto[i] => i = j
  /\ \A i, j \in S : i \in upto[j] => upto[i] \subseteq upto[j]

\* Sorting puts every member in a place of its own.
LEMMA SortedBijection ==
  ASSUME NEW S, IsFiniteSet(S), NEW upto, IsOrder(S, upto)
  PROVE  Sorted(S, upto) \in Bijection(1 .. Cardinality(S), S)
<1> DEFINE Down(i) == upto[i]
           N == 1 .. Cardinality(S)
           place == [i \in S |-> Cardinality(Down(i))]
<1>1. Cardinality(S) \in Nat
  BY FS_CardinalityType
<1>2. ASSUME NEW i \in S
      PROVE  IsFiniteSet(Down(i)) /\ Cardinality(Down(i)) \in Nat /\ Cardinality(Down(i)) \in N
  <2>1. IsFiniteSet(Down(i)) /\ Cardinality(Down(i)) <= Cardinality(S)
    BY FS_Subset DEF IsOrder
  <2>2. Cardinality(Down(i)) \in Nat
    BY <2>1, FS_CardinalityType
  <2>3. Down(i) # {}
    BY DEF IsOrder
  <2>4. Cardinality(Down(i)) # 0
    BY <2>1, <2>3, FS_EmptySet
  <2> QED BY <1>1, <2>1, <2>2, <2>4
<1>3. ASSUME NEW i \in S, NEW j \in S, i # j, i \in upto[j]
      PROVE  Cardinality(Down(i)) # Cardinality(Down(j))
  <2>1. Down(i) \subseteq Down(j)
    BY <1>3 DEF IsOrder
  <2>2. j \in Down(j) /\ j \notin Down(i)
    BY <1>3 DEF IsOrder
  <2>3. IsFiniteSet(Down(j)) /\ Down(i) # Down(j)
    BY <1>2, <2>2
  <2> HIDE DEF Down
  <2>4. Down(i) \in SUBSET Down(j)
    BY <2>1
  <2>5. Cardinality(Down(j)) = Cardinality(Down(i)) => Down(j) = Down(i)
    BY <2>3, <2>4, FS_Subset
  <2> QED BY <2>3, <2>5
<1>4. ASSUME NEW i \in S, NEW j \in S, place[i] = place[j] PROVE i = j
  <2>1. Cardinality(Down(i)) = Cardinality(Down(j))
    BY <1>4
  <2>2. i \in upto[j] \/ j \in upto[i]
    BY DEF IsOrder
  <2> HIDE DEF Down
  <2> QED BY <1>3, <2>1, <2>2
<1>5. place \in [S -> N]
  BY <1>2
<1>6. place \in Injection(S, N)
  BY <1>4, <1>5 DEF Injection, IsInjective
<1>7. IsFiniteSet(N) /\ Cardinality(N) = Cardinality(S)
  BY <1>1, FS_Interval
<1>8. place \in Surjection(S, N)
  BY <1>6, <1>7, FS_Injection
<1>9. \A n \in N : \E i \in S : place[i] = n
  BY <1>8 DEF Surjection
<1> DEFINE sorted == Sorted(S, upto)
<1>10. sorted = [n \in N |-> CHOOSE i \in S : Cardinality(Down(i)) = n]
  BY DEF Sorted
<1>11. \A n \in N : sorted[n] \in S /\ place[sorted[n]] = n
  <2> SUFFICES ASSUME NEW n \in N PROVE sorted[n] \in S /\ place[sorted[n]] = n
    OBVIOUS
  <2>1. \E i \in S : Cardinality(Down(i)) = n
    BY <1>9
  <2>2. sorted[n] = CHOOSE i \in S : Cardinality(Down(i)) = n
    BY <1>10
  <2> HIDE DEF Down, sorted
  <2>3. sorted[n] \in S /\ Cardinality(Down(sorted[n])) = n
    BY <2>1, <2>2
  <2> QED BY <2>3
<1> HIDE DEF place, Down
<1>12. sorted \in [N -> S]
  <2>1. \A n \in N : sorted[n] \in S
    BY <1>11
  <2>2. sorted = [n \in N |-> sorted[n]]
    BY <1>10
  <2> HIDE DEF sorted
  <2> QED BY <2>1, <2>2
<1> HIDE DEF sorted
<1>13. \A m, n \in N : sorted[m] = sorted[n] => m = n
  BY <1>11
<1>14. \A i \in S : sorted[place[i]] = i
  BY <1>4, <1>5, <1>11
<1>15. sorted \in Injection(N, S) /\ sorted \in Surjection(N, S)
  BY <1>5, <1>12, <1>13, <1>14 DEF Injection, Surjection, IsInjective
<1> QED BY <1>15 DEF Bijection, sorted

\* A sequence has a finite domain.
LEMMA SeqFacts ==
  ASSUME NEW S, NEW s \in Seq(S)
  PROVE  /\ Len(s) \in Nat /\ DOMAIN s = 1 .. Len(s) /\ IsFiniteSet(DOMAIN s)
         /\ \A i \in DOMAIN s : s[i] \in S
<1>1. Len(s) \in Nat /\ DOMAIN s = 1 .. Len(s) /\ \A i \in DOMAIN s : s[i] \in S
  OBVIOUS
<1> QED BY <1>1, FS_Interval

\* Rows sorted by day are the same rows, in places of their own.
LEMMA ByDayIs ==
  ASSUME NEW rows, NEW kept \in SUBSET (DOMAIN rows), IsFiniteSet(kept), DOMAIN rows \subseteq Nat,
         \A i \in DOMAIN rows : rows[i].day \in Int
  PROVE  \E p \in Bijection(1 .. Cardinality(kept), kept) :
           ByDay(rows, kept) = [n \in 1 .. Cardinality(kept) |-> rows[p[n]]]
<1>1. IsOrder(kept, DayOrder(rows, kept))
  <2> DEFINE day  == [i \in kept |-> rows[i].day]
             upto == DayOrder(rows, kept)
  <2>1. \A i \in kept : i \in Nat /\ day[i] \in Int
    OBVIOUS
  <2>2. ASSUME NEW i \in kept
        PROVE  upto[i] = {j \in kept : day[j] < day[i] \/ (day[j] = day[i] /\ j <= i)}
    <3>1. upto[i] = {j \in kept : \/ rows[j].day < rows[i].day
                                  \/ rows[j].day = rows[i].day /\ j <= i}
      BY DEF DayOrder
    <3>2. \A j \in kept : day[j] = rows[j].day
      OBVIOUS
    <3> HIDE DEF day, upto
    <3> QED BY <3>1, <3>2
  <2> HIDE DEF day, upto
  <2>3. \A i \in kept : i \in upto[i] /\ upto[i] \subseteq kept
    BY <2>1, <2>2
  <2>4. \A i, j \in kept : i \in upto[j] <=> day[i] < day[j] \/ (day[i] = day[j] /\ i <= j)
    BY <2>2
  <2>5. \A i, j \in kept : i \in upto[j] \/ j \in upto[i]
    BY <2>1, <2>4
  <2>6. \A i, j \in kept : i \in upto[j] /\ j \in upto[i] => i = j
    BY <2>1, <2>4
  <2>7. ASSUME NEW i \in kept, NEW j \in kept, i \in upto[j], NEW k \in upto[i] PROVE k \in upto[j]
    BY <2>1, <2>3, <2>4, <2>7
  <2> QED BY <2>3, <2>5, <2>6, <2>7 DEF IsOrder, upto
<1>2. Sorted(kept, DayOrder(rows, kept)) \in Bijection(1 .. Cardinality(kept), kept)
  BY <1>1, SortedBijection
<1> QED BY <1>2 DEF ByDay
-----------------------------------------------------------------------------
(* What is computed step by step.                                          *)
Steps(g, base, step, n) == g[0] = base /\ \A i \in 1 .. n : g[i] = step[<<i, g[i - 1]>>]
HasSteps(V, base, step, n) == \E g \in [0 .. n -> V] : Steps(g, base, step, n)

\* What is computed step by step can be.
LEMMA StepByStep ==
  ASSUME NEW V, NEW base \in V, NEW n \in Nat, NEW step \in [(1 .. n) \X V -> V]
  PROVE  HasSteps(V, base, step, n)
<1> DEFINE N == {m \in Nat : m <= n => HasSteps(V, base, step, m)}
<1>1. 0 \in N
  <2>1. [i \in 0 .. 0 |-> base] \in [0 .. 0 -> V]
    OBVIOUS
  <2>2. Steps([i \in 0 .. 0 |-> base], base, step, 0)
    BY DEF Steps
  <2> QED BY <2>1, <2>2 DEF HasSteps
<1>2. ASSUME NEW m \in Nat, m \in N PROVE m + 1 \in N
  <2> SUFFICES ASSUME m + 1 <= n PROVE HasSteps(V, base, step, m + 1)
    OBVIOUS
  <2>1. PICK g \in [0 .. m -> V] : Steps(g, base, step, m)
    BY <1>2 DEF HasSteps
  <2> DEFINE h == [i \in 0 .. m + 1 |-> IF i <= m THEN g[i] ELSE step[<<m + 1, g[m]>>]]
  <2>2. <<m + 1, g[m]>> \in (1 .. n) \X V
    OBVIOUS
  <2>3. step[<<m + 1, g[m]>>] \in V
    BY <2>2
  <2>4. h \in [0 .. m + 1 -> V]
    BY <2>3
  <2>5. h[0] = base
    BY <2>1 DEF Steps
  <2>6. ASSUME NEW i \in 1 .. m + 1 PROVE h[i] = step[<<i, h[i - 1]>>]
    <3>1. CASE i <= m
      <4>1. i \in 1 .. m /\ h[i] = g[i] /\ h[i - 1] = g[i - 1]
        BY <3>1
      <4> QED BY <2>1, <4>1 DEF Steps
    <3>2. CASE i = m + 1
      <4>1. i - 1 = m /\ h[i - 1] = g[m] /\ h[i] = step[<<m + 1, g[m]>>]
        BY <3>2
      <4> QED BY <3>2, <4>1
    <3> QED BY <3>1, <3>2
  <2> HIDE DEF h
  <2>7. Steps(h, base, step, m + 1)
    BY <2>5, <2>6 DEF Steps
  <2> QED BY <2>4, <2>7 DEF HasSteps
<1> HIDE DEF N
<1>3. n \in N
  BY <1>1, <1>2, Induction
<1> QED BY <1>3 DEF N
-----------------------------------------------------------------------------
\* HalfUp is off by half a cent at most.
LEMMA Rounded ==
  ASSUME NEW n \in Int, NEW d \in Nat, d > 0
  PROVE  /\ HalfUp(n, d) \in Int
         /\ 2 * (HalfUp(n, d) * d - n) <= d
         /\ -d <= 2 * (HalfUp(n, d) * d - n)
<1>1. ASSUME NEW m \in Int
      PROVE  m \div (2 * d) \in Int /\ (2 * d) * (m \div (2 * d)) <= m /\ m < (2 * d) * (m \div (2 * d)) + 2 * d
  <2>1. PICK e \in Int : e = 2 * d /\ e > 0
    OBVIOUS
  <2>2. m \div e \in Int /\ e * (m \div e) <= m /\ m < e * (m \div e) + e
    BY <2>1
  <2> QED BY <2>1, <2>2
<1>2. CASE n >= 0
  <2>1. PICK q \in Int : q = (2 * n + d) \div (2 * d)
    BY <1>1
  <2>a. PICK m \in Int : m = 2 * n + d
    OBVIOUS
  <2>b. m \div (2 * d) = q
    BY <2>1, <2>a
  <2>c. (2 * d) * q <= m /\ m < (2 * d) * q + 2 * d
    BY <1>1, <2>b
  <2>2. (2 * d) * q <= 2 * n + d /\ 2 * n + d < (2 * d) * q + 2 * d
    BY <2>a, <2>c
  <2>3. HalfUp(n, d) = q
    BY <1>2, <2>1 DEF HalfUp
  <2>4. (2 * d) * q = 2 * (q * d)
    OBVIOUS
  <2> QED BY <2>2, <2>3, <2>4
<1>3. CASE ~(n >= 0)
  <2>1. PICK q \in Int : q = (d - 2 * n) \div (2 * d)
    BY <1>1
  <2>a. PICK m \in Int : m = d - 2 * n
    OBVIOUS
  <2>b. m \div (2 * d) = q
    BY <2>1, <2>a
  <2>c. (2 * d) * q <= m /\ m < (2 * d) * q + 2 * d
    BY <1>1, <2>b
  <2>2. (2 * d) * q <= d - 2 * n /\ d - 2 * n < (2 * d) * q + 2 * d
    BY <2>a, <2>c
  <2>3. HalfUp(n, d) = -q
    BY <1>3, <2>1 DEF HalfUp
  <2>4. (2 * d) * q = -(2 * ((-q) * d))
    OBVIOUS
  <2> QED BY <2>2, <2>3, <2>4
<1> QED BY <1>2, <1>3
-----------------------------------------------------------------------------
(* Payments and the rows they pay, one after the other.                    *)

\* A function on the first numbers is a sequence of that length.
LEMMA LenOf ==
  ASSUME NEW n \in Nat, NEW V, NEW s \in [1 .. n -> V]
  PROVE  s \in Seq(V) /\ Len(s) = n
  OBVIOUS

\* Spent, whose recursion has a solution: each row takes its part.
LEMMA SpentIs ==
  ASSUME NEW n \in Nat, NEW owed \in [1 .. n -> Nat], NEW amount \in Int
  PROVE  /\ Spent(amount, owed) \in [0 .. n -> Int]
         /\ Spent(amount, owed)[0] = amount
         /\ \A i \in 1 .. n : Spent(amount, owed)[i]
              = Spent(amount, owed)[i - 1] - Taken(Spent(amount, owed)[i - 1], owed[i])
<1> DEFINE Is(g) == g = [i \in 0 .. n |-> IF i = 0 THEN amount
                                          ELSE g[i - 1] - Taken(g[i - 1], owed[i])]
           left == CHOOSE g : Is(g)
           step == [w \in (1 .. n) \X Int |-> w[2] - Taken(w[2], owed[w[1]])]
<1>1. Len(owed) = n
  BY LenOf
<1>2. Spent(amount, owed) = left
  BY <1>1 DEF Spent
<1>3. \A i \in 1 .. n, v \in Int : v - Taken(v, owed[i]) \in Int
  BY DEF Taken, Smaller
<1>4. step \in [(1 .. n) \X Int -> Int]
  BY <1>3
<1>a. \A i \in 1 .. n, v \in Int : step[<<i, v>>] = v - Taken(v, owed[i])
  OBVIOUS
<1>b. PICK V : V = Int
  OBVIOUS
<1> HIDE DEF step
<1>5. HasSteps(V, amount, step, n)
  BY <1>4, <1>b, StepByStep
<1>6. PICK g \in [0 .. n -> V] : Steps(g, amount, step, n)
  BY <1>5 DEF HasSteps
<1>7. ASSUME NEW i \in 1 .. n PROVE g[i] = g[i - 1] - Taken(g[i - 1], owed[i])
  <2>1. g[i] = step[<<i, g[i - 1]>>]
    BY <1>6 DEF Steps
  <2>2. i - 1 \in 0 .. n
    OBVIOUS
  <2>3. g[i - 1] \in Int
    BY <1>b, <2>2
  <2> QED BY <1>a, <2>1, <2>3
<1>8. g[0] = amount
  BY <1>6 DEF Steps
<1>9. Is(g)
  BY <1>7, <1>8
<1>10. Is(left)
  BY <1>9, Zenon
<1> HIDE DEF left
<1>11. /\ left[0] = amount
       /\ \A i \in 1 .. n : left[i] = left[i - 1] - Taken(left[i - 1], owed[i])
       /\ left = [i \in 0 .. n |-> left[i]]
  BY <1>10
<1> DEFINE N == {i \in Nat : i <= n => left[i] \in Int}
<1>12. 0 \in N
  BY <1>11
<1>13. ASSUME NEW i \in Nat, i \in N PROVE i + 1 \in N
  <2> SUFFICES ASSUME i + 1 <= n PROVE left[i + 1] \in Int
    OBVIOUS
  <2>1. i + 1 \in 1 .. n /\ (i + 1) - 1 = i
    OBVIOUS
  <2>2. left[i + 1] = left[i] - Taken(left[i], owed[i + 1])
    BY <1>11, <2>1
  <2>3. left[i] \in Int
    BY <1>13
  <2> QED BY <1>3, <2>1, <2>2, <2>3
<1> HIDE DEF N
<1>14. \A i \in Nat : i \in N
  BY <1>12, <1>13, Induction
<1>15. left \in [0 .. n -> Int]
  BY <1>11, <1>14 DEF N
<1> QED BY <1>2, <1>11, <1>15

\* The sum of the first i.
First(f, i) == SumFunctionOnSet(f, 1 .. i)

\* Such sums grow addend by addend.
LEMMA FirstSteps ==
  ASSUME NEW n \in Nat, NEW f, \A i \in 1 .. n : f[i] \in Int
  PROVE  /\ First(f, 0) = 0
         /\ \A i \in 0 .. n : First(f, i) \in Int
         /\ \A i \in 1 .. n : First(f, i) = First(f, i - 1) + f[i]
<1>1. First(f, 0) = 0
  <2>1. 1 .. 0 = {}
    OBVIOUS
  <2> QED BY <2>1, SumEmpty DEF First
<1>2. ASSUME NEW i \in 0 .. n PROVE First(f, i) \in Int
  <2>1. IsFiniteSet(1 .. i) /\ \A j \in 1 .. i : f[j] \in Int
    BY FS_Interval
  <2> QED BY <2>1, SumType DEF First
<1>3. ASSUME NEW i \in 1 .. n PROVE First(f, i) = First(f, i - 1) + f[i]
  <2>1. PICK m \in Nat : i = m + 1 /\ i - 1 = m
    <3>1. i - 1 \in Nat /\ i = (i - 1) + 1
      OBVIOUS
    <3> QED BY <3>1
  <2>2. \A j \in 1 .. m + 1 : f[j] \in Int
    BY <2>1
  <2>3. SumFunctionOnSet(f, 1 .. m + 1) = SumFunctionOnSet(f, 1 .. m) + f[m + 1]
    BY <2>2, SumUpTo
  <2> QED BY <2>1, <2>3 DEF First
<1> QED BY <1>1, <1>2, <1>3

\* The same of natural numbers.
LEMMA FirstSum ==
  ASSUME NEW n \in Nat, NEW f \in [1 .. n -> Nat]
  PROVE  /\ First(f, 0) = 0
         /\ \A i \in 0 .. n : First(f, i) \in Nat
         /\ \A i \in 1 .. n : First(f, i) = First(f, i - 1) + f[i]
<1>1. \A i \in 0 .. n : First(f, i) \in Nat
  <2> SUFFICES ASSUME NEW i \in 0 .. n PROVE First(f, i) \in Nat
    OBVIOUS
  <2>1. 1 \in Int /\ i \in Int
    OBVIOUS
  <2>2. IsFiniteSet(1 .. i)
    BY <2>1, FS_Interval
  <2>3. \A j \in 1 .. i : f[j] \in Nat
    OBVIOUS
  <2> QED BY <2>2, <2>3, SumAtLeast DEF First
<1>2. \A i \in 1 .. n : f[i] \in Int
  OBVIOUS
<1>3. First(f, 0) = 0 /\ \A i \in 1 .. n : First(f, i) = First(f, i - 1) + f[i]
  BY <1>2, FirstSteps
<1> QED BY <1>1, <1>3

\* A payment goes as far as the rows before do not need it.
LEMMA SpentLeaves ==
  ASSUME NEW n \in Nat, NEW owed \in [1 .. n -> Nat], NEW amount \in Nat
  PROVE  \A i \in 0 .. n : Spent(amount, owed)[i] = Positive(amount - First(owed, i))
<1> DEFINE left == Spent(amount, owed)
           N == {i \in Nat : i <= n => left[i] = Positive(amount - First(owed, i))}
<1>1. /\ left[0] = amount
      /\ \A i \in 1 .. n : left[i] = left[i - 1] - Taken(left[i - 1], owed[i])
  <2>1. amount \in Int
    OBVIOUS
  <2> QED BY <2>1, SpentIs
<1>2. /\ First(owed, 0) = 0
      /\ \A i \in 0 .. n : First(owed, i) \in Nat
      /\ \A i \in 1 .. n : First(owed, i) = First(owed, i - 1) + owed[i]
  BY FirstSum
<1> HIDE DEF left
<1>3. 0 \in N
  BY <1>1, <1>2 DEF Positive
<1>4. ASSUME NEW i \in Nat, i \in N PROVE i + 1 \in N
  <2> SUFFICES ASSUME i + 1 <= n PROVE left[i + 1] = Positive(amount - First(owed, i + 1))
    OBVIOUS
  <2>1. i + 1 \in 1 .. n /\ (i + 1) - 1 = i /\ i \in 0 .. n
    OBVIOUS
  <2>2. left[i + 1] = left[i] - Taken(left[i], owed[i + 1])
    BY <1>1, <2>1
  <2>3. left[i] = Positive(amount - First(owed, i))
    BY <1>4
  <2>4. PICK s \in Nat : s = First(owed, i)
    BY <1>2, <2>1
  <2>5. PICK o \in Nat : o = owed[i + 1]
    BY <2>1
  <2>6. First(owed, i + 1) = s + o
    BY <1>2, <2>1, <2>4, <2>5
  <2>7. PICK l \in Nat : l = left[i] /\ l = Positive(amount - s)
    BY <2>3, <2>4 DEF Positive
  <2>8. l - Taken(l, o) = Positive(amount - (s + o))
    BY <2>7 DEF Positive, Taken, Smaller
  <2> QED BY <2>2, <2>5, <2>6, <2>7, <2>8
<1> HIDE DEF N
<1>5. \A i \in Nat : i \in N
  BY <1>3, <1>4, Induction
<1> QED BY <1>5 DEF N, left

\* What is left owed of a row and of those before it, of which s is owed.
LEMMA TakenFirst ==
  ASSUME NEW s \in Nat, NEW o \in Nat, NEW a \in Nat
  PROVE  Positive(s - a) + (o - Taken(Positive(a - s), o)) = Positive((s + o) - a)
<1>1. CASE a <= s
  BY <1>1 DEF Positive, Taken, Smaller
<1>2. CASE a > s
  <2>1. Positive(a - s) = a - s /\ Positive(s - a) = 0
    BY <1>2 DEF Positive
  <2>2. Taken(a - s, o) = Smaller(a - s, o)
    BY <1>2 DEF Taken, Smaller
  <2> QED BY <1>2, <2>1, <2>2 DEF Positive, Smaller
<1> QED BY <1>1, <1>2

\* What a payment leaves owed on the rows.
After(amount, owed) == [i \in 1 .. Len(owed) |-> owed[i] - Allocated(amount, owed)[i]]

\* A row never takes more than it is owed.
Takes(n, amount, owed) ==
  /\ Allocated(amount, owed) = [i \in 1 .. n |-> Taken(Spent(amount, owed)[i - 1], owed[i])]
  /\ Allocated(amount, owed) \in [1 .. n -> Nat]
  /\ After(amount, owed) \in [1 .. n -> Nat]
  /\ \A i \in 1 .. n : After(amount, owed)[i] = owed[i] - Allocated(amount, owed)[i]

\* Any amount, also one below zero, leaves the rows natural numbers.
LEMMA RowsTake ==
  ASSUME NEW n \in Nat, NEW owed \in [1 .. n -> Nat], NEW amount \in Int
  PROVE  Takes(n, amount, owed)
<1> DEFINE taken == Allocated(amount, owed)
           after == After(amount, owed)
           left  == Spent(amount, owed)
<1>1. left \in [0 .. n -> Int]
  BY SpentIs
<1>2. taken = [i \in 1 .. n |-> Taken(left[i - 1], owed[i])]
  BY LenOf DEF Allocated
<1>3. ASSUME NEW i \in 1 .. n PROVE Taken(left[i - 1], owed[i]) \in Nat /\ Taken(left[i - 1], owed[i]) <= owed[i]
  <2>1. i - 1 \in 0 .. n
    OBVIOUS
  <2>2. left[i - 1] \in Int /\ owed[i] \in Nat
    BY <1>1, <2>1
  <2> HIDE DEF left
  <2> QED BY <2>2 DEF Taken, Smaller
<1> HIDE DEF left
<1>4. taken \in [1 .. n -> Nat] /\ \A i \in 1 .. n : taken[i] <= owed[i]
  BY <1>2, <1>3
<1>5. after = [i \in 1 .. n |-> owed[i] - taken[i]]
  BY LenOf DEF After
<1> HIDE DEF taken, after
<1>6. after \in [1 .. n -> Nat] /\ \A i \in 1 .. n : after[i] = owed[i] - taken[i]
  BY <1>4, <1>5
<1> QED BY <1>2, <1>4, <1>6 DEF Takes, taken, after, left

\* What one payment does to the rows.
Pays(n, amount, owed) ==
  /\ \A i \in 0 .. n : First(After(amount, owed), i) = Positive(First(owed, i) - amount)
  /\ Spent(amount, owed)[n] = Positive(amount - First(owed, n))

\* It covers the rows in their order, as far as it goes.
LEMMA OnePayment ==
  ASSUME NEW n \in Nat, NEW owed \in [1 .. n -> Nat], NEW amount \in Nat
  PROVE  Pays(n, amount, owed)
<1> DEFINE taken == Allocated(amount, owed)
           after == After(amount, owed)
           left  == Spent(amount, owed)
<1>1. left \in [0 .. n -> Int] /\ \A i \in 0 .. n : left[i] = Positive(amount - First(owed, i))
  <2>1. amount \in Int
    OBVIOUS
  <2> QED BY <2>1, SpentIs, SpentLeaves
<1>2. Takes(n, amount, owed)
  <2>1. amount \in Int
    OBVIOUS
  <2> QED BY <2>1, RowsTake
<1>3. taken = [i \in 1 .. n |-> Taken(left[i - 1], owed[i])]
  BY <1>2 DEF Takes
<1>5. after \in [1 .. n -> Nat] /\ \A i \in 1 .. n : after[i] = owed[i] - taken[i]
  BY <1>2 DEF Takes
<1> HIDE DEF left, taken, after
<1>6. /\ First(owed, 0) = 0 /\ First(after, 0) = 0
      /\ \A i \in 0 .. n : First(owed, i) \in Nat
      /\ \A i \in 1 .. n : First(owed, i) = First(owed, i - 1) + owed[i]
      /\ \A i \in 1 .. n : First(after, i) = First(after, i - 1) + after[i]
  <2>1. /\ First(owed, 0) = 0 /\ \A i \in 0 .. n : First(owed, i) \in Nat
        /\ \A i \in 1 .. n : First(owed, i) = First(owed, i - 1) + owed[i]
    BY FirstSum
  <2>2. First(after, 0) = 0 /\ \A i \in 1 .. n : First(after, i) = First(after, i - 1) + after[i]
    BY <1>5, FirstSum
  <2> QED BY <2>1, <2>2
<1> DEFINE N == {i \in Nat : i <= n => First(after, i) = Positive(First(owed, i) - amount)}
<1>7. 0 \in N
  BY <1>6 DEF Positive
<1>8. ASSUME NEW i \in Nat, i \in N PROVE i + 1 \in N
  <2> SUFFICES ASSUME i + 1 <= n PROVE First(after, i + 1) = Positive(First(owed, i + 1) - amount)
    OBVIOUS
  <2>1. i + 1 \in 1 .. n /\ (i + 1) - 1 = i /\ i \in 0 .. n
    OBVIOUS
  <2>2. PICK s \in Nat : s = First(owed, i)
    BY <1>6, <2>1
  <2>3. PICK o \in Nat : o = owed[i + 1]
    BY <2>1
  <2>4. First(owed, i + 1) = s + o
    BY <1>6, <2>1, <2>2, <2>3
  <2>5. left[i] = Positive(amount - s)
    BY <1>1, <2>1, <2>2
  <2>6. after[i + 1] = o - Taken(Positive(amount - s), o)
    <3>1. taken[i + 1] = Taken(left[(i + 1) - 1], owed[i + 1])
      BY <1>3, <2>1
    <3>2. taken[i + 1] = Taken(left[i], o)
      BY <2>1, <2>3, <3>1
    <3>3. after[i + 1] = owed[i + 1] - taken[i + 1]
      BY <1>5, <2>1
    <3> QED BY <2>3, <2>5, <3>2, <3>3
  <2>7. First(after, i + 1) = Positive(s - amount) + after[i + 1]
    BY <1>6, <1>8, <2>1, <2>2
  <2>8. Positive(s - amount) + (o - Taken(Positive(amount - s), o)) = Positive((s + o) - amount)
    BY TakenFirst
  <2> QED BY <2>4, <2>6, <2>7, <2>8
<1> HIDE DEF N
<1>9. \A i \in Nat : i \in N
  BY <1>7, <1>8, Induction
<1>10. \A i \in 0 .. n : First(after, i) = Positive(First(owed, i) - amount)
  BY <1>9 DEF N
<1>11. Spent(amount, owed)[n] = Positive(amount - First(owed, n))
  BY <1>1 DEF left
<1> QED BY <1>10, <1>11 DEF after, Pays

\* After each payment, in their order, what it leaves.
PaidOff(n, totals, m, amounts, owed) ==
  /\ owed \in [0 .. m -> [1 .. n -> Nat]]
  /\ owed[0] = totals
  /\ \A p \in 1 .. m : owed[p] = After(amounts[p], owed[p - 1])

\* Owed, whose recursion has a solution.
LEMMA OwedIs ==
  ASSUME NEW n \in Nat, NEW totals \in [1 .. n -> Nat], NEW m \in Nat, NEW amounts \in [1 .. m -> Int]
  PROVE  PaidOff(n, totals, m, amounts, Owed(totals, amounts))
<1> DEFINE Less(before, amount) == [i \in 1 .. n |-> before[i] - Allocated(amount, before)[i]]
           Is(g) == g = [p \in 0 .. m |-> IF p = 0 THEN totals ELSE Less(g[p - 1], amounts[p])]
           owed == CHOOSE g : Is(g)
           step == [w \in (1 .. m) \X [1 .. n -> Nat] |-> Less(w[2], amounts[w[1]])]
<1>1. Len(totals) = n /\ Len(amounts) = m
  BY LenOf
<1>2. Owed(totals, amounts) = owed
  BY <1>1 DEF Owed
<1> HIDE DEF owed
<1>3. ASSUME NEW v \in [1 .. n -> Nat], NEW a \in Int
      PROVE  Less(v, a) = After(a, v) /\ Less(v, a) \in [1 .. n -> Nat]
  <2>1. Len(v) = n
    BY LenOf
  <2>2. Less(v, a) = After(a, v)
    BY <2>1 DEF After
  <2>3. After(a, v) \in [1 .. n -> Nat]
    BY RowsTake DEF Takes
  <2> QED BY <2>2, <2>3
<1>4. PICK V : V = [1 .. n -> Nat]
  OBVIOUS
<1> HIDE DEF Less
<1>5. step \in [(1 .. m) \X V -> V]
  BY <1>3, <1>4
<1>6. \A p \in 1 .. m, v \in V : step[<<p, v>>] = Less(v, amounts[p])
  BY <1>4
<1> HIDE DEF step
<1>7. totals \in V
  BY <1>4
<1>8. HasSteps(V, totals, step, m)
  BY <1>5, <1>7, StepByStep
<1>9. PICK g \in [0 .. m -> V] : Steps(g, totals, step, m)
  BY <1>8 DEF HasSteps
<1>10. ASSUME NEW p \in 1 .. m PROVE g[p] = Less(g[p - 1], amounts[p])
  <2>1. g[p] = step[<<p, g[p - 1]>>]
    BY <1>9 DEF Steps
  <2>2. p - 1 \in 0 .. m
    OBVIOUS
  <2>3. g[p - 1] \in V
    BY <2>2
  <2> QED BY <1>6, <2>1, <2>3
<1>11. g[0] = totals
  BY <1>9 DEF Steps
<1>12. Is(g)
  <2>1. g = [p \in 0 .. m |-> g[p]]
    OBVIOUS
  <2>2. \A p \in 0 .. m : g[p] = IF p = 0 THEN totals ELSE Less(g[p - 1], amounts[p])
    BY <1>10, <1>11
  <2> QED BY <2>1, <2>2
<1>13. Is(owed)
  BY <1>12, Zenon DEF owed
<1>14. /\ owed[0] = totals
       /\ \A p \in 1 .. m : owed[p] = Less(owed[p - 1], amounts[p])
       /\ owed = [p \in 0 .. m |-> owed[p]]
  BY <1>13
<1> DEFINE N == {p \in Nat : p <= m => owed[p] \in [1 .. n -> Nat]}
<1>15. 0 \in N
  BY <1>14
<1>16. ASSUME NEW p \in Nat, p \in N PROVE p + 1 \in N
  <2> SUFFICES ASSUME p + 1 <= m PROVE owed[p + 1] \in [1 .. n -> Nat]
    OBVIOUS
  <2>1. p + 1 \in 1 .. m /\ (p + 1) - 1 = p
    OBVIOUS
  <2>2. owed[p + 1] = Less(owed[p], amounts[p + 1])
    BY <1>14, <2>1
  <2>3. PICK v \in [1 .. n -> Nat] : v = owed[p]
    BY <1>16, <2>1
  <2>4. PICK a \in Int : a = amounts[p + 1]
    BY <2>1
  <2>5. Less(v, a) \in [1 .. n -> Nat]
    BY <1>3
  <2> QED BY <2>2, <2>3, <2>4, <2>5
<1> HIDE DEF N
<1>17. \A p \in Nat : p \in N
  BY <1>15, <1>16, Induction
<1>18. \A p \in 0 .. m : owed[p] \in [1 .. n -> Nat]
  BY <1>17 DEF N
<1>19. ASSUME NEW p \in 1 .. m PROVE owed[p] = After(amounts[p], owed[p - 1])
  <2>1. p - 1 \in 0 .. m
    OBVIOUS
  <2>2. owed[p - 1] \in [1 .. n -> Nat] /\ amounts[p] \in Int
    BY <1>18, <2>1
  <2>3. owed[p] = Less(owed[p - 1], amounts[p])
    BY <1>14
  <2> QED BY <1>3, <2>2, <2>3
<1> QED BY <1>2, <1>14, <1>18, <1>19 DEF PaidOff

\* The first rows are owed what the payments together do not cover of them.
LEMMA OwedFirst ==
  ASSUME NEW n \in Nat, NEW totals \in [1 .. n -> Nat], NEW m \in Nat, NEW amounts \in [1 .. m -> Nat]
  PROVE  \A p \in 0 .. m, i \in 0 .. n :
           First(Owed(totals, amounts)[p], i) = Positive(First(totals, i) - First(amounts, p))
<1> DEFINE owed == Owed(totals, amounts)
           N == {p \in Nat : p <= m => \A i \in 0 .. n :
                   First(owed[p], i) = Positive(First(totals, i) - First(amounts, p))}
<1>1. /\ owed \in [0 .. m -> [1 .. n -> Nat]] /\ owed[0] = totals
      /\ \A p \in 1 .. m : owed[p] = After(amounts[p], owed[p - 1])
  <2>1. amounts \in [1 .. m -> Int]
    OBVIOUS
  <2>2. PaidOff(n, totals, m, amounts, owed)
    BY <2>1, OwedIs
  <2> QED BY <2>2 DEF PaidOff
<1>2. /\ First(amounts, 0) = 0
      /\ \A p \in 0 .. m : First(amounts, p) \in Nat
      /\ \A p \in 1 .. m : First(amounts, p) = First(amounts, p - 1) + amounts[p]
  BY FirstSum
<1>3. \A i \in 0 .. n : First(totals, i) \in Nat
  BY FirstSum
<1> HIDE DEF owed
<1>4. 0 \in N
  <2>1. ASSUME NEW i \in 0 .. n
        PROVE  First(owed[0], i) = Positive(First(totals, i) - First(amounts, 0))
    <3>1. PICK t \in Nat : t = First(totals, i)
      BY <1>3
    <3>2. Positive(t - 0) = t
      BY DEF Positive
    <3> QED BY <1>1, <1>2, <3>1, <3>2
  <2> QED BY <2>1
<1>5. ASSUME NEW p \in Nat, p \in N PROVE p + 1 \in N
  <2> SUFFICES ASSUME p + 1 <= m, NEW i \in 0 .. n
               PROVE  First(owed[p + 1], i) = Positive(First(totals, i) - First(amounts, p + 1))
    OBVIOUS
  <2>1. p + 1 \in 1 .. m /\ (p + 1) - 1 = p /\ p \in 0 .. m
    OBVIOUS
  <2>2. owed[p] \in [1 .. n -> Nat] /\ amounts[p + 1] \in Nat
    BY <1>1, <2>1
  <2>3. owed[p + 1] = After(amounts[p + 1], owed[p])
    BY <1>1, <2>1
  <2>4. First(owed[p + 1], i) = Positive(First(owed[p], i) - amounts[p + 1])
    <3>1. PICK v \in [1 .. n -> Nat] : v = owed[p]
      BY <2>2
    <3>2. PICK a \in Nat : a = amounts[p + 1]
      BY <2>2
    <3>3. Pays(n, a, v)
      BY OnePayment
    <3>4. First(After(a, v), i) = Positive(First(v, i) - a)
      BY <3>3 DEF Pays
    <3> QED BY <2>3, <3>1, <3>2, <3>4
  <2>5. First(owed[p], i) = Positive(First(totals, i) - First(amounts, p))
    BY <1>5, <2>1
  <2>6. PICK t \in Nat : t = First(totals, i)
    BY <1>3
  <2>7. PICK s \in Nat : s = First(amounts, p)
    BY <1>2, <2>1
  <2>8. PICK a \in Nat : a = amounts[p + 1]
    BY <2>2
  <2>9. First(amounts, p + 1) = s + a
    BY <1>2, <2>1, <2>7, <2>8
  <2>10. Positive(Positive(t - s) - a) = Positive(t - (s + a))
    BY DEF Positive
  <2> QED BY <2>4, <2>5, <2>6, <2>7, <2>8, <2>9, <2>10
<1> HIDE DEF N
<1>6. \A p \in Nat : p \in N
  BY <1>4, <1>5, Induction
<1> QED BY <1>6 DEF N, owed

\* A sum one by one.
LEMMA Telescope ==
  ASSUME NEW m \in Nat, NEW f, \A p \in 1 .. m : f[p] \in Int,
         NEW g \in [0 .. m -> Int], \A p \in 1 .. m : g[p] = g[p - 1] + f[p]
  PROVE  g[m] = g[0] + SumFunctionOnSet(f, 1 .. m)
<1> DEFINE N == {p \in Nat : p <= m => g[p] = g[0] + First(f, p)}
<1>1. /\ First(f, 0) = 0
      /\ \A p \in 0 .. m : First(f, p) \in Int
      /\ \A p \in 1 .. m : First(f, p) = First(f, p - 1) + f[p]
  BY FirstSteps
<1>2. 0 \in N
  BY <1>1
<1>3. ASSUME NEW p \in Nat, p \in N PROVE p + 1 \in N
  <2> SUFFICES ASSUME p + 1 <= m PROVE g[p + 1] = g[0] + First(f, p + 1)
    OBVIOUS
  <2>1. p + 1 \in 1 .. m /\ (p + 1) - 1 = p /\ p \in 0 .. m /\ 0 \in 0 .. m
    OBVIOUS
  <2>2. g[p + 1] = g[p] + f[p + 1]
    BY <2>1
  <2>3. First(f, p + 1) = First(f, p) + f[p + 1]
    BY <1>1, <2>1
  <2>4. g[p] = g[0] + First(f, p)
    BY <1>3
  <2>5. First(f, p) \in Int /\ f[p + 1] \in Int /\ g[0] \in Int
    BY <1>1, <2>1
  <2> QED BY <2>2, <2>3, <2>4, <2>5
<1> HIDE DEF N
<1>4. m \in N
  BY <1>2, <1>3, Induction
<1> QED BY <1>4 DEF N, First

\* The allocation of payments to rows: what a row has got is what it is owed
\* less, and what is left over is what is paid more than all rows together.
Shared(n, totals, m, amounts, fifo) ==
  /\ fifo.rows \in [1 .. n -> Nat]
  /\ \A i \in 0 .. n : First(fifo.rows, i) = Positive(First(totals, i) - First(amounts, m))
  /\ DOMAIN fifo.paid = 1 .. m
  /\ \A p \in 1 .. m : fifo.paid[p] \in [1 .. n -> Nat]
  /\ \A i \in 1 .. n : SumFunctionOnSet([p \in 1 .. m |-> fifo.paid[p][i]], 1 .. m) = totals[i] - fifo.rows[i]
  /\ fifo.unapplied = Positive(First(amounts, m) - First(totals, n))

\* The allocation of the code is one that shares so.
LEMMA FifoIs ==
  ASSUME NEW n \in Nat, NEW totals \in [1 .. n -> Nat], NEW m \in Nat, NEW amounts \in [1 .. m -> Nat]
  PROVE  Shared(n, totals, m, amounts, Fifo(totals, amounts))
<1> DEFINE owed == Owed(totals, amounts)
           fifo == Fifo(totals, amounts)
           paid == [p \in 1 .. m |-> Allocated(amounts[p], owed[p - 1])]
           over == [p \in 1 .. m |-> Spent(amounts[p], owed[p - 1])[n]]
<1>1. Len(totals) = n /\ Len(amounts) = m
  BY LenOf
<1>2. fifo.rows = owed[m] /\ fifo.paid = paid /\ fifo.unapplied = SumOf(over)
  BY <1>1 DEF Fifo
<1>3. amounts \in [1 .. m -> Int]
  OBVIOUS
<1>4. PaidOff(n, totals, m, amounts, owed)
  BY <1>3, OwedIs
<1>5. /\ owed \in [0 .. m -> [1 .. n -> Nat]] /\ owed[0] = totals
      /\ \A p \in 1 .. m : owed[p] = After(amounts[p], owed[p - 1])
  BY <1>4 DEF PaidOff
<1>6. \A p \in 0 .. m, i \in 0 .. n : First(owed[p], i) = Positive(First(totals, i) - First(amounts, p))
  BY OwedFirst
<1>7. \A p \in 1 .. m : p - 1 \in 0 .. m /\ m \in 0 .. m
  OBVIOUS
<1>8. owed[m] \in [1 .. n -> Nat]
  BY <1>5, <1>7
<1> HIDE DEF owed
<1>9. ASSUME NEW p \in 1 .. m
      PROVE  Takes(n, amounts[p], owed[p - 1]) /\ Pays(n, amounts[p], owed[p - 1])
  <2>1. PICK v \in [1 .. n -> Nat] : v = owed[p - 1]
    BY <1>5, <1>7
  <2>2. PICK a \in Nat : a = amounts[p]
    OBVIOUS
  <2>3. Takes(n, a, v)
    <3>1. a \in Int
      OBVIOUS
    <3> QED BY <3>1, RowsTake
  <2>4. Pays(n, a, v)
    BY OnePayment
  <2> QED BY <2>1, <2>2, <2>3, <2>4
<1>10. ASSUME NEW p \in 1 .. m
       PROVE  /\ paid[p] \in [1 .. n -> Nat]
              /\ \A i \in 1 .. n : owed[p][i] = owed[p - 1][i] - paid[p][i]
  <2>1. paid[p] = Allocated(amounts[p], owed[p - 1]) /\ owed[p] = After(amounts[p], owed[p - 1])
    BY <1>5
  <2>2. /\ Allocated(amounts[p], owed[p - 1]) \in [1 .. n -> Nat]
        /\ \A i \in 1 .. n : After(amounts[p], owed[p - 1])[i]
                               = owed[p - 1][i] - Allocated(amounts[p], owed[p - 1])[i]
    BY <1>9 DEF Takes
  <2> QED BY <2>1, <2>2
<1>11. DOMAIN paid = 1 .. m
  OBVIOUS
<1> HIDE DEF paid
<1>12. ASSUME NEW i \in 1 .. n
       PROVE  SumFunctionOnSet([p \in 1 .. m |-> paid[p][i]], 1 .. m) = totals[i] - owed[m][i]
  <2> DEFINE f == [p \in 1 .. m |-> paid[p][i]]
             g == [p \in 0 .. m |-> totals[i] - owed[p][i]]
  <2>1. \A p \in 1 .. m : f[p] = paid[p][i] /\ f[p] \in Int
    BY <1>10
  <2>2. \A p \in 0 .. m : owed[p][i] \in Int /\ g[p] = totals[i] - owed[p][i]
    BY <1>5
  <2>3. g \in [0 .. m -> Int]
    BY <2>2
  <2>4. ASSUME NEW p \in 1 .. m PROVE g[p] = g[p - 1] + f[p]
    <3>1. owed[p][i] = owed[p - 1][i] - paid[p][i]
      BY <1>10
    <3>2. p \in 0 .. m /\ p - 1 \in 0 .. m
      OBVIOUS
    <3>3. g[p] = totals[i] - owed[p][i] /\ g[p - 1] = totals[i] - owed[p - 1][i]
      BY <2>2, <3>2
    <3>4. owed[p - 1][i] \in Int /\ paid[p][i] \in Int /\ totals[i] \in Int
      BY <2>1, <2>2, <3>2
    <3>5. f[p] = paid[p][i]
      BY <2>1
    <3> HIDE DEF f, g
    <3> QED BY <3>1, <3>3, <3>4, <3>5
  <2>5. g[0] = 0
    <3>1. 0 \in 0 .. m /\ totals[i] \in Int
      OBVIOUS
    <3> QED BY <1>5, <2>2, <3>1
  <2>6. g[m] = totals[i] - owed[m][i] /\ g[m] \in Int
    BY <1>7, <2>2
  <2> HIDE DEF f, g
  <2>7. g[m] = g[0] + SumFunctionOnSet(f, 1 .. m)
    BY <2>1, <2>3, <2>4, Telescope
  <2>a. SumFunctionOnSet(f, 1 .. m) \in Int
    <3>1. 1 \in Int /\ m \in Int
      OBVIOUS
    <3>2. IsFiniteSet(1 .. m)
      BY <3>1, FS_Interval
    <3> QED BY <2>1, <3>2, SumType
  <2>8. SumFunctionOnSet(f, 1 .. m) = totals[i] - owed[m][i]
    BY <2>5, <2>6, <2>7, <2>a
  <2> QED BY <2>8 DEF f
<1>13. PICK T \in Nat : T = First(totals, n)
  <2>1. n \in 0 .. n
    OBVIOUS
  <2> QED BY <2>1, FirstSum
<1>14. /\ First(amounts, 0) = 0
       /\ \A p \in 0 .. m : First(amounts, p) \in Nat
       /\ \A p \in 1 .. m : First(amounts, p) = First(amounts, p - 1) + amounts[p]
  BY FirstSum
<1>15. ASSUME NEW p \in 1 .. m
       PROVE  over[p] = Positive(amounts[p] - Positive(T - First(amounts, p - 1)))
  <2>1. Spent(amounts[p], owed[p - 1])[n] = Positive(amounts[p] - First(owed[p - 1], n))
    BY <1>9 DEF Pays
  <2>2. n \in 0 .. n
    OBVIOUS
  <2>3. First(owed[p - 1], n) = Positive(T - First(amounts, p - 1))
    BY <1>6, <1>7, <1>13, <2>2
  <2> QED BY <2>1, <2>3
<1>16. DOMAIN over = 1 .. m
  OBVIOUS
<1> HIDE DEF over
<1> DEFINE g == [p \in 0 .. m |-> Positive(First(amounts, p) - T)]
<1>17. \A p \in 0 .. m : g[p] = Positive(First(amounts, p) - T)
  OBVIOUS
<1>18. g \in [0 .. m -> Int]
  BY <1>14 DEF Positive
<1> HIDE DEF g
<1>19. ASSUME NEW p \in 1 .. m PROVE over[p] \in Int /\ g[p] = g[p - 1] + over[p]
  <2>1. PICK s \in Nat : s = First(amounts, p - 1)
    BY <1>7, <1>14
  <2>2. PICK a \in Nat : a = amounts[p]
    OBVIOUS
  <2>3. First(amounts, p) = s + a
    BY <1>14, <2>1, <2>2
  <2>4. g[p] = Positive((s + a) - T) /\ g[p - 1] = Positive(s - T)
    <3>1. p \in 0 .. m
      OBVIOUS
    <3> QED BY <1>7, <1>17, <2>1, <2>3, <3>1
  <2>5. over[p] = Positive(a - Positive(T - s))
    BY <1>15, <2>1, <2>2
  <2> QED BY <2>4, <2>5 DEF Positive
<1>20. g[0] = 0 /\ g[m] = Positive(First(amounts, m) - T)
  <2>1. 0 \in 0 .. m
    OBVIOUS
  <2>2. Positive(0 - T) = 0
    BY DEF Positive
  <2> QED BY <1>7, <1>14, <1>17, <2>1, <2>2
<1>21. g[m] = g[0] + SumFunctionOnSet(over, 1 .. m)
  BY <1>18, <1>19, Telescope
<1>22. SumOf(over) = SumFunctionOnSet(over, 1 .. m)
  BY <1>16, SumOfAll
<1>a. SumFunctionOnSet(over, 1 .. m) \in Int
  <2>1. 1 \in Int /\ m \in Int
    OBVIOUS
  <2>2. IsFiniteSet(1 .. m)
    BY <2>1, FS_Interval
  <2> QED BY <1>19, <2>2, SumType
<1>23. SumOf(over) = Positive(First(amounts, m) - T)
  BY <1>a, <1>20, <1>21, <1>22
<1>24. \A i \in 0 .. n : First(owed[m], i) = Positive(First(totals, i) - First(amounts, m))
  BY <1>6, <1>7
<1> QED
  <2> HIDE DEF fifo
  <2>1. fifo.rows \in [1 .. n -> Nat]
    BY <1>2, <1>8
  <2>2. \A i \in 0 .. n : First(fifo.rows, i) = Positive(First(totals, i) - First(amounts, m))
    BY <1>2, <1>24
  <2>3. DOMAIN fifo.paid = 1 .. m /\ \A p \in 1 .. m : fifo.paid[p] \in [1 .. n -> Nat]
    BY <1>2, <1>10, <1>11
  <2>4. \A i \in 1 .. n : SumFunctionOnSet([p \in 1 .. m |-> fifo.paid[p][i]], 1 .. m) = totals[i] - fifo.rows[i]
    BY <1>2, <1>12
  <2>5. fifo.unapplied = Positive(First(amounts, m) - First(totals, n))
    BY <1>2, <1>13, <1>23
  <2>6. Shared(n, totals, m, amounts, fifo)
    BY <2>1, <2>2, <2>3, <2>4, <2>5 DEF Shared
  <2> QED BY <2>6 DEF fifo
=============================================================================
