--------------------------- MODULE CostAllocation ----------------------------
(***************************************************************************)
(* The engine that distributes the costs of a property over its contracts  *)
(* (backend/domain/billing_engine.py): shares are registered under keys,   *)
(* costs and advances are added, and generate makes the statements.  A     *)
(* contract stands for its pair of unit and contract.                      *)
(***************************************************************************)
EXTENDS Money, FiniteSets

CONSTANTS
  Contracts,  (* contracts with their units                                *)
  Keys,       (* allocation keys                                           *)
  Shares,     (* share values, in hundredths                               *)
  Amounts,    (* amounts of costs, in cents                                *)
  Advances,   (* amounts paid in advance                                   *)
  MaxShares,  (* bound on the shares under all the keys                    *)
  MaxCosts    (* bound on the costs                                        *)

ASSUME AllocationAssumption ==
  /\ IsFiniteSet(Contracts)
  /\ Shares \subseteq Nat /\ Amounts \subseteq Int /\ Advances \subseteq Int
  /\ MaxShares \in Nat /\ MaxCosts \in Nat

VARIABLES
  shares,     (* under each key, the shares in order                       *)
  costs,      (* the costs in order                                        *)
  advances    (* what each contract has paid in advance                    *)

engine == <<shares, costs, advances>>

EngineInit == /\ shares = [k \in Keys |-> <<>>]
              /\ costs = <<>>
              /\ advances = [c \in Contracts |-> 0]
-----------------------------------------------------------------------------
\* The router registers a contract once under a key.
AddUnitShare(k, c, value) ==
  /\ SumOf([key \in Keys |-> Len(shares[key])]) < MaxShares
  /\ \A i \in DOMAIN shares[k] : shares[k][i].contract # c
  /\ shares' = [shares EXCEPT ![k] = Append(@, [contract |-> c, value |-> value])]
  /\ UNCHANGED <<costs, advances>>

\* A cost of a key without shares is refused.
AddCost(k, amount) ==
  /\ Len(costs) < MaxCosts
  /\ shares[k] # <<>>
  /\ costs' = Append(costs, [key |-> k, amount |-> amount])
  /\ UNCHANGED <<shares, advances>>

\* One advance per contract, which stands for the sum of several.
AddAdvance(c, amount) ==
  /\ advances[c] = 0
  /\ advances' = [advances EXCEPT ![c] = @ + amount]
  /\ UNCHANGED <<shares, costs>>

EngineNext ==
  \/ \E k \in Keys, c \in Contracts, value \in Shares : AddUnitShare(k, c, value)
  \/ \E k \in Keys, amount \in Amounts : AddCost(k, amount)
  \/ \E c \in Contracts, amount \in Advances : AddAdvance(c, amount)
-----------------------------------------------------------------------------
(* generate.                                                               *)

TotalShare(k) == SumOf([i \in DOMAIN shares[k] |-> shares[k][i].value])

\* A cost whose shares are all zero is left out.
Billed == {n \in DOMAIN costs : TotalShare(costs[n].key) # 0}

Exact(cost, i) == HalfUp(cost.amount * shares[cost.key][i].value, TotalShare(cost.key))

\* Variant: the last share is rounded like the others.
PortionsRounded(cost) == [i \in DOMAIN shares[cost.key] |-> Exact(cost, i)]

\* Variant: portions are cut off, not rounded.
PortionsCut(cost) ==
  LET list == shares[cost.key]
      Cut(i) == (cost.amount * list[i].value) \div TotalShare(cost.key)
  IN  [i \in DOMAIN list |->
         IF i < Len(list) THEN Cut(i)
         ELSE cost.amount - SumOf([j \in 1 .. Len(list) - 1 |-> Cut(j)])]

\* The last share in the list takes what rounding has left.
Portions(cost) ==
  LET last == Len(shares[cost.key])
  IN  [i \in 1 .. last |->
         IF i < last THEN Exact(cost, i)
         ELSE cost.amount - SumOf([j \in 1 .. last - 1 |-> Exact(cost, j)])]

Stated == {c \in Contracts : \E k \in Keys : \E i \in DOMAIN shares[k] : shares[k][i].contract = c}

\* What a cost adds to the statement of a contract.
LineOf(cost, c) ==
  SumOf([i \in DOMAIN shares[cost.key] |->
           IF shares[cost.key][i].contract = c THEN Portions(cost)[i] ELSE 0])

TotalCost(c) == SumOf([n \in Billed |-> LineOf(costs[n], c)])
Generate     == [c \in Stated |-> [total_cost   |-> TotalCost(c),
                                   advance_paid |-> advances[c],
                                   balance      |-> TotalCost(c) - advances[c]]]
=============================================================================
