--------------------------- MODULE CoinSelection ---------------------------
(***************************************************************************)
(* Component C07 (impl/aicash/wallet.py), the choice of coins: _select and *)
(* _decompose, driven by receive and pay.  Coins of one rung of the ladder *)
(* are interchangeable, so what a wallet holds is a count per rung.        *)
(*                                                                         *)
(* The network, the store and its failures are left to module Wallet: here *)
(* every exchange whose outputs and burn equal its inputs is accepted.     *)
(***************************************************************************)
EXTENDS BurnCalc, Sequences, FiniteSetsExt

CONSTANTS
  Ladder,     \* the denominations, ascending, as a sequence
  policy,     \* the burn policy in force
  Payments,   \* amounts that are paid
  Receipts,   \* amounts that are received, before the burn
  MaxValue    \* bound of the model: most value held

Rungs == DOMAIN Ladder
Bag == [Rungs -> Nat]

\* What the constants must be; the module that instantiates this one assumes it.
ConstantsOK ==
  /\ Ladder \in Seq(Nat \ {0})
  /\ Ladder # <<>> /\ Ladder[1] = 1
  /\ \A i, j \in Rungs : i < j => Ladder[i] < Ladder[j]
  /\ policy \in BurnPolicy

VARIABLES
  held,     \* the free held coins of the store
  amount,   \* what is being paid
  pool,     \* coins not picked so far
  picked,   \* coins picked so far
  rung,     \* the next rung to sweep
  pc        \* "idle", "greedy", "sweep", "plan" or "refused"

vars == <<held, amount, pool, picked, rung, pc>>

None == [i \in Rungs |-> 0]
Value(bag) == MapThenSumSet(LAMBDA i : bag[i] * Ladder[i], Rungs)
Plus(a, b) == [i \in Rungs |-> a[i] + b[i]]

\* Largest-first; a rung whose quotient is negative contributes no coin, but
\* the remainder is reduced all the same.
Decompose(sum) ==
  LET left[i \in 1..Len(Ladder) + 1] ==   \* left before rung i-1 is taken
        IF i > Len(Ladder) THEN sum ELSE left[i + 1] % Ladder[i]
  IN  [i \in Rungs |-> LET n == left[i + 1] \div Ladder[i]
                       IN  IF n > 0 THEN n ELSE 0]

Burn(bag) == ComputeBurn(Value(bag), policy)
Deficit == amount + Burn(picked) - Value(picked)
Change == Value(picked) - amount - Burn(picked)

TypeOK ==
  /\ held \in Bag /\ pool \in Bag /\ picked \in Bag
  /\ amount \in Payments \cup {0}
  /\ rung \in 1..Len(Ladder)
  /\ pc \in {"idle", "greedy", "sweep", "plan", "refused"}

Init ==
  /\ held = None /\ pool = None /\ picked = None
  /\ amount = 0
  /\ rung = 1
  /\ pc = "idle"

\* receive: the replacements of a received amount, less the burn.
Receive(sum) ==
  /\ pc = "idle"
  /\ Value(held) + sum <= MaxValue
  /\ held' = Plus(held, Decompose(sum - ComputeBurn(sum, policy)))
  /\ UNCHANGED <<amount, pool, picked, rung, pc>>

Pay(sum) ==
  /\ pc = "idle"
  /\ amount' = sum
  /\ pool' = held
  /\ picked' = None
  /\ rung' = 1
  /\ pc' = "greedy"
  /\ UNCHANGED held

Take(i, n) ==
  /\ pool' = [pool EXCEPT ![i] = @ - n]
  /\ picked' = [picked EXCEPT ![i] = @ + n]

Available == {i \in Rungs : pool[i] > 0}
Fitting == {i \in Available : Ladder[i] <= Deficit}

\* One turn of the greedy loop: the largest coin within the deficit, or the
\* smallest of all when none fits.
Pick ==
  /\ pc = "greedy"
  /\ Deficit > 0
  /\ Available # {}
  /\ Take(IF Fitting # {} THEN Max(Fitting) ELSE Min(Available), 1)
  /\ UNCHANGED <<held, amount, rung, pc>>

\* InsufficientFunds.
Refuse ==
  /\ pc = "greedy"
  /\ Deficit > 0
  /\ Available = {}
  /\ pc' = "refused"
  /\ UNCHANGED <<held, amount, pool, picked, rung>>

PickedEnoughBare == Value(picked) >= amount   \* mutant: the burn is forgotten
PickedEnough == Value(picked) >= amount + Burn(picked)

Selected ==
  /\ pc = "greedy"
  /\ PickedEnough
  /\ pc' = "sweep"
  /\ UNCHANGED <<held, amount, pool, picked, rung>>

Base(i) == Ladder[i + 1] \div Ladder[i]

\* Whole multiples of the base, enough to leave at most base - 1 coins.
Swept(i) ==
  LET excess == pool[i] - (Base(i) - 1)
      k == (excess + Base(i) - 1) \div Base(i)
  IN  IF excess <= 0 THEN 0 ELSE Min({k * Base(i), pool[i]})

\* The consolidation sweep of one rung below the top.
Sweep ==
  /\ pc = "sweep"
  /\ IF rung < Len(Ladder)
     THEN /\ Take(rung, Swept(rung))
          /\ rung' = rung + 1
          /\ UNCHANGED pc
     ELSE /\ pc' = "plan"
          /\ UNCHANGED <<pool, picked, rung>>
  /\ UNCHANGED <<held, amount>>

\* The outputs pay sends, payment and change together.
Outputs == Plus(Decompose(amount), Decompose(Change))
Balances == Value(picked) = Value(Outputs) + Burn(picked)

\* The mint accepts the plan: the picked coins are gone, the change is held.
\* A plan that does not balance is refused (amount_mismatch) and nothing moves.
Settle ==
  /\ pc = "plan"
  /\ held' = IF Balances THEN Plus(pool, Decompose(Change)) ELSE held
  /\ pc' = "idle"
  /\ amount' = 0 /\ pool' = None /\ picked' = None /\ rung' = 1

\* The caller gets the exception; the store is untouched.
Raise ==
  /\ pc = "refused"
  /\ pc' = "idle"
  /\ amount' = 0 /\ pool' = None /\ picked' = None /\ rung' = 1
  /\ UNCHANGED held

Next ==
  \/ \E sum \in Receipts : Receive(sum)
  \/ \E sum \in Payments : Pay(sum)
  \/ Pick
  \/ Refuse
  \/ Selected
  \/ Sweep
  \/ Settle
  \/ Raise

Spec == Init /\ [][Next]_vars

-----------------------------------------------------------------------------
\* Properties.

\* The batch pay sends balances to the millicoin: "decompose" is exact, and
\* the coins picked cover the amount and the burn on ALL of them, those the
\* sweep added after the loop included.
PlanBalances == pc = "plan" => Balances

\* pay refuses only when it must: no choice among the held coins covers the
\* amount and its own burn.
SubBags(bag) ==
  FoldSet(LAMBDA i, bags : {[b EXCEPT ![i] = n] : b \in bags, n \in 0..bag[i]},
          {None}, Rungs)
RefusalHonest ==
  pc = "refused" => \A b \in SubBags(held) : Value(b) < amount + Burn(b)

\* Repeated payments do not fragment the store: after each, a rung below the
\* top holds at most 2 * (base - 1) coins, however many were received.
Consolidated ==
  pc = "plan" =>
    \A i \in 1..Len(Ladder) - 1 : Plus(pool, Decompose(Change))[i] <= 2 * (Base(i) - 1)
=============================================================================
