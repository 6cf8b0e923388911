----------------------------- MODULE BearerCash -----------------------------
(***************************************************************************)
(* What the mint promises about value, with no calls, locks, keys or       *)
(* retention: some coins are live, each with an amount.  Money is created  *)
(* only by issue, and an exchange replaces a set of live coins by new ones *)
(* of the same total less what it burns, all at once.                      *)
(***************************************************************************)
EXTENDS Integers, Millicoins

CONSTANT Hash

VARIABLES
  coins,    \* the live coins: each key with its amount
  issued,   \* created so far
  burned    \* destroyed so far

vars == <<coins, issued, burned>>

Consumed == DOMAIN coins \ DOMAIN coins'
Created == DOMAIN coins' \ DOMAIN coins
Value(amount, S) == Total([h \in S |-> amount[h]])

\* The coins that are in neither set are untouched.
OthersKept == \A h \in DOMAIN coins \cap DOMAIN coins' : coins'[h] = coins[h]

Init ==
  /\ coins = [h \in {} |-> 0]
  /\ issued = 0
  /\ burned = 0

Mint ==
  /\ Consumed = {}
  /\ OthersKept
  /\ issued' = issued + Value(coins', Created)
  /\ UNCHANGED burned

\* What is burned is exactly what the created coins lack.
Transfer ==
  /\ Created \subseteq Hash
  /\ OthersKept
  /\ burned' >= burned
  /\ Value(coins, Consumed) = Value(coins', Created) + (burned' - burned)
  /\ UNCHANGED issued

Next == Mint \/ Transfer

Spec == Init /\ [][Next]_vars
=============================================================================
