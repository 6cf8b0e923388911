--------------------------- MODULE CustodialCash ---------------------------
(***************************************************************************)
(* What the bridge promises, with no staging, custody or crashes: there    *)
(* are bearer coins that live outside the mint, and accounts.  A deposit   *)
(* turns coins into balance and a withdrawal turns balance into coins, all *)
(* at once, at a burn that depends on nothing but the amount the agent     *)
(* named and a policy that is in force.                                    *)
(***************************************************************************)
EXTENDS Integers, FiniteSets, Millicoins

CONSTANTS Agent, Policies, NULL

INSTANCE BurnCalc

VARIABLES
  bearer,    \* the live coins outside the mint
  accounts   \* the balance of every agent, 0 before it is registered

vars == <<bearer, accounts>>

Worth(coins) == Total([c \in coins |-> c.amount])

Init == accounts = [a \in Agent |-> 0]

Deposit(a) ==
  /\ bearer' \subseteq bearer /\ bearer' # bearer
  /\ \E p \in Policies :
       LET n == Worth(bearer \ bearer')
       IN  accounts' = [accounts EXCEPT ![a] = @ + n - ComputeBurn(n, p)]

Withdraw(a) ==
  /\ bearer \subseteq bearer' /\ bearer' # bearer
  /\ \E p \in Policies :
       LET n == Worth(bearer' \ bearer)
       IN  /\ accounts[a] >= n + ComputeBurn(n, p)
           /\ accounts' = [accounts EXCEPT ![a] = @ - n - ComputeBurn(n, p)]

\* Between two accounts.
Move(a, b) ==
  /\ \E n \in 1..accounts[a] :
       accounts' = [accounts EXCEPT ![a] = @ - n, ![b] = @ + n]
  /\ UNCHANGED bearer

\* Spent outside the mint's custodial profile, which makes no promise on what
\* it buys.
Leave == bearer' \subseteq bearer /\ UNCHANGED accounts

Next ==
  \/ \E a \in Agent : Deposit(a) \/ Withdraw(a)
  \/ \E a, b \in Agent : Move(a, b)
  \/ Leave

Spec == Init /\ [][Next]_vars
=============================================================================
