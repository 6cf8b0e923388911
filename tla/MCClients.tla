------------------------------ MODULE MCClients ------------------------------
(***************************************************************************)
(* The clients of a mint, side by side for TLC: those of module Clients,   *)
(* and with them the bearer wallet at a size for liveness and its choice   *)
(* of coins.  They share no state.  A behaviour belongs to one area, and   *)
(* the variables of the others keep one value.                             *)
(***************************************************************************)
EXTENDS Clients, Sequences, FiniteSets

CONSTANT w1

VARIABLES
    area,
    \* Wallet
    tokens, ops, entries, idem, policy, requests, given,
    doing, call, plan, coins, tries, todo, seen, deaths,
    \* CoinSelection
    held, amount, pool, picked, rung, selecting

walletVars == <<tokens, ops, entries, idem, policy, requests, given,
                doing, call, plan, coins, tries, todo, seen, deaths>>
selectionVars == <<held, amount, pool, picked, rung, selecting>>
vars == <<area, walletVars, selectionVars, clientVars>>

----------------------------------------------------------------------------
\* One process pays and receives, with every loss and one crash: small enough for
\* liveness.  Module MCProtocols has the larger stores.
Settles == INSTANCE Wallet WITH
    Proc <- {w1}, Coins <- 1..6, Held <- {1}, Foreign <- {2},
    Calls <- {"pay", "receive"}, MAX_ATTEMPTS <- 1, Lingering <- FALSE,
    MaxOps <- 2, MaxCrashes <- 1, MaxPolicy <- 0,
    ledger <- entries, pc <- doing, op <- plan, crashes <- deaths

\* A ladder 1, 10, 100 with the steepest legal rate: the burn steps up by 1
\* where the exemption ends.
Steep == [rate_ppm |-> 10000, cap_mc |-> 100, exempt_below_mc |-> 100]
Selection == INSTANCE CoinSelection WITH
    Ladder <- <<1, 10, 100>>, policy <- Steep, Payments <- {1, 37, 107},
    Receipts <- {9, 101}, MaxValue <- 150, pc <- selecting

\* A plain GET, and what departs from it in each of the ways the servers tell
\* apart.
Plain == [method |-> "GET", framing |-> "absent", octets |-> 0, empty |-> 0, version |-> "1.1",
          target |-> TRUE, keep |-> TRUE, expect |-> FALSE, session |-> TRUE, known |-> TRUE]
Posted == [Plain EXCEPT !.method = "POST", !.framing = "stated", !.octets = 1]
Variants ==
    {Plain, [Posted EXCEPT !.octets = 2]}
      \cup {[Plain EXCEPT !.method = m, !.framing = f, !.octets = n] :
              m \in {"GET", "POST"}, f \in {"confusable", "duplicated", "absent", "stated"}, n \in 0..1}
      \cup {[Posted EXCEPT !.session = s, !.known = k, !.expect = ~k] : s \in BOOLEAN, k \in BOOLEAN}
      \cup {[Posted EXCEPT !.keep = FALSE], [Posted EXCEPT !.method = "PUT"]}
      \cup {[Plain EXCEPT !.version = v] : v \in {"0.9", "bad"}}
      \cup {[Plain EXCEPT !.target = FALSE]}
      \cup {[Plain EXCEPT !.empty = e] : e \in 1..3}

ASSUME ClientAssumption ==
    Settles!ConstantsOK /\ Selection!ConstantsOK /\ Journal!ConstantsOK /\ Http!ConstantsOK

----------------------------------------------------------------------------
\* The variables of an area that is not the behaviour's.
NoWallet ==
    /\ tokens = 0 /\ ops = 0 /\ entries = 0 /\ idem = 0 /\ policy = 0
    /\ requests = 0 /\ given = 0 /\ doing = 0 /\ call = 0 /\ plan = 0 /\ coins = 0
    /\ tries = 0 /\ todo = 0 /\ seen = 0 /\ deaths = 0
NoSelection ==
    /\ held = 0 /\ amount = 0 /\ pool = 0 /\ picked = 0 /\ rung = 0
    /\ selecting = 0

Init ==
    \/ area = "settles" /\ Settles!Init /\ NoSelection /\ NoClient
    \/ area = "selection" /\ Selection!Init /\ NoWallet /\ NoClient
    \/ area = "clients" /\ ClientInit /\ NoWallet /\ NoSelection

Next ==
    /\ UNCHANGED area
    /\ \/ area = "settles" /\ Settles!Next /\ UNCHANGED <<selectionVars, clientVars>>
       \/ area = "selection" /\ Selection!Next /\ UNCHANGED <<walletVars, clientVars>>
       \/ area = "clients" /\ ClientNext /\ UNCHANGED <<walletVars, selectionVars>>

\* The fairness Wallet states, of its steps in the one area that needs it.
Running == area = "settles" /\ UNCHANGED <<area, selectionVars, clientVars>>
Fairness ==
    /\ WF_vars(Running /\ Settles!Steps(w1)) /\ WF_vars(Running /\ Settles!Recovery(w1))
    /\ SF_vars(Running /\ Settles!Probe(w1)) /\ SF_vars(Running /\ Settles!Confirm(w1))
    /\ SF_vars(Running /\ Settles!Weigh(w1))
Spec == Init /\ [][Next]_vars /\ Fairness

----------------------------------------------------------------------------
\* See module Wallet.
PlansSettled ==
    \A o \in 1..2 : (area = "settles" /\ Settles!Planned(o))
                      ~> (area = "settles" /\ ~Settles!Planned(o))

\* See module CoinSelection: what pay sends balances, leaves few coins, and is
\* refused only when no choice of coins would do.
PaymentsSound ==
    area = "selection" =>
        /\ Selection!TypeOK /\ Selection!PlanBalances
        /\ Selection!Consolidated /\ Selection!RefusalHonest
=============================================================================
