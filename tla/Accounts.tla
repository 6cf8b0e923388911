------------------------------- MODULE Accounts ------------------------------
(***************************************************************************)
(* Component C10 (impl/aicash/supervision.py), the custodial books: agents *)
(* with their balances, caps, freezes and flags, the journal every         *)
(* statement and every cap is computed from, and the pull authorisations.  *)
(* Each operation here is one transaction, under the one lock of _SupCore. *)
(* Deposits and withdrawals, which are several, are in Supervision.        *)
(*                                                                         *)
(* The journal is kept as the total amount of each agent's lines of each   *)
(* kind at each instant, which is all any query asks of it.  A call that   *)
(* is refused changes nothing and is not an action.                        *)
(***************************************************************************)
EXTENDS Integers, Sequences, FiniteSets, Millicoins

CONSTANTS
  Operator,        \* operator identities
  Agent,           \* agent ids
  Caps,            \* the cap settings operators use
  Freezes, Flags,  \* what operators set the two controls to
  Grant,           \* the bounds of pull authorisations agents give
  Amount,          \* the amounts of transfers and pulls
  NULL,            \* no cap
  HOUR_MS, DAY_MS, \* the trailing windows
  MaxTime,         \* bound of the model: last instant of the clock
  MaxOutflow,      \* bound of the model: what an agent transfers and pays pulls
  MaxAuths,        \* bound of the model: authorisations given
  MaxStatements    \* bound of the model: statements produced

Time == 0..MaxTime

Cap == Nat \cup {NULL}

ASSUME CapsAssumption ==
  Caps \subseteq [per_hour_mc : Cap, per_day_mc : Cap, absolute_mc : Cap]
ASSUME ControlAssumption == Freezes \subseteq BOOLEAN /\ Flags \subseteq BOOLEAN
ASSUME GrantAssumption ==
  Grant \subseteq [cap_mc_per_day : Nat \ {0}, expires_at : Nat]
ASSUME AmountAssumption == Amount \subseteq Nat \ {0}
ASSUME WindowAssumption ==
  /\ HOUR_MS \in Nat \ {0} /\ DAY_MS \in Nat \ {0}
  /\ MaxTime \in Nat /\ MaxOutflow \in Nat /\ MaxAuths \in Nat /\ MaxStatements \in Nat
ASSUME FleetAssumption == IsFiniteSet(Agent) /\ NULL \notin Int

\* No operation of the code writes a line of the kind "issuance".
CREDIT_KINDS == {"deposit", "credit", "pull_in"}
DEBIT_KINDS == {"debit", "pull_out", "withdrawal", "burn"}

VARIABLES
  clock,
  agents,     \* the registered agents
  journal,    \* lines: total by agent, instant and kind
  auths,      \* the pull authorisations, in the order they were given
  pulled,     \* sup_pull_uses: total by authorisation and instant
  statements  \* the statements of closed periods handed out

books == <<agents, journal, auths, pulled, statements>>

Uncapped == [per_hour_mc |-> NULL, per_day_mc |-> NULL, absolute_mc |-> NULL]

AgentRow == [operator_id : Operator, balance_mc : Int, frozen : BOOLEAN,
             no_bearer_withdrawal : BOOLEAN, caps : Caps \cup {Uncapped}]

Auth == [granter : Agent, payee : Agent, bounds : Grant, revoked : BOOLEAN]

Cell == Agent \X Time \X (CREDIT_KINDS \cup DEBIT_KINDS)

-----------------------------------------------------------------------------
\* Queries.
Sum(S) == Total([c \in S |-> journal[c]])

Credits(a, T) == Sum({a} \X T \X CREDIT_KINDS)
Debits(a, T) == Sum({a} \X T \X DEBIT_KINDS)

BalanceFromLines(a, T) == Credits(a, T) - Debits(a, T)

\* A line aged exactly the window no longer counts.
DebitsSince(a, since) == Debits(a, {t \in Time : t > since})

Exceeds(debits, cap) == cap # NULL /\ debits > cap

CapViolation(a, gross, now) ==
  LET caps == agents[a].caps
  IN  \/ Exceeds(DebitsSince(a, now - HOUR_MS) + gross, caps.per_hour_mc)
      \/ Exceeds(DebitsSince(a, now - DAY_MS) + gross, caps.per_day_mc)
      \/ Exceeds(Debits(a, Time) + gross, caps.absolute_mc)

LeavesTheOperator(a, b) ==
  /\ agents[a].no_bearer_withdrawal
  /\ agents[a].operator_id # agents[b].operator_id

\* Mutant: the window ends one instant short.
PulledSinceShort(i, since) ==
  LET window == {t \in Time : t > since + 1}
  IN  Total([t \in window |-> pulled[<<i, t>>]])

PulledSince(i, since) ==
  LET window == {t \in Time : t > since}
  IN  Total([t \in window |-> pulled[<<i, t>>]])

\* Mutant: a freeze that stops withdrawals only.
MayDebitFrozen(a, n) ==
  /\ ~CapViolation(a, n, clock)
  /\ agents[a].balance_mc >= n
  /\ Debits(a, Time) + n <= MaxOutflow

\* Mutant: caps compared with what was debited before this debit.
MayDebitOverCap(a, n) ==
  /\ ~agents[a].frozen
  /\ ~CapViolation(a, 0, clock)
  /\ agents[a].balance_mc >= n
  /\ Debits(a, Time) + n <= MaxOutflow

\* What transfers and pulls ask of the agent they debit.
MayDebit(a, n) ==
  /\ ~agents[a].frozen
  /\ ~CapViolation(a, n, clock)
  /\ agents[a].balance_mc >= n
  /\ Debits(a, Time) + n <= MaxOutflow

\* Mutant: the flag is looked at when the grant is given only.
HonouredAsGiven(i) ==
  /\ ~auths[i].revoked
  /\ clock < auths[i].bounds.expires_at

\* Whether a grant is still good: the flag binds the money, not the paperwork.
Honoured(i) ==
  /\ ~auths[i].revoked
  /\ clock < auths[i].bounds.expires_at
  /\ ~LeavesTheOperator(auths[i].granter, auths[i].payee)

\* Writes.
Move(a, b, n) ==
  LET paid == [agents EXCEPT ![a].balance_mc = @ - n]
  IN  [paid EXCEPT ![b].balance_mc = @ + n]

Post(lines, a, t, kind, n) == [lines EXCEPT ![<<a, t, kind>>] = @ + n]

-----------------------------------------------------------------------------
InitBooks ==
  /\ clock = 0
  /\ agents = [a \in {} |-> NULL]
  /\ journal = [c \in Cell |-> 0]
  /\ auths = <<>>
  /\ pulled = [u \in (1..MaxAuths) \X Time |-> 0]
  /\ statements = {}

\* op_agents: an operator registers an agent.
RegisterAgent(op, a) ==
  /\ a \notin DOMAIN agents
  /\ agents' = [b \in DOMAIN agents \cup {a} |->
                  IF b = a
                  THEN [operator_id |-> op, balance_mc |-> 0, frozen |-> FALSE,
                        no_bearer_withdrawal |-> FALSE, caps |-> Uncapped]
                  ELSE agents[b]]
  /\ UNCHANGED <<journal, auths, pulled, statements>>

\* op_caps replaces all three caps.
SetCaps(a, caps) ==
  /\ a \in DOMAIN agents
  /\ agents' = [agents EXCEPT ![a].caps = caps]
  /\ UNCHANGED <<journal, auths, pulled, statements>>

\* op_freeze, op_unfreeze of some of one operator's agents: one, or ALL.
SetFrozen(S, frozen) ==
  /\ S \subseteq DOMAIN agents
  /\ \/ \E a \in S : S = {a}
     \/ \E op \in Operator :
          S = {a \in DOMAIN agents : agents[a].operator_id = op}
  /\ agents' = [a \in DOMAIN agents |->
                  IF a \in S THEN [agents[a] EXCEPT !.frozen = frozen]
                  ELSE agents[a]]
  /\ UNCHANGED <<journal, auths, pulled, statements>>

SetFlag(a, flag) ==
  /\ a \in DOMAIN agents
  /\ agents' = [agents EXCEPT ![a].no_bearer_withdrawal = flag]
  /\ UNCHANGED <<journal, auths, pulled, statements>>

\* Nothing stops an agent from granting to itself.
AuthorizePull(a, b, bounds) ==
  /\ Len(auths) < MaxAuths
  /\ {a, b} \subseteq DOMAIN agents
  /\ ~LeavesTheOperator(a, b)
  /\ auths' = Append(auths, [granter |-> a, payee |-> b, bounds |-> bounds,
                             revoked |-> FALSE])
  /\ UNCHANGED <<agents, journal, pulled, statements>>

RevokePull(i) ==
  /\ i \in DOMAIN auths
  /\ auths' = [auths EXCEPT ![i].revoked = TRUE]
  /\ UNCHANGED <<agents, journal, pulled, statements>>

Pull(i, n) ==
  /\ i \in DOMAIN auths
  /\ Honoured(i)
  /\ PulledSince(i, clock - DAY_MS) + n <= auths[i].bounds.cap_mc_per_day
  /\ LET a == auths[i].granter
         b == auths[i].payee
     IN  /\ MayDebit(a, n)
         /\ agents' = Move(a, b, n)
         /\ journal' = Post(Post(journal, a, clock, "pull_out", n),
                            b, clock, "pull_in", n)
  /\ pulled' = [pulled EXCEPT ![<<i, clock>>] = @ + n]
  /\ UNCHANGED <<auths, statements>>

Transfer(a, b, n) ==
  /\ {a, b} \subseteq DOMAIN agents /\ a # b
  /\ ~LeavesTheOperator(a, b)
  /\ MayDebit(a, n)
  /\ agents' = Move(a, b, n)
  /\ journal' = Post(Post(journal, a, clock, "debit", n), b, clock, "credit", n)
  /\ UNCHANGED <<auths, pulled, statements>>

\* op_statement of one agent for a period that has ended.  It writes nothing;
\* the signed copy stays with whoever asked.
Statement(a, to) ==
  /\ Cardinality(statements) < MaxStatements
  /\ a \in DOMAIN agents
  /\ to \in Time /\ to < clock
  /\ statements' = statements \cup
       {[agent |-> a, to |-> to, closing |-> BalanceFromLines(a, 0..to)]}
  /\ UNCHANGED <<agents, journal, auths, pulled>>

BooksNext ==
  /\ \/ \E op \in Operator, a \in Agent : RegisterAgent(op, a)
     \/ \E a \in Agent, caps \in Caps : SetCaps(a, caps)
     \/ \E S \in SUBSET Agent, frozen \in Freezes : SetFrozen(S, frozen)
     \/ \E a \in Agent, flag \in Flags : SetFlag(a, flag)
     \/ \E a, b \in Agent, bounds \in Grant : AuthorizePull(a, b, bounds)
     \/ \E i \in 1..MaxAuths : RevokePull(i)
     \/ \E i \in 1..MaxAuths, n \in Amount : Pull(i, n)
     \/ \E a, b \in Agent, n \in Amount : Transfer(a, b, n)
     \/ \E a \in Agent, to \in Time : Statement(a, to)
  /\ UNCHANGED clock

BooksTypeOK ==
  /\ clock \in Time
  /\ \E known \in SUBSET Agent : agents \in [known -> AgentRow]
  /\ journal \in [Cell -> Nat]
  /\ auths \in Seq(Auth) /\ Len(auths) <= MaxAuths
  /\ \A i \in DOMAIN auths :
       {auths[i].granter, auths[i].payee} \subseteq DOMAIN agents
  /\ pulled \in [(1..MaxAuths) \X Time -> Nat]
=============================================================================
