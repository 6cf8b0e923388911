------------------------------ MODULE Protocols ------------------------------
(***************************************************************************)
(* The two-party protocols over the mint's timed locks, side by side: the  *)
(* swap of two mints, the payment channel, the escrow and commit-then-     *)
(* accept.  They share no state.  A behaviour runs one protocol, and the   *)
(* variables of the others keep one value.                                 *)
(***************************************************************************)
EXTENDS Integers

CONSTANTS
    Grace,         \* the mint's lock_params.grace_ms
    RedeemMargin,  \* the margin a redeemer keeps before the payer's refund opens
    Latency,       \* what a request takes at most
    \* Swap
    Estimate, PollingInterval, Precision, Ahead, Expiry, Windows, SwapEnd,
    \* Channel: Deadline is its T
    N, Capacity, Garbage, Deadline, SettleMargin, MinLifetime, ChannelEnd,
    \* Escrow
    Arbiters, Faulty, K, R, Evidence, DecisionDeadline, Expiries, EscrowEnd,
    \* CommitThenAccept: what a handover and a redemption take, and the expiries
    AcceptBy, Terms, HandoverTime, AcceptEnd

VARIABLES
    protocol,
    \* Swap
    now, ahead, expiry, window, timely, leg, spent_at, a, b, read, due,
    \* Channel
    time, entry, payer, drawn, unspent, payee, held, settled, call_end, at, owed, mishap,
    \* Escrow
    hour, limit, genuine, rungs, funder, refundable, redeemer, claim, by, votes, revealed,
    \* CommitThenAccept
    day, term, output, customer, worker, mint_time, satisfied, accepted, finish

swapVars == <<now, ahead, expiry, window, timely, leg, spent_at, a, b, read, due>>
channelVars == <<time, entry, payer, drawn, unspent, payee, held, settled, call_end, at,
                 owed, mishap>>
escrowVars == <<hour, limit, genuine, rungs, funder, refundable, redeemer, claim, by,
                votes, revealed>>
acceptVars == <<day, term, output, customer, worker, mint_time, satisfied, accepted,
                finish>>
protocolVars == <<protocol, swapVars, channelVars, escrowVars, acceptVars>>

Exchanging == INSTANCE Swap WITH MaxTime <- SwapEnd

Drawing == INSTANCE Channel WITH
    Expiry <- Deadline, MaxTime <- ChannelEnd, clock <- time, verified <- held,
    due <- call_end

Judging == INSTANCE Escrow WITH
    Margin <- RedeemMargin, MaxTime <- EscrowEnd, clock <- hour, expiry <- limit,
    entry <- rungs, payer <- funder, unspent <- refundable, payee <- redeemer, due <- by

Accepting == INSTANCE CommitThenAccept WITH
    Expiries <- Terms, Margin <- RedeemMargin,
    Latency <- HandoverTime, MaxTime <- AcceptEnd, clock <- day,
    expiry <- term, entry <- output, payer <- customer, read <- mint_time,
    verified <- satisfied, due <- finish

----------------------------------------------------------------------------
\* The variables of a protocol that is not run.
NoSwap ==
    /\ now = 0 /\ ahead = 0 /\ expiry = 0 /\ window = 0 /\ timely = 0 /\ leg = 0
    /\ spent_at = 0 /\ a = 0 /\ b = 0 /\ read = 0 /\ due = 0
NoChannel ==
    /\ time = 0 /\ entry = 0 /\ payer = 0 /\ drawn = 0 /\ unspent = 0 /\ payee = 0
    /\ held = 0 /\ settled = 0 /\ call_end = 0 /\ at = 0 /\ owed = 0 /\ mishap = 0
NoEscrow ==
    /\ hour = 0 /\ limit = 0 /\ genuine = 0 /\ rungs = 0 /\ funder = 0
    /\ refundable = 0 /\ redeemer = 0 /\ claim = 0 /\ by = 0 /\ votes = 0
    /\ revealed = 0
NoAccept ==
    /\ day = 0 /\ term = 0 /\ output = 0 /\ customer = 0 /\ worker = 0
    /\ mint_time = 0 /\ satisfied = 0 /\ accepted = 0 /\ finish = 0
NoProtocol == protocol = "none" /\ NoSwap /\ NoChannel /\ NoEscrow /\ NoAccept

ProtocolInit ==
    \/ protocol = "swap" /\ Exchanging!Init /\ NoChannel /\ NoEscrow /\ NoAccept
    \/ protocol = "channel" /\ Drawing!Init /\ NoSwap /\ NoEscrow /\ NoAccept
    \/ protocol = "escrow" /\ Judging!Init /\ NoSwap /\ NoChannel /\ NoAccept
    \/ protocol = "accept" /\ Accepting!Init /\ NoSwap /\ NoChannel /\ NoEscrow

ProtocolNext ==
    /\ UNCHANGED protocol
    /\ \/ protocol = "swap" /\ Exchanging!Next
            /\ UNCHANGED <<channelVars, escrowVars, acceptVars>>
       \/ protocol = "channel" /\ Drawing!Next
            /\ UNCHANGED <<swapVars, escrowVars, acceptVars>>
       \/ protocol = "escrow" /\ Judging!Next
            /\ UNCHANGED <<swapVars, channelVars, acceptVars>>
       \/ protocol = "accept" /\ Accepting!Next
            /\ UNCHANGED <<swapVars, channelVars, escrowVars>>
ProtocolSpec == ProtocolInit /\ [][ProtocolNext]_protocolVars

----------------------------------------------------------------------------
\* What the deployment must give the protocols; no code checks any of it.
\* A request lasts no more than half of what compute_margin takes it to last,
\* which is ten times the p99 the mint attests (LATENCY_SAFETY_FACTOR).
SafeEstimate == 2 * Latency <= Estimate
\* settle looks at the clock once and then takes the tranches one at a time: the
\* grace and the margin have room for a call for each of them.
Last == (N - 1) \div Capacity + 1
SettlesInTime == Last * Latency <= Grace + SettleMargin
\* The settlement margin and the grace have room for two calls: one under way
\* when the preimages arrive, and the one that redeems with them.
RedeemsTwice == 2 * Latency < Grace + RedeemMargin
\* The redemption margin and the grace are longer than it takes to hand the
\* preimage over and redeem: 60 s by default (escrow.py:1286), and a request of
\* the client times out after 30 s (wallet.py:158).
RedeemsInTime == HandoverTime < Grace + RedeemMargin

----------------------------------------------------------------------------
\* See module Swap; and its types.
BothOrNeither == protocol = "swap" => Exchanging!TypeOK /\ Exchanging!BothOrNeither

\* See module Channel: draws subsume the lost ones below, and are paid in full;
\* and its types.
DrawsHonoured ==
    protocol = "channel" =>
        Drawing!TypeOK /\ Drawing!DrawsHonoured /\ Drawing!DrawsSubsume

\* See module Escrow: an award in time is paid, and only what was awarded; and
\* its types.
EscrowHonoured ==
    protocol = "escrow" =>
        Judging!TypeOK /\ Judging!AwardedIsPaid /\ Judging!DefectionBounded

\* See module CommitThenAccept; and its types.
AcceptedIsPaid == protocol = "accept" => Accepting!TypeOK /\ Accepting!AcceptedIsPaid
=============================================================================
