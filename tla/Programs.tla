------------------------------- MODULE Programs ------------------------------
(***************************************************************************)
(* The programs around the mint, side by side: the launcher of a mint, the *)
(* desktop's control of it, and the bearer wallet.  They share no state.   *)
(* A behaviour is one program's, and the variables of the others keep one  *)
(* value.                                                                  *)
(***************************************************************************)
EXTENDS Integers

CONSTANTS
    None,      \* what the programs read as None, of options, mints and coins
    \* Launcher
    Process, Options, KeyFiles, RacingFirstStart, MaxStarts,
    \* MintControl
    Gui, MintProcess, MaxCalls, MaxKills,
    \* Wallet
    Proc, Coins, Held, Foreign, Calls, MAX_ATTEMPTS, Lingering, MaxOps, MaxDeaths, MaxPolicy

VARIABLES
    program,
    \* Launcher
    keys, token, pruned, holder, starts, proc, claims,
    \* MintControl
    mint, stated, stored, digests, step, task, child, loc, fresh, said, calls, kills,
    \* Wallet
    tokens, ops, entries, idem, policy, requests, given,
    doing, calling, plan, coins, tries, todo, probed, deaths

launcherVars == <<keys, token, pruned, holder, starts, proc, claims>>
controlVars == <<mint, stated, stored, digests, step, task, child, loc, fresh, said,
                 calls, kills>>
walletVars == <<tokens, ops, entries, idem, policy, requests, given,
                doing, calling, plan, coins, tries, todo, probed, deaths>>
programVars == <<program, launcherVars, controlVars, walletVars>>

Launching == INSTANCE Launcher WITH NULL <- None, flock <- holder

Controlling == INSTANCE MintControl WITH
    NULL <- None, Mint <- MintProcess, MaxCrashes <- MaxKills,
    record <- stated, token <- stored, pc <- step, crashes <- kills

Bearer == INSTANCE Wallet WITH
    NULL <- None, MaxCrashes <- MaxDeaths, ledger <- entries, pc <- doing,
    call <- calling, op <- plan, seen <- probed, crashes <- deaths

----------------------------------------------------------------------------
\* The variables of a program that does not run.
NoLauncher ==
    /\ keys = 0 /\ token = 0 /\ pruned = 0 /\ holder = 0 /\ starts = 0
    /\ proc = 0 /\ claims = 0
NoControl ==
    /\ mint = 0 /\ stated = 0 /\ stored = 0 /\ digests = 0 /\ step = 0
    /\ task = 0 /\ child = 0 /\ loc = 0 /\ fresh = 0 /\ said = 0 /\ calls = 0
    /\ kills = 0
NoWallet ==
    /\ tokens = 0 /\ ops = 0 /\ entries = 0 /\ idem = 0 /\ policy = 0
    /\ requests = 0 /\ given = 0 /\ doing = 0 /\ calling = 0 /\ plan = 0
    /\ coins = 0 /\ tries = 0 /\ todo = 0 /\ probed = 0 /\ deaths = 0
NoProgram == program = "none" /\ NoLauncher /\ NoControl /\ NoWallet

ProgramInit ==
    \/ program = "launcher" /\ Launching!Init /\ NoControl /\ NoWallet
    \/ program = "control" /\ Controlling!Init /\ NoLauncher /\ NoWallet
    \/ program = "wallet" /\ Bearer!Init /\ NoLauncher /\ NoControl

ProgramNext ==
    /\ UNCHANGED program
    /\ \/ program = "launcher" /\ Launching!Next /\ UNCHANGED <<controlVars, walletVars>>
       \/ program = "control" /\ Controlling!Next /\ UNCHANGED <<launcherVars, walletVars>>
       \/ program = "wallet" /\ Bearer!Next /\ UNCHANGED <<launcherVars, controlVars>>
ProgramSpec == ProgramInit /\ [][ProgramNext]_programVars

----------------------------------------------------------------------------
\* What the deployment must give the programs; no code checks any of it.
\* No two launches complete or create the key file at once: load_or_create_keys
\* reads and writes it without a lock.
OneFirstStart == ~RacingFirstStart
\* One process at a time opened the store, and no request outlives its call: the
\* setting the wallet's recovery is made for.  Two processes on one store, or a
\* request that a proxy keeps after the wallet gave up on it, are not in it.
Alone == (\E w \in Proc : Proc = {w}) /\ ~Lingering

----------------------------------------------------------------------------
\* See module Launcher: what a mint publishes of itself stands, and a generated
\* credential can be found; and its types.
LaunchesStand ==
    program = "launcher" =>
        Launching!TypeOK /\ Launching!ClaimsStand /\ Launching!CredentialKept

\* See module MintControl; and its types.
NoMintLost == program = "control" => Controlling!TypeOK /\ Controlling!NoMintLost

\* See module Wallet: nothing of value is stranded; and its types.
NothingStranded == program = "wallet" => Bearer!TypeOK /\ Bearer!NothingStranded

\* See module Wallet: the balance and the reservations that lower it are real.
BalanceReal == program = "wallet" => Bearer!BalanceReal /\ Bearer!ReservationsExact

\* See module Wallet.
RefusedRetired == program = "wallet" => Bearer!RefusedRetired

\* See module Wallet.
PaidStringsLive == [][program = "wallet" => Bearer!PaidLive]_programVars
=============================================================================
