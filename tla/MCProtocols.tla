----------------------------- MODULE MCProtocols -----------------------------
(***************************************************************************)
(* Side by side for TLC: the mint's process, the two-party protocols over  *)
(* its locks (module Protocols), the programs around it (module Programs), *)
(* and two wallet processes on one store.  They share no state.  A         *)
(* behaviour belongs to one area, and the variables of the others keep one *)
(* value.                                                                  *)
(***************************************************************************)
EXTENDS MintApi, Protocols, Programs, Sequences, TLC

VARIABLE area
allVars == <<area, vars, protocolVars, programVars>>

\* Two processes on one store, with requests that outlive their callers.
Shared == INSTANCE Wallet WITH
    Proc <- Handler, Coins <- 1..5, Held <- {1}, Foreign <- {},
    Calls <- {"pay"}, MAX_ATTEMPTS <- 1, Lingering <- TRUE,
    MaxOps <- 2, MaxCrashes <- 0, MaxPolicy <- 0, NULL <- None,
    ledger <- entries, pc <- doing, call <- calling, op <- plan, seen <- probed,
    crashes <- deaths

----------------------------------------------------------------------------
\* The horizons that just fit clocks that agree and clocks 4 apart.
Horizons == {<<12, 3>>, <<16, 3>>}

\* The command lines: a generated credential with and without a prune loop, open
\* registration without issuance, open issuance with and without supervision, and
\* one that disagrees on the baseline.
O(issuance, supervision, registration, interval, baseline) ==
    [issuance |-> issuance, supervision |-> supervision, registration |-> registration,
     interval |-> interval, baseline |-> baseline, pin |-> TRUE]
CommandLines == {O("generated", FALSE, "inherit", TRUE, "b1"),
                 O("generated", FALSE, "inherit", FALSE, "b1"),
                 O("none", TRUE, "open", FALSE, "b1"),
                 O("open", TRUE, "inherit", FALSE, "b1"), O("open", FALSE, "inherit", FALSE, "b1"),
                 O("supplied", FALSE, "inherit", FALSE, "b2")}
KeyFilesFound == {None, [key |-> 0, prunes |-> FALSE, baseline |-> None],
                  [key |-> 0, prunes |-> FALSE, baseline |-> "b1"]}

ASSUME ProtocolsAssumption ==
    /\ Exchanging!ConstantsOK /\ Drawing!ConstantsOK /\ Judging!ConstantsOK
    /\ Accepting!ConstantsOK
    /\ SafeEstimate /\ SettlesInTime /\ RedeemsTwice /\ RedeemsInTime
ASSUME ProgramsAssumption ==
    /\ Launching!ConstantsOK /\ Controlling!ConstantsOK
    /\ Bearer!ConstantsOK /\ Shared!ConstantsOK
    /\ OneFirstStart /\ Alone

----------------------------------------------------------------------------
\* A party of a swap that is late is promised nothing: one setting is enough for it.
LateOnce == protocol = "swap" => timely \/ (expiry = <<12, 3>> /\ ahead[1] = ahead[2])

\* In every area the mint's own variables begin as in a new file.
UnionInit ==
    /\ Init
    /\ \/ area \in {"snapshots", "activity"} /\ NoProtocol /\ NoProgram
       \/ area = "protocols" /\ ProtocolInit /\ LateOnce /\ NoProgram
       \/ area = "programs" /\ ProgramInit /\ NoProtocol
       \/ area = "shared" /\ Shared!Init
            /\ program = "none" /\ NoLauncher /\ NoControl /\ NoProtocol

\* The mint's process with snapshots and one exchange, and with both exchanges and
\* no snapshot.
MintNext ==
    \/ area = "snapshots" /\ Next /\ executed' \subseteq {CHOOSE k \in Key : TRUE}
    \/ area = "activity" /\ Next /\ \A h \in Handler : pc'[h] # "supply"

\* A wallet's third operation, under one policy and with one coin to spend.
ThirdIsPlain ==
    program = "wallet" /\ Len(ops') > 2 =>
        policy' = 0 /\ \A o \in DOMAIN ops' : 2 \notin ops'[o].inputs

UnionNext ==
    /\ UNCHANGED area
    /\ \/ MintNext /\ UNCHANGED <<protocolVars, programVars>>
       \/ area = "protocols" /\ ProtocolNext /\ UNCHANGED <<vars, programVars>>
       \/ area = "programs" /\ ProgramNext /\ ThirdIsPlain /\ UNCHANGED <<vars, protocolVars>>
       \/ area = "shared" /\ Shared!Next
            /\ UNCHANGED <<vars, protocolVars, program, launcherVars, controlVars>>
UnionSpec == UnionInit /\ [][UnionNext]_allVars

\* The actors are told apart by nothing but their names.
Alike == Permutations(Server) \cup Permutations(Handler)

----------------------------------------------------------------------------
\* See module Wallet: no secret is lost, whatever two processes do to one store;
\* and its types.
SecretsDurable == area = "shared" => Shared!TypeOK /\ Shared!SecretsDurable
=============================================================================
