---------------------------- MODULE Launcher ----------------------------
(***************************************************************************)
(* run_mint.py: how a mint process comes up, what it writes beside its     *)
(* ledger on the way, and what of that a later process still finds.  Two   *)
(* launchers may run on one working directory, each step of one between    *)
(* any two steps of the other, and each may die at any step.  A file is    *)
(* replaced in one step (write_secret renames a complete one over it), but *)
(* what it replaces was read some steps before.                            *)
(***************************************************************************)
EXTENDS Integers

CONSTANTS
    Process,          \* launchers that may run at one time
    Options,          \* the command lines in use
    KeyFiles,         \* the key files a first launch may find
    NULL,
    RacingFirstStart, \* may two launchers create or complete the key file at once?
    MaxStarts         \* bound

VARIABLES
    keys,     \* the key file, NULL if there is none
    token,    \* the token file: the number of the launch that wrote it, or NULL
    pruned,   \* have spent records been deleted from the ledger?
    flock,    \* the process that holds the single-writer claim, or NULL
    starts,   \* launches so far
    proc,     \* the processes
    claims    \* history: the key and the baseline of every descriptor served

vars == <<keys, token, pruned, flock, starts, proc, claims>>

Issuance == {"open", "none", "supplied", "generated"}
Registration == {"open", "none", "supplied", "inherit"}
Option == [issuance : Issuance, supervision : BOOLEAN, registration : Registration,
           interval : BOOLEAN, baseline : {"b1", "b2"}, pin : BOOLEAN]
Phase == {"off", "load", "write", "config", "bind", "token", "pin", "pinned", "up", "drain"}

KeyFile == [key : Nat, prunes : BOOLEAN, baseline : {"b1", "b2"} \cup {NULL}]

\* What the constants must be; the module that instantiates this one assumes it.
ConstantsOK ==
    /\ Options \subseteq Option /\ KeyFiles \subseteq KeyFile \cup {NULL}
    /\ NULL \notin Process /\ NULL \notin KeyFile /\ NULL \notin {"b1", "b2"}
    /\ RacingFirstStart \in BOOLEAN /\ MaxStarts \in Nat

Idle == [pc |-> "off", opts |-> NULL, blob |-> NULL, gate |-> NULL,
         publishes |-> FALSE, number |-> 0, since |-> 0]

\* main's checks of its arguments: each policy is one value here, so the
\* contradictory pairs do not arise; what is left are the flags that need
\* --supervision.
Accepted(o) == o.supervision \/ o.registration = "inherit"

\* The policy for /admin/issue as main binds config_admin_token.  The
\* registration warning stands at the head of the chain that tells --no-issuance,
\* --admin-token and a generated credential apart.
RegistrationIsOpen(o) ==
    \/ o.registration = "open"
    \/ o.issuance = "open" /\ o.registration = "inherit"
Gate(o) ==
    IF o.supervision /\ RegistrationIsOpen(o)
    THEN IF o.issuance = "open" THEN "open" ELSE "unbound"
    ELSE IF o.issuance \in {"none", "supplied"} THEN o.issuance ELSE "generated"
Generates(o) == Gate(o) = "generated"

Publishes(blob, o) == blob.prunes \/ o.interval

Booting == {"load", "write", "config", "bind"}
Serving == {"token", "pin", "pinned", "up"}

Init ==
    /\ keys \in KeyFiles
    /\ token = NULL
    /\ pruned = FALSE
    /\ flock = NULL
    /\ starts = 0
    /\ proc = [p \in Process |-> Idle]
    /\ claims = {}

At(p, phase) == proc[p].pc = phase
Become(p, r) == proc' = [proc EXCEPT ![p] = r]
Goto(p, phase) == proc' = [proc EXCEPT ![p].pc = phase]

\* main, argument parsing.
Launch(p, o) ==
    /\ At(p, "off")
    /\ Accepted(o)
    /\ starts < MaxStarts
    /\ starts' = starts + 1
    /\ Become(p, [Idle EXCEPT !.pc = "load", !.opts = o, !.number = starts + 1])
    /\ UNCHANGED <<keys, token, pruned, flock, claims>>

\* load_or_create_keys.
Others(p) == Process \ {p}
Unraced(p) == RacingFirstStart \/ \A q \in Others(p) : proc[q].pc \notin Booting
Complete(blob) == blob # NULL /\ blob.baseline # NULL
LoadKeys(p) ==
    /\ At(p, "load")
    /\ Complete(keys)
    /\ IF keys.baseline = proc[p].opts.baseline
       THEN proc' = [proc EXCEPT ![p].pc = "config", ![p].blob = keys]
       ELSE Become(p, Idle)
    /\ UNCHANGED <<keys, token, pruned, flock, starts, claims>>
CompleteKeys(p) ==
    /\ At(p, "load")
    /\ keys # NULL /\ ~Complete(keys)
    /\ Unraced(p)
    /\ IF proc[p].opts.pin
       THEN proc' = [proc EXCEPT ![p].pc = "write",
                                 ![p].blob = [keys EXCEPT !.baseline = proc[p].opts.baseline]]
       ELSE Become(p, Idle)
    /\ UNCHANGED <<keys, token, pruned, flock, starts, claims>>
GenerateKeys(p) ==
    /\ At(p, "load")
    /\ keys = NULL
    /\ Unraced(p)
    /\ proc' = [proc EXCEPT ![p].pc = "write",
                            ![p].blob = [key |-> proc[p].number, prunes |-> FALSE,
                                         baseline |-> proc[p].opts.baseline]]
    /\ UNCHANGED <<keys, token, pruned, flock, starts, claims>>
WriteKeys(p) ==
    /\ At(p, "write")
    /\ keys' = proc[p].blob
    /\ Goto(p, "config")
    /\ UNCHANGED <<token, pruned, flock, starts, claims>>

\* The policies, and MintConfig; a policy no branch bound ends the process.
Configure(p) ==
    /\ At(p, "config")
    /\ LET o == proc[p].opts IN
       IF Gate(o) = "unbound"
       THEN Become(p, Idle)
       ELSE proc' = [proc EXCEPT ![p].pc = "bind", ![p].gate = Gate(o),
                                 ![p].publishes = Publishes(proc[p].blob, o)]
    /\ UNCHANGED <<keys, token, pruned, flock, starts, claims>>

\* MintServer.start: the claim on the ledger, then the port.  From here on the
\* mint answers requests.
Start(p) ==
    /\ At(p, "bind")
    /\ IF flock = NULL
       THEN /\ flock' = p
            /\ Goto(p, "token")
            /\ claims' = claims \cup {[key |-> proc[p].blob.key, baseline |-> proc[p].blob.baseline]}
       ELSE Become(p, Idle) /\ UNCHANGED <<flock, claims>>
    /\ UNCHANGED <<keys, token, pruned, starts>>
BindFails(p) ==
    /\ At(p, "bind")
    /\ Become(p, Idle)
    /\ UNCHANGED <<keys, token, pruned, flock, starts, claims>>

\* The token file: removed for an open or disabled mint, else replaced by the
\* generated credential.
StoreToken(p) ==
    /\ At(p, "token")
    /\ token' = IF proc[p].opts.issuance \in {"open", "none"} THEN NULL
                ELSE IF Generates(proc[p].opts) THEN proc[p].number ELSE token
    /\ Goto(p, "pin")
    /\ UNCHANGED <<keys, pruned, flock, starts, claims>>

\* pin_retention reads the file and writes it back.
ComeUp(p) == proc' = [proc EXCEPT ![p].pc = "up", ![p].since = starts]
Unpinned(p) == proc[p].publishes /\ ~proc[p].blob.prunes
ReadPins(p) ==
    /\ At(p, "pin")
    /\ IF Unpinned(p) /\ ~keys.prunes
       THEN proc' = [proc EXCEPT ![p].pc = "pinned", ![p].blob = [keys EXCEPT !.prunes = TRUE]]
       ELSE ComeUp(p)
    /\ UNCHANGED <<keys, token, pruned, flock, starts, claims>>
WritePins(p) ==
    /\ At(p, "pinned")
    /\ keys' = proc[p].blob
    /\ ComeUp(p)
    /\ UNCHANGED <<token, pruned, flock, starts, claims>>
\* A start-up file that cannot be written stops the mint again.
Persisting == {"token", "pin", "pinned"}
PersistFails(p) ==
    /\ proc[p].pc \in Persisting
    /\ flock' = NULL
    /\ Become(p, Idle)
    /\ UNCHANGED <<keys, token, pruned, starts, claims>>

\* prune_forever: the first pass comes one interval after the thread
\* starts, and a launch that was under way then has failed by then; a pass that is
\* running when the signal comes is not waited for.
IntervalPassed(p) ==
    \A q \in Others(p) :
        proc[q].pc \in Booting \cup Serving => proc[q].number > proc[p].since
PrunerPhasesAll == Serving \cup {"drain"}
PrunerPhases == {"up", "drain"}
Prune(p) ==
    /\ proc[p].pc \in PrunerPhases
    /\ proc[p].opts.interval
    /\ IntervalPassed(p)
    /\ ~pruned
    /\ pruned' = TRUE
    /\ UNCHANGED <<keys, token, flock, starts, proc, claims>>

\* A signal: server.stop() lets the claim go, then the handlers are drained.
Signal(p) ==
    /\ At(p, "up")
    /\ flock' = NULL
    /\ Goto(p, "drain")
    /\ UNCHANGED <<keys, token, pruned, starts, claims>>
Drained(p) ==
    /\ At(p, "drain")
    /\ Become(p, Idle)
    /\ UNCHANGED <<keys, token, pruned, flock, starts, claims>>
\* A kill, or a crash, at any point.
Die(p) ==
    /\ ~At(p, "off")
    /\ flock' = IF flock = p THEN NULL ELSE flock
    /\ Become(p, Idle)
    /\ UNCHANGED <<keys, token, pruned, starts, claims>>

Next ==
    \E p \in Process :
        \/ \E o \in Options : Launch(p, o)
        \/ LoadKeys(p) \/ CompleteKeys(p) \/ GenerateKeys(p) \/ WriteKeys(p)
        \/ Configure(p) \/ Start(p) \/ BindFails(p)
        \/ StoreToken(p) \/ ReadPins(p) \/ WritePins(p) \/ PersistFails(p)
        \/ Prune(p) \/ Signal(p) \/ Drained(p) \/ Die(p)
Spec == Init /\ [][Next]_vars

----------------------------------------------------------------------------
TypeOK ==
    /\ flock \in Process \cup {NULL}
    /\ token \in 1..MaxStarts \cup {NULL}
    /\ \A p \in Process :
        /\ proc[p].pc \in Phase
        /\ (proc[p].pc \in Serving) <=> flock = p
        /\ proc[p].opts \in Option \cup {NULL}

\* What a mint publishes of itself stands across every later start: no two
\* descriptors name different keys or baselines, the serving mint's key is the
\* one on disk, and none says its records are kept once some have been pruned
\* (load_or_create_keys, pin_retention).
ClaimsStand ==
    /\ \A c, d \in claims : c = d
    /\ \A p \in Process : proc[p].pc \in Serving =>
        /\ keys.key = proc[p].blob.key
        /\ pruned => proc[p].publishes

\* The mint that serves with a generated credential finds it in the token file
\* once it is up, whatever other launches fail meanwhile: only an open mint may
\* leave none behind.
CredentialKept ==
    \A p \in Process :
        proc[p].pc \in {"pin", "pinned", "up"} /\ proc[p].gate = "generated"
          /\ proc[p].opts.issuance # "open"
        => token = proc[p].number

\* "--open-issuance still does exactly what it says" (DEPLOYMENT.md): a mint
\* serves with the issuance policy its command line asks for.
IssuanceAsAsked ==
    \A p \in Process : proc[p].pc \in Serving => proc[p].gate = proc[p].opts.issuance
=============================================================================
