-------------------------- MODULE MintControl --------------------------
(***************************************************************************)
(* gui/mintctl.py: a desktop process supervises the mint of one working    *)
(* directory through a state file that names a process, and through what   *)
(* the system says of that process.  One MintControl serializes its calls  *)
(* with a lock, but two desktop processes may look after one directory,    *)
(* each step of one between any two of the other; each may be killed at    *)
(* any step, the mints it spawned live on, and any mint may die by itself. *)
(*                                                                         *)
(* A mint is identified by its pid together with its start ticks, so a     *)
(* reused pid is another mint's name and not alive.                        *)
(***************************************************************************)
EXTENDS FiniteSets, Integers

CONSTANTS
    Gui,       \* desktop processes that look after the directory
    Mint,      \* mint processes, each spawned at most once
    NULL,
    MaxCalls, MaxCrashes   \* bounds

\* What the constants must be; the module that instantiates this one assumes it.
ConstantsOK == NULL \notin Mint \cup {"running", "stopped", "failed"}

VARIABLES
    mint,      \* of each mint: new, boot, up, wedged, term, closing, dead
    record,    \* mint-control.json: the mint it names, or NULL
    token,     \* the mint whose credential mint-admin-keys.json holds, or NULL
    digests,   \* mint-token-digests.json: the credentials remembered
    pc, task,  \* of each desktop: its step, and the call it runs
    child,     \* of each desktop: the mint its call has spawned, or NULL
    loc,       \* of each desktop: the mint it read from the record
    fresh,     \* of each desktop: mints alive since its last look began
    said,      \* of each desktop: the answer to its last call, or NULL
    calls, crashes

files == <<record, token, digests>>
desktop == <<pc, task, child, loc, fresh, said>>
vars == <<mint, files, desktop, calls, crashes>>

Alive == {m \in Mint : mint[m] \notin {"new", "dead"}}
\* The mint that holds the port and the claim on the ledger.
Holders == {m \in Mint : mint[m] \in {"up", "wedged", "term"}}
Answering == {m \in Mint : mint[m] \in {"up", "term"}}
Answers == {"running", "stopped", "failed"}

Init ==
    /\ mint = [m \in Mint |-> "new"]
    /\ record = NULL /\ token = NULL /\ digests = {}
    /\ pc = [g \in Gui |-> "idle"]
    /\ task = [g \in Gui |-> NULL]
    /\ child = [g \in Gui |-> NULL]
    /\ loc = [g \in Gui |-> NULL]
    /\ fresh = [g \in Gui |-> {}]
    /\ said = [g \in Gui |-> NULL]
    /\ calls = 0 /\ crashes = 0

At(g, step) == pc[g] = step
Goto(g, step) == pc' = [pc EXCEPT ![g] = step]
Answer(g, what) ==
    /\ Goto(g, "idle")
    /\ said' = [said EXCEPT ![g] = what]
    /\ child' = [child EXCEPT ![g] = NULL]

----------------------------------------------------------------------------
(* A mint.  It takes the claim and the port after it booted, and writes    *)
(* its credential once it has them (run_mint.py, Launcher).                *)
Becomes(m, s) ==
    /\ mint' = [mint EXCEPT ![m] = s]
    /\ fresh' = IF s = "dead" THEN [g \in Gui |-> fresh[g] \ {m}] ELSE fresh
Boots(m) ==
    /\ mint[m] = "boot"
    /\ Becomes(m, IF Holders = {} THEN "up" ELSE "dead")
    /\ UNCHANGED <<files, pc, task, child, loc, said, calls, crashes>>
StoresToken(m) ==
    /\ mint[m] = "up" /\ token # m
    /\ token' = m
    /\ UNCHANGED <<mint, record, digests, desktop, calls, crashes>>
Wedges(m) ==
    /\ mint[m] = "up"
    /\ Becomes(m, "wedged")
    /\ UNCHANGED <<files, pc, task, child, loc, said, calls, crashes>>
\* After SIGTERM: server.stop() lets port and claim go, then the handlers drain.
Drains(m) ==
    /\ mint[m] \in {"term", "closing"}
    /\ Becomes(m, IF mint[m] = "term" THEN "closing" ELSE "dead")
    /\ UNCHANGED <<files, pc, task, child, loc, said, calls, crashes>>
Dies(m) ==
    /\ m \in Alive
    /\ crashes < MaxCrashes /\ crashes' = crashes + 1
    /\ Becomes(m, "dead")
    /\ UNCHANGED <<files, pc, task, child, loc, said, calls>>

----------------------------------------------------------------------------
(* status(): read the record; is it alive?; clear it if not; adopt a mint  *)
(* that serves this ledger; probe it.                                      *)
Look(g) ==
    /\ fresh' = [fresh EXCEPT ![g] = Alive]
    /\ loc' = [loc EXCEPT ![g] = record]
Call(g, t) ==
    /\ At(g, "idle")
    /\ calls < MaxCalls /\ calls' = calls + 1
    /\ task' = [task EXCEPT ![g] = t]
    /\ Goto(g, IF t = "stop" THEN "find" ELSE "match")
    /\ said' = [said EXCEPT ![g] = NULL]
    /\ Look(g)
    /\ UNCHANGED <<mint, files, child, crashes>>

\* _process_matches, and _mark_not_running of a mint that is gone.
Match(g) ==
    /\ At(g, "match")
    /\ IF loc[g] \in Alive
       THEN Goto(g, "report") /\ UNCHANGED <<record, loc>>
       ELSE /\ Goto(g, "adopt")
            /\ record' = IF loc[g] = NULL THEN record ELSE NULL
            /\ loc' = [loc EXCEPT ![g] = NULL]
    /\ UNCHANGED <<mint, token, digests, task, child, fresh, said, calls, crashes>>

\* _adopt_orphan: any process whose arguments name this ledger.
ServingUp == Answering
Serving == Alive
Adopt(g) ==
    /\ At(g, "adopt")
    /\ IF Serving = {}
       THEN UNCHANGED <<record, loc>>
       ELSE \E m \in Serving : record' = m /\ loc' = [loc EXCEPT ![g] = m]
    /\ Goto(g, "report")
    /\ UNCHANGED <<mint, token, digests, task, child, fresh, said, calls, crashes>>

\* The end of status(), for the call that asked.
ReportStatus(g) ==
    /\ At(g, "report") /\ task[g] # "start"
    /\ Answer(g, IF loc[g] = NULL THEN "stopped" ELSE "running")
    /\ UNCHANGED <<mint, files, task, loc, fresh, calls, crashes>>

\* start(): refused while a mint is running; the port must be free.
Preflight(g) ==
    /\ At(g, "report") /\ task[g] = "start"
    /\ IF child[g] # NULL
       THEN Answer(g, IF loc[g] = NULL THEN "stopped" ELSE "running")
       ELSE IF loc[g] # NULL
       THEN Answer(g, "running")
       ELSE /\ Goto(g, IF Holders = {} THEN "spawn" ELSE "fail")
            /\ UNCHANGED <<said, child>>
    /\ UNCHANGED <<mint, files, task, loc, fresh, calls, crashes>>

\* _start: the child, and then the record that names it.
Spawn(g) ==
    /\ At(g, "spawn")
    /\ \E m \in Mint :
        /\ mint[m] = "new"
        /\ Becomes(m, "boot")
        /\ child' = [child EXCEPT ![g] = m]
    /\ Goto(g, "write")
    /\ UNCHANGED <<files, task, loc, said, calls, crashes>>
WriteState(g) ==
    /\ At(g, "write")
    /\ record' = child[g]
    /\ Goto(g, "await")
    /\ UNCHANGED <<mint, token, digests, task, child, loc, fresh, said, calls, crashes>>

\* _await_descriptor: the child has exited; or a mint of this mint_id answers on
\* the port; or neither, until the time is up and the child is terminated.
ChildExited(g) ==
    /\ At(g, "await")
    /\ mint[child[g]] = "dead"
    /\ Goto(g, "fail")
    /\ digests' = IF token = NULL THEN digests ELSE digests \cup {token}
    /\ UNCHANGED <<mint, record, token, task, child, loc, fresh, said, calls, crashes>>
Answered(g) ==
    /\ At(g, "await")
    /\ mint[child[g]] # "dead"
    /\ Answering # {}
    /\ Goto(g, "remember")
    /\ UNCHANGED <<mint, files, task, child, loc, fresh, said, calls, crashes>>
TimesOut(g) ==
    /\ At(g, "await")
    /\ mint[child[g]] \in {"boot", "wedged"}
    /\ Becomes(child[g], "dead")
    /\ Goto(g, "fail")
    /\ digests' = IF token = NULL THEN digests ELSE digests \cup {token}
    /\ UNCHANGED <<record, token, task, child, loc, said, calls, crashes>>
\* _remember_token, and start()'s own status().
Remember(g) ==
    /\ At(g, "remember")
    /\ digests' = IF token = NULL THEN digests ELSE digests \cup {token}
    /\ Goto(g, "match")
    /\ Look(g)
    /\ UNCHANGED <<mint, record, token, task, child, said, calls, crashes>>
\* A start that failed: _mark_not_running over whatever the record says now.
Fail(g) ==
    /\ At(g, "fail")
    /\ record' = NULL
    /\ Answer(g, "failed")
    /\ UNCHANGED <<mint, token, digests, task, loc, fresh, calls, crashes>>

----------------------------------------------------------------------------
(* stop(): find the mint as status() does, signal it, wait until it is     *)
(* gone, mark the record, and report the status.                           *)
Find(g) ==
    /\ At(g, "find")
    /\ IF loc[g] \in Alive
       THEN Goto(g, "signal") /\ UNCHANGED <<record, loc>>
       ELSE IF Serving = {}
       THEN /\ Goto(g, "mark")
            /\ UNCHANGED <<record, loc>>
       ELSE /\ \E m \in Serving : record' = m /\ loc' = [loc EXCEPT ![g] = m]
            /\ Goto(g, "signal")
    /\ UNCHANGED <<mint, token, digests, task, child, fresh, said, calls, crashes>>
\* SIGTERM closes a mint that serves, and ends at once one that has not yet
\* installed its handler, or that gets the second signal.
SignalTerm(g) ==
    /\ At(g, "signal")
    /\ Goto(g, "gone")
    /\ \/ mint[loc[g]] = "up" /\ Becomes(loc[g], "term")
       \/ mint[loc[g]] \in {"boot", "up", "term", "closing"} /\ Becomes(loc[g], "dead")
       \/ mint[loc[g]] \in {"wedged", "dead"} /\ UNCHANGED <<mint, fresh>>
    /\ UNCHANGED <<files, task, child, loc, said, calls, crashes>>
\* SIGKILL when the time is up.
SignalKill(g) ==
    /\ At(g, "gone")
    /\ mint[loc[g]] \in {"wedged", "term", "closing"}
    /\ Becomes(loc[g], "dead")
    /\ UNCHANGED <<files, pc, task, child, loc, said, calls, crashes>>
Gone(g) ==
    /\ At(g, "gone")
    /\ mint[loc[g]] = "dead"
    /\ Goto(g, "mark")
    /\ UNCHANGED <<mint, files, task, child, loc, fresh, said, calls, crashes>>
Mark(g) ==
    /\ At(g, "mark")
    /\ record' = IF loc[g] = NULL THEN record ELSE NULL
    /\ Goto(g, "match")
    /\ fresh' = [fresh EXCEPT ![g] = Alive]
    /\ loc' = [loc EXCEPT ![g] = record']
    /\ UNCHANGED <<mint, token, digests, task, child, said, calls, crashes>>

\* The desktop process is killed: its locals go, its child stays.
Killed(g) ==
    /\ ~At(g, "idle")
    /\ crashes < MaxCrashes /\ crashes' = crashes + 1
    /\ Goto(g, "idle")
    /\ child' = [child EXCEPT ![g] = NULL]
    /\ said' = [said EXCEPT ![g] = NULL]
    /\ UNCHANGED <<mint, files, task, loc, fresh, calls>>

Next ==
    \/ \E m \in Mint : Boots(m) \/ StoresToken(m) \/ Wedges(m) \/ Drains(m) \/ Dies(m)
    \/ \E g \in Gui :
        \/ \E t \in {"status", "start", "stop"} : Call(g, t)
        \/ Match(g) \/ Adopt(g) \/ ReportStatus(g)
        \/ Preflight(g) \/ Spawn(g) \/ WriteState(g)
        \/ ChildExited(g) \/ Answered(g) \/ TimesOut(g) \/ Remember(g) \/ Fail(g)
        \/ Find(g) \/ SignalTerm(g) \/ SignalKill(g) \/ Gone(g) \/ Mark(g)
        \/ Killed(g)
Spec == Init /\ [][Next]_vars

----------------------------------------------------------------------------
TypeOK ==
    /\ record \in Mint \cup {NULL}
    /\ Cardinality(Holders) <= 1
    /\ \A g \in Gui : said[g] \in Answers \cup {NULL}

\* No mint is lost: a call never answers that nothing runs while a mint lives
\* that was there when the call began to look, whoever spawned it and whatever
\* the other desktop did to the record meanwhile (status, _adopt_orphan).
NoMintLost == \A g \in Gui : said[g] = "stopped" => fresh[g] = {}

\* Every credential a mint of this directory has held is in the digests before
\* the next one replaces it ("NOW rather than the first time someone views the
\* log", _start).
CredentialsRemembered ==
    [][\A m \in Mint : token = m /\ token' # m => m \in digests]_token
=============================================================================
