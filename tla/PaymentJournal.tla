--------------------------- MODULE PaymentJournal ---------------------------
(***************************************************************************)
(* The desktop wallet's record of its payments: gui/walletops.py on top of *)
(* the wallet's store, driven by the wallet routes of gui/app.py.          *)
(*                                                                         *)
(* A payment is one wallet_ops row and one token string.  Three files tell *)
(* its story: the store (op, row), the cause rows written into it when     *)
(* pay() raised (stranded), and the journal beside it (record, intended).  *)
(* None of them is written in one transaction with another, the GUI can    *)
(* die between any two writes, and the mint can be stopped with a request  *)
(* under way.  A request does not outlive the call that sent it.           *)
(***************************************************************************)
EXTENDS Integers, FiniteSets

CONSTANTS
    Payment,      \* the payments of the paying wallet
    NULL,
    MaxCrashes,   \* bound: deaths of the GUI
    MaxStops      \* bound: stops of the mint

VARIABLES
    up,         \* does the mint's process run?
    op,         \* of each payment, its wallet_ops state
    row,        \* the state of its string in wallet_tokens
    ledger,     \* the mint's entry: absent, unspent, or who consumed it
    stranded,   \* payments with a cause row
    intended,   \* payments with an intent row
    record,     \* the payment record, NULL for none
    outside,    \* strings somebody besides the paying wallet has held
    credited,   \* payments the payee's wallet holds as its own coins
    payer,      \* the call under way on the paying wallet
    payee,      \* the receive() under way on the payee's wallet
    crashes, stops

files == <<op, row, stranded, intended, record>>
vars == <<up, op, row, ledger, stranded, intended, record, outside, credited,
          payer, payee, crashes, stops>>

How == {"bearer", "named", "deliver", "plain", "claimed"}
Cause == {"mint_unreachable", "mint_stopped", "mint_rejected", "already_spent"}
\* What the constants must be; the module that instantiates this one assumes it.
ConstantsOK == NULL \notin Cause
NoCall == [at |-> "idle", of |-> NULL, how |-> NULL, told |-> NULL, was |-> NULL]
\* What a call has been told, and what the ledger said of the string then.
Told(call, what) == [call EXCEPT !.at = "told", !.told = what, !.was = ledger[call.of]]

Init ==
    /\ up = TRUE
    /\ op = [o \in Payment |-> "none"]
    /\ row = [o \in Payment |-> "none"]
    /\ ledger = [o \in Payment |-> "absent"]
    /\ stranded = {} /\ intended = {}
    /\ record = [o \in Payment |-> NULL]
    /\ outside = {} /\ credited = {}
    /\ payer = NoCall /\ payee = NoCall
    /\ crashes = 0 /\ stops = 0

\* _write: a failure to write beside the store is swallowed.
BestEffort(before, after) == {before, after}

----------------------------------------------------------------------------
\* _unavailable: nobody answered.  Whether the request landed is not known; that
\* the process is gone is known from gui/mintctl.py.
Unavailable == IF up THEN "mint_unreachable" ELSE "mint_stopped"

\* _wallet_lock: a receive that names a payment holds the paying wallet's lock
\* as well as its own, and so does a payment that delivers.
PayerFree == payer.at = "idle" /\ (payee.at # "idle" => payee.how = "plain")
PayeeFree == payee.at = "idle" /\ (payer.at # "idle" => payer.how # "deliver")

\* pay: the plan is on disk before the exchange is sent.
Pay(o, how) ==
    /\ PayerFree /\ up /\ op[o] = "none"
    /\ how = "deliver" => PayeeFree
    /\ payer' = [NoCall EXCEPT !.at = "sent", !.of = o, !.how = how]
    /\ op' = [op EXCEPT ![o] = "planned"]
    /\ row' = [row EXCEPT ![o] = "pending"]
    /\ UNCHANGED <<up, ledger, stranded, intended, record, outside, credited,
                   payee, crashes, stops>>

PayCommits ==
    /\ payer.at = "sent" /\ up /\ ledger[payer.of] = "absent"
    /\ ledger' = [ledger EXCEPT ![payer.of] = "unspent"]
    /\ UNCHANGED <<up, files, outside, credited, payer, payee, crashes, stops>>

PayAnswered ==
    /\ payer.at = "sent" /\ ledger[payer.of] = "unspent"
    /\ payer' = [payer EXCEPT !.at = "answered"]
    /\ op' = [op EXCEPT ![payer.of] = "done"]
    /\ row' = [row EXCEPT ![payer.of] = "handed_over"]
    /\ UNCHANGED <<up, ledger, stranded, intended, record, outside, credited,
                   payee, crashes, stops>>

PayRefused ==
    /\ payer.at = "sent" /\ up /\ ledger[payer.of] = "absent"
    /\ payer' = [payer EXCEPT !.at = "raising", !.told = "mint_rejected"]
    /\ op' = [op EXCEPT ![payer.of] = "failed"]
    /\ row' = [row EXCEPT ![payer.of] = "orphan"]
    /\ UNCHANGED <<up, ledger, stranded, intended, record, outside, credited,
                   payee, crashes, stops>>

PayUnanswered ==
    /\ payer.at = "sent"
    /\ payer' = [payer EXCEPT !.at = "raising", !.told = Unavailable]
    /\ UNCHANGED <<up, files, ledger, outside, credited, payee, crashes, stops>>

\* pay raises: _settle_cause, then the intent.  Either may fail.
SettleCause ==
    /\ payer.at = "raising"
    /\ stranded' \in BestEffort(stranded, stranded \cup {payer.of})
    /\ payer' = [payer EXCEPT !.at = "intending"]
    /\ UNCHANGED <<up, op, row, ledger, intended, record, outside, credited,
                   payee, crashes, stops>>
Intend ==
    /\ payer.at = "intending"
    /\ intended' \in BestEffort(intended, intended \cup {payer.of})
    /\ payer' = NoCall
    /\ UNCHANGED <<up, op, row, ledger, stranded, record, outside, credited,
                   payee, crashes, stops>>

\* _PaymentJournal.begin: before any delivery, and best effort too.
Begun(how) ==
    [delivery |-> "unknown", cause |-> NULL, was |-> NULL,
     attempt |-> IF how = "deliver" THEN "attempted" ELSE "not_attempted"]
Begin ==
    /\ payer.at = "answered"
    /\ record' \in BestEffort(record, [record EXCEPT ![payer.of] = Begun(payer.how)])
    /\ payer' = [payer EXCEPT !.at = "recorded"]
    /\ UNCHANGED <<up, op, row, ledger, stranded, intended, outside, credited,
                   payee, crashes, stops>>

\* The strings leave: to the caller, or into the payee's receive().
HandOver ==
    /\ payer.at = "recorded"
    /\ outside' = outside \cup {payer.of}
    /\ IF payer.how = "deliver"
       THEN /\ payer' = [payer EXCEPT !.at = "delivering"]
            /\ payee' = [NoCall EXCEPT !.at = "opening", !.of = payer.of, !.how = "deliver"]
       ELSE payer' = NoCall /\ UNCHANGED payee
    /\ UNCHANGED <<up, files, ledger, credited, crashes, stops>>

----------------------------------------------------------------------------
\* POST /api/wallet/receive: the payee pastes a string, and may name the payment.
Receive(o, how) ==
    /\ PayeeFree /\ up /\ o \in outside
    /\ how = "claimed" => payer.at = "idle"
    /\ payee' = [NoCall EXCEPT !.at = "opening", !.of = o, !.how = how]
    /\ UNCHANGED <<up, files, ledger, outside, credited, payer, crashes, stops>>

\* receive reads the descriptor first: a mint that is down has been sent nothing.
TakeOpens ==
    /\ payee.at = "opening"
    /\ payee' = IF up THEN [payee EXCEPT !.at = "sent"] ELSE Told(payee, Unavailable)
    /\ UNCHANGED <<up, files, ledger, outside, credited, payer, crashes, stops>>

TakeCommits ==
    /\ payee.at = "sent" /\ up /\ ledger[payee.of] = "unspent"
    /\ ledger' = [ledger EXCEPT ![payee.of] = "payee"]
    /\ payee' = [payee EXCEPT !.at = "consumed"]
    /\ UNCHANGED <<up, files, outside, credited, payer, crashes, stops>>

TakeAnswered ==
    /\ payee.at = "consumed"
    /\ credited' = credited \cup {payee.of}
    /\ payee' = Told(payee, "accepted")
    /\ UNCHANGED <<up, files, ledger, outside, payer, crashes, stops>>

TakeRefused ==
    /\ payee.at = "sent" /\ up
    /\ \/ /\ ledger[payee.of] # "unspent"
          /\ payee' = Told(payee, "already_spent")
       \/ /\ ledger[payee.of] = "unspent"
          /\ payee' = Told(payee, "mint_rejected")
    /\ UNCHANGED <<up, files, ledger, outside, credited, payer, crashes, stops>>

TakeUnanswered ==
    /\ payee.at \in {"sent", "consumed"}
    /\ payee' = Told(payee, Unavailable)
    /\ UNCHANGED <<up, files, ledger, outside, credited, payer, crashes, stops>>

\* The payee's recover(): an exchange that landed after all is credited.
PayeeRecovers(o) ==
    /\ PayeeFree /\ up /\ ledger[o] = "payee"
    /\ credited' = credited \cup {o}
    /\ UNCHANGED <<up, files, ledger, outside, payer, payee, crashes, stops>>

----------------------------------------------------------------------------
\* _delivery_from_result, _delivery_from_error, _outcome_for.
Outcome(told) ==
    CASE told = "accepted" -> "delivered"
      [] told = "mint_unreachable" -> "unknown"
      [] OTHER -> "undelivered"

\* settle: one UPDATE, of a row that still reads unknown.
SettledAlways(o, told, was) ==   \* mutant: a later opinion overwrites
    [record EXCEPT ![o].delivery = Outcome(told),
                   ![o].cause = IF told = "accepted" THEN NULL ELSE told,
                   ![o].was = was]
Settled(o, told, was) ==
    IF record[o].delivery = "unknown"
    THEN [record EXCEPT ![o].delivery = Outcome(told),
                        ![o].cause = IF told = "accepted" THEN NULL ELSE told,
                        ![o].was = was]
    ELSE record

\* receive returns: the delivering payer, or the route for a caller that named
\* the payment (settle_delivery), records what was watched.  Best effort.
Settle ==
    /\ payee.at = "told"
    /\ IF payee.how = "plain" \/ record[payee.of] = NULL
       THEN record' = record
       ELSE record' \in BestEffort(record, Settled(payee.of, payee.told, payee.was))
    /\ payee' = NoCall
    /\ payer' = IF payee.how = "deliver" THEN NoCall ELSE payer
    /\ UNCHANGED <<up, op, row, ledger, stranded, intended, outside, credited,
                   crashes, stops>>

----------------------------------------------------------------------------
RecoverHandsOver(o) ==   \* mutant: recovery settles a payment as its answer would
    /\ PayerFree /\ up /\ op[o] = "planned"
    /\ op' = [op EXCEPT ![o] = IF ledger[o] # "absent" THEN "done" ELSE "failed"]
    /\ row' = [row EXCEPT ![o] = IF ledger[o] # "absent" THEN "handed_over" ELSE "orphan"]
    /\ UNCHANGED <<up, ledger, stranded, intended, record, outside, credited,
                   payer, payee, crashes, stops>>
\* recover() of the paying wallet, one operation at a time: an output of a
\* payment that was never returned goes back to the pool.
Recover(o) ==
    /\ PayerFree /\ up /\ op[o] = "planned"
    /\ op' = [op EXCEPT ![o] = IF ledger[o] # "absent" THEN "done" ELSE "failed"]
    /\ row' = [row EXCEPT ![o] = IF ledger[o] # "absent" THEN "confirmed" ELSE "orphan"]
    /\ UNCHANGED <<up, ledger, stranded, intended, record, outside, credited,
                   payer, payee, crashes, stops>>

\* A recovered string is spent like any coin.  The row is retired with the
\* answer, which may be lost; recover() or the next attempt then retires it.
Respend(o) ==
    /\ PayerFree /\ up /\ row[o] = "confirmed"
    /\ ledger' = [ledger EXCEPT ![o] = IF @ = "unspent" THEN "payer" ELSE @]
    /\ row' \in {[row EXCEPT ![o] = "spent_out"], row}
    /\ UNCHANGED <<up, op, stranded, intended, record, outside, credited,
                   payer, payee, crashes, stops>>

\* The paying wallet receives its own string: taken back, or found to be spent;
\* either way its copy is retired.
PasteBack(o) ==
    /\ PayerFree /\ up /\ o \in outside /\ row[o] = "handed_over"
    /\ ledger' = [ledger EXCEPT ![o] = IF @ = "unspent" THEN "payer" ELSE @]
    /\ row' = [row EXCEPT ![o] = "spent_out"]
    /\ UNCHANGED <<up, op, stranded, intended, record, outside, credited,
                   payer, payee, crashes, stops>>

\* Whoever else holds a string can redeem it.
OtherRedeems(o) ==
    /\ up /\ o \in outside /\ ledger[o] = "unspent"
    /\ ledger' = [ledger EXCEPT ![o] = "other"]
    /\ UNCHANGED <<up, files, outside, credited, payer, payee, crashes, stops>>

\* The GUI dies, with every call under way, and is started again.
Crash ==
    /\ crashes < MaxCrashes
    /\ payer.at # "idle" \/ payee.at # "idle"
    /\ crashes' = crashes + 1
    /\ payer' = NoCall /\ payee' = NoCall
    /\ UNCHANGED <<up, files, ledger, outside, credited, stops>>

MintStops ==
    /\ up /\ stops < MaxStops
    /\ up' = FALSE /\ stops' = stops + 1
    /\ UNCHANGED <<files, ledger, outside, credited, payer, payee, crashes>>
MintStarts ==
    /\ ~up /\ up' = TRUE
    /\ UNCHANGED <<files, ledger, outside, credited, payer, payee, crashes, stops>>

Next ==
    \/ \E o \in Payment, how \in {"bearer", "named", "deliver"} : Pay(o, how)
    \/ PayCommits \/ PayAnswered \/ PayRefused \/ PayUnanswered
    \/ SettleCause \/ Intend \/ Begin \/ HandOver
    \/ \E o \in Payment, how \in {"plain", "claimed"} : Receive(o, how)
    \/ TakeOpens \/ TakeCommits \/ TakeAnswered \/ TakeRefused \/ TakeUnanswered
    \/ Settle
    \/ \E o \in Payment : PayeeRecovers(o) \/ Recover(o) \/ Respend(o)
                          \/ PasteBack(o) \/ OtherRedeems(o)
    \/ Crash \/ MintStops \/ MintStarts
Spec == Init /\ [][Next]_vars

----------------------------------------------------------------------------
TypeOK ==
    /\ up \in BOOLEAN
    /\ op \in [Payment -> {"none", "planned", "done", "failed"}]
    /\ row \in [Payment -> {"none", "pending", "handed_over", "confirmed", "spent_out", "orphan"}]
    /\ ledger \in [Payment -> {"absent", "unspent", "payer", "payee", "other"}]
    /\ stranded \cup intended \cup outside \cup credited \subseteq Payment
    /\ payer.at \in {"idle", "sent", "answered", "raising", "intending", "recorded", "delivering"}
    /\ payee.at \in {"idle", "opening", "sent", "consumed", "told"}
    /\ {payer.how, payee.how} \subseteq How \cup {NULL}
    /\ {payer.told, payee.told} \subseteq Cause \cup {NULL, "accepted"}

\* unredeemed_payments: a committed payment handed its string over unless pay()
\* raised on it or its string is back in the pool.
Recovered == {o \in Payment : op[o] = "done" /\ (row[o] = "confirmed" \/ o \in stranded)}
Listed == {o \in Payment : op[o] = "done"} \ Recovered

\* The report of what was handed over, whatever was lost in between: every string
\* anybody outside has held is listed, none of those is reported as recovered,
\* and no string the mint calls unspent is at once counted as handed over and
\* held in the wallet's own balance, or in neither.
ReportHonest ==
    /\ outside \subseteq Listed
    /\ \A o \in Listed : ledger[o] = "unspent" => row[o] = "handed_over"
    /\ \A o \in Recovered : ledger[o] = "unspent" => row[o] = "confirmed"

\* The payment record says only what was watched and never takes it back: once
\* "delivered" it stays so and the payee has been credited; a refusal as already
\* spent is of a string the mint had consumed.
RecordKept ==
    \A o \in Payment : record[o] # NULL =>
        /\ record[o].delivery # "unknown" => record'[o] = record[o]
        /\ record'[o].delivery = "delivered" => o \in credited'
        /\ record'[o].cause = "already_spent" => ledger'[o] # "unspent"
JournalHonest == [][RecordKept]_vars

\* _REFUSED_VALUE_LIVE: a record that gives one of these causes for a refusal
\* says nothing consumed the string, which was then still the payer's money.
RefusedValueLive ==
    \A o \in Payment : record[o] # NULL =>
        (record[o].delivery = "undelivered" /\ record[o].cause # "already_spent"
           => record[o].was = "unspent")
=============================================================================
