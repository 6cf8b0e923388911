---------------------------- MODULE ProgramProofs ---------------------------
(***************************************************************************)
(* Theorems about modules Clients and Programs: the desktop wallet's       *)
(* record of its payments, a connection to an HTTP server, the launcher of *)
(* a mint, the desktop's control of it, and the bearer wallet.  They share *)
(* no state: each has its own invariant, and a theorem about a composition *)
(* carries that of one of them over to the specification TLC runs.         *)
(***************************************************************************)
EXTENDS Clients, Programs, Sequences, FiniteSets, FiniteSetTheorems, TLAPS

-----------------------------------------------------------------------------
(***************************************************************************)
(* PaymentJournal.                                                         *)
(***************************************************************************)
Entry == {"absent", "unspent", "payer", "payee", "other"}
Said == {"mint_unreachable", "mint_stopped", "mint_rejected", "already_spent", "accepted"}
Slip == [delivery : {"unknown", "delivered", "undelivered"}, cause : Said \cup {NULL},
         was : Entry \cup {NULL}, attempt : {"attempted", "not_attempted"}]
Ways == {"bearer", "named", "deliver", "plain", "claimed"} \cup {NULL}
CallAt(places) ==
  [at : places, of : Payment \cup {NULL}, how : Ways, told : Said \cup {NULL},
   was : Entry \cup {NULL}]

TablesTyped ==
  /\ op \in [Payment -> {"none", "planned", "done", "failed"}]
  /\ row \in [Payment -> {"none", "pending", "handed_over", "confirmed", "spent_out", "orphan"}]
  /\ ledger \in [Payment -> Entry]
PayerTyped ==
  /\ payer \in CallAt({"idle", "sent", "answered", "raising", "intending", "recorded", "delivering"})
  /\ payer.at # "idle" => payer.of \in Payment
PayeeTyped ==
  /\ payee \in CallAt({"idle", "opening", "sent", "consumed", "told"})
  /\ payee.at # "idle" => payee.of \in Payment
RecordTyped == record \in [Payment -> Slip \cup {NULL}]
JournalTyped == TablesTyped /\ PayerTyped /\ PayeeTyped /\ RecordTyped

\* A string the mint has an entry for and somebody has spent.
Consumed(o) == ledger[o] \notin {"absent", "unspent"}

\* What the rows of a payment say together, wherever its call is.
RowsAgree ==
  /\ outside \subseteq Payment
  /\ \A o \in Payment :
      /\ op[o] \in {"none", "planned"} => row[o] \in {"none", "pending"}
      /\ op[o] = "none" => o \notin stranded
      /\ op[o] # "done" => /\ record[o] = NULL /\ o \notin outside
                           /\ row[o] \notin {"handed_over", "confirmed", "spent_out"}
      /\ op[o] = "done" => /\ ledger[o] # "absent"
                           /\ row[o] \in {"handed_over", "confirmed", "spent_out"}
      /\ row[o] = "spent_out" => Consumed(o)
      /\ o \in stranded => row[o] # "handed_over"
      /\ o \in outside => row[o] # "confirmed" /\ o \notin stranded

\* What the paying call knows of the payment it is for.
PayerPlaced ==
  /\ payer.at = "sent" => op[payer.of] = "planned" /\ payer.of \notin stranded
  /\ payer.at \in {"raising", "intending"} => op[payer.of] \in {"planned", "failed"}
  /\ payer.at \in {"answered", "recorded"} =>
       op[payer.of] = "done" /\ row[payer.of] = "handed_over"
  /\ payer.at = "answered" => record[payer.of] = NULL

\* What the payee was told is so.
PayeePlaced ==
  /\ payee.at # "idle" => payee.of \in outside
  /\ payee.at = "told" => /\ payee.told = "accepted" => payee.of \in credited
                          /\ payee.told = "already_spent" => Consumed(payee.of)

\* What a payment record says is so.
Vouched(o) ==
  /\ record[o].delivery = "delivered" => o \in credited
  /\ record[o].cause = "already_spent" => Consumed(o)
RecordsVouched == \A o \in Payment : record[o] # NULL => Vouched(o)

JournalInv == JournalTyped /\ RowsAgree /\ PayerPlaced /\ PayeePlaced /\ RecordsVouched

-----------------------------------------------------------------------------
LEMMA JournalInit ==
  ASSUME Journal!Init
  PROVE  JournalInv
<1> USE DEF Journal!Init, Journal!NoCall
<1>1. TablesTyped /\ RecordTyped
  BY DEF TablesTyped, RecordTyped, Entry
<1>2. PayerTyped /\ PayeeTyped
  BY DEF PayerTyped, PayeeTyped, CallAt, Ways
<1>3. RowsAgree /\ PayerPlaced /\ PayeePlaced /\ RecordsVouched
  BY DEF RowsAgree, PayerPlaced, PayeePlaced, RecordsVouched
<1> QED
  BY <1>1, <1>2, <1>3 DEF JournalInv, JournalTyped

\* The types are kept, one table at a time.
LEMMA JournalTypes ==
  ASSUME JournalTyped, [Journal!Next]_(Journal!vars)
  PROVE  JournalTyped'
<1>1. TablesTyped'
  <2> USE DEF JournalTyped, TablesTyped, Entry, Journal!files
  <2>1. CASE UNCHANGED <<op, row, ledger>>
    BY <2>1
  <2>2. ASSUME NEW o \in Payment, NEW how \in {"bearer", "named", "deliver"}, Journal!Pay(o, how)
        PROVE  TablesTyped'
    BY <2>2 DEF Journal!Pay
  <2>3. CASE Journal!PayCommits \/ Journal!PayAnswered \/ Journal!PayRefused \/ Journal!TakeCommits
    BY <2>3 DEF Journal!PayCommits, Journal!PayAnswered, Journal!PayRefused, Journal!TakeCommits
  <2>4. ASSUME NEW o \in Payment,
               Journal!Recover(o) \/ Journal!Respend(o) \/ Journal!PasteBack(o)
                 \/ Journal!OtherRedeems(o)
        PROVE  TablesTyped'
    BY <2>4 DEF Journal!Recover, Journal!Respend, Journal!PasteBack, Journal!OtherRedeems
  <2> QED
    BY <2>1, <2>2, <2>3, <2>4, Zenon
       DEF Journal!Next, Journal!vars, Journal!PayUnanswered, Journal!SettleCause, Journal!Intend,
           Journal!Begin, Journal!HandOver, Journal!Receive, Journal!TakeOpens,
           Journal!TakeAnswered, Journal!TakeRefused, Journal!TakeUnanswered, Journal!Settle,
           Journal!PayeeRecovers, Journal!Crash, Journal!MintStops, Journal!MintStarts
<1>2. PayerTyped'
  <2> USE DEF JournalTyped, PayerTyped, CallAt, Ways, Journal!NoCall
  <2>1. CASE UNCHANGED payer
    BY <2>1
  <2>2. CASE payer' = Journal!NoCall
    BY <2>2
  <2>3. ASSUME NEW o \in Payment, NEW how \in {"bearer", "named", "deliver"}, Journal!Pay(o, how)
        PROVE  PayerTyped'
    BY <2>3 DEF Journal!Pay
  <2>4. CASE Journal!PayAnswered \/ Journal!SettleCause \/ Journal!Begin \/ Journal!HandOver
    BY <2>4 DEF Journal!PayAnswered, Journal!SettleCause, Journal!Begin, Journal!HandOver
  <2>5. CASE Journal!PayRefused \/ Journal!PayUnanswered
    BY <2>5 DEF Journal!PayRefused, Journal!PayUnanswered, Journal!Unavailable, Said
  <2> QED
    BY <2>1, <2>2, <2>3, <2>4, <2>5, Zenon
       DEF Journal!Next, Journal!vars, Journal!PayCommits, Journal!Intend, Journal!Receive,
           Journal!TakeOpens, Journal!TakeCommits, Journal!TakeAnswered, Journal!TakeRefused,
           Journal!TakeUnanswered, Journal!Settle, Journal!PayeeRecovers, Journal!Recover,
           Journal!Respend, Journal!PasteBack, Journal!OtherRedeems, Journal!Crash,
           Journal!MintStops, Journal!MintStarts
<1>3. PayeeTyped'
  <2> USE DEF JournalTyped, PayeeTyped, Journal!NoCall
  <2>1. CASE UNCHANGED payee
    BY <2>1
  <2>2. CASE payee' = Journal!NoCall
    BY <2>2 DEF CallAt, Ways
  <2>3. CASE Journal!HandOver
    BY ZenonT(60), <2>3 DEF Journal!HandOver, PayerTyped, CallAt, Ways
  <2>4. ASSUME NEW o \in Payment, NEW how \in {"plain", "claimed"}, Journal!Receive(o, how)
        PROVE  PayeeTyped'
    BY <2>4 DEF Journal!Receive, CallAt, Ways
  <2>5. ASSUME NEW what \in Said, payee.at # "idle", payee' = Journal!Told(payee, what)
        PROVE  PayeeTyped'
    <3>1. ledger[payee.of] \in Entry
      BY <2>5 DEF TablesTyped
    <3> QED
      BY <2>5, <3>1 DEF Journal!Told, CallAt
  <2>6. CASE Journal!TakeOpens \/ Journal!TakeCommits
    <3>1. CASE payee' = [payee EXCEPT !.at = "sent"] /\ payee.at # "idle"
      BY <3>1 DEF CallAt
    <3>2. CASE Journal!TakeCommits
      BY <3>2 DEF Journal!TakeCommits, CallAt
    <3>3. CASE Journal!TakeOpens
      BY <2>5, <3>1, <3>3 DEF Journal!TakeOpens, Journal!Unavailable, Said
    <3> QED
      BY <2>6, <3>2, <3>3
  <2>7. CASE Journal!TakeAnswered \/ Journal!TakeRefused \/ Journal!TakeUnanswered
    BY <2>5, <2>7 DEF Journal!TakeAnswered, Journal!TakeRefused, Journal!TakeUnanswered,
                      Journal!Unavailable, Said
  <2> QED
    BY <2>1, <2>2, <2>3, <2>4, <2>6, <2>7, Zenon
       DEF Journal!Next, Journal!vars, Journal!Pay, Journal!PayCommits, Journal!PayAnswered,
           Journal!PayRefused, Journal!PayUnanswered, Journal!SettleCause, Journal!Intend,
           Journal!Begin, Journal!Settle, Journal!PayeeRecovers, Journal!Recover,
           Journal!Respend, Journal!PasteBack, Journal!OtherRedeems, Journal!Crash,
           Journal!MintStops, Journal!MintStarts
<1>4. RecordTyped'
  <2> USE DEF JournalTyped, RecordTyped
  <2>1. CASE UNCHANGED record
    BY <2>1
  <2>2. CASE Journal!Begin
    BY <2>2 DEF Journal!Begin, Journal!Begun, Journal!BestEffort, Slip, Entry
  <2>3. CASE Journal!Settle
    <3>1. CASE record' = record
      BY <3>1
    <3>2. CASE /\ payee.at = "told" /\ record[payee.of] # NULL
               /\ record' = Journal!Settled(payee.of, payee.told, payee.was)
      <4>1. payee.of \in Payment /\ payee.told \in Said \cup {NULL} /\ payee.was \in Entry \cup {NULL}
        BY <3>2 DEF PayeeTyped, CallAt
      <4>2. record[payee.of] \in Slip
        BY <3>2, <4>1
      <4>3. Journal!Outcome(payee.told) \in {"unknown", "delivered", "undelivered"}
        BY DEF Journal!Outcome
      <4> QED
        BY <3>2, <4>1, <4>2, <4>3 DEF Journal!Settled, Slip
    <3> QED
      BY <2>3, <3>1, <3>2 DEF Journal!Settle, Journal!BestEffort
  <2> QED
    BY <2>1, <2>2, <2>3, Zenon
       DEF Journal!Next, Journal!vars, Journal!files, Journal!Pay, Journal!PayCommits,
           Journal!PayAnswered, Journal!PayRefused, Journal!PayUnanswered, Journal!SettleCause,
           Journal!Intend, Journal!HandOver, Journal!Receive, Journal!TakeOpens,
           Journal!TakeCommits, Journal!TakeAnswered, Journal!TakeRefused,
           Journal!TakeUnanswered, Journal!PayeeRecovers, Journal!Recover, Journal!Respend,
           Journal!PasteBack, Journal!OtherRedeems, Journal!Crash, Journal!MintStops,
           Journal!MintStarts
<1> QED
  BY <1>1, <1>2, <1>3, <1>4 DEF JournalTyped

\* A record, once it says anything, is not rewritten; and what it says is so.
Witnessed ==
  \A o \in Payment : record[o] # NULL =>
    /\ record[o].delivery # "unknown" => record'[o] = record[o]
    /\ Vouched(o)'

\* The three files, the mint and the calls stay in step, call by call.
LEMMA JournalStep ==
  ASSUME Journal!ConstantsOK, JournalInv, [Journal!Next]_(Journal!vars)
  PROVE  RowsAgree' /\ PayerPlaced' /\ PayeePlaced' /\ RecordsVouched' /\ Witnessed
<1>1. JournalTyped /\ JournalTyped'
  BY JournalTypes DEF JournalInv
<1>2. /\ DOMAIN op = Payment /\ DOMAIN row = Payment /\ DOMAIN ledger = Payment
      /\ DOMAIN record = Payment
      /\ payer.at # "idle" => payer.of \in Payment
      /\ payee.at # "idle" => payee.of \in Payment
  BY <1>1 DEF JournalTyped, TablesTyped, RecordTyped, PayerTyped, PayeeTyped
<1> DEFINE Kept == RowsAgree' /\ PayerPlaced' /\ PayeePlaced' /\ RecordsVouched' /\ Witnessed
<1> USE DEF JournalInv, RowsAgree, PayerPlaced, PayeePlaced, RecordsVouched, Vouched,
        Witnessed, Consumed, Journal!files, Journal!NoCall
<1>3. CASE UNCHANGED Journal!vars
  BY <1>3 DEF Journal!vars
<1>4. ASSUME NEW o \in Payment, NEW how \in {"bearer", "named", "deliver"}, Journal!Pay(o, how)
      PROVE  Kept
  BY <1>1, <1>2, <1>4 DEF Journal!Pay
<1>5. CASE Journal!PayCommits
  BY <1>1, <1>2, <1>5 DEF Journal!PayCommits
<1>6. CASE Journal!PayAnswered
  BY <1>1, <1>2, <1>6 DEF Journal!PayAnswered
<1>7. CASE Journal!PayRefused
  BY <1>1, <1>2, <1>7 DEF Journal!PayRefused
<1>8. CASE Journal!PayUnanswered
  BY <1>1, <1>2, <1>8 DEF Journal!PayUnanswered
<1>9. CASE Journal!SettleCause \/ Journal!Intend
  <2>1. CASE Journal!SettleCause
    BY <1>1, <1>2, <2>1 DEF Journal!SettleCause, Journal!BestEffort
  <2>2. CASE Journal!Intend
    BY <1>1, <1>2, <2>2 DEF Journal!Intend, Journal!BestEffort
  <2> QED
    BY <1>9, <2>1, <2>2
<1>10. CASE Journal!Begin
  BY <1>1, <1>2, <1>10 DEF Journal!ConstantsOK, Journal!Cause, Journal!Begin, Journal!Begun,
                           Journal!BestEffort
<1>11. CASE Journal!HandOver
  <2>1. UNCHANGED <<op, row, ledger, stranded, record, credited>>
    BY <1>11 DEF Journal!HandOver
  <2>2. /\ payer.at = "recorded" /\ payer.of \in Payment
        /\ outside' = outside \cup {payer.of} /\ payer'.at \in {"delivering", "idle"}
    BY <1>1, <1>2, <1>11 DEF Journal!HandOver, JournalTyped, PayerTyped, CallAt
  <2>3. payee' = payee \/ (payee'.at = "opening" /\ payee'.of = payer.of)
    BY <1>11 DEF Journal!HandOver
  <2>4. RowsAgree' /\ PayerPlaced'
    BY <1>2, <2>1, <2>2
  <2>5. PayeePlaced'
    BY <1>2, <2>1, <2>2, <2>3
  <2>6. RecordsVouched' /\ Witnessed
    BY <2>1
  <2> QED
    BY <2>4, <2>5, <2>6
<1>12. ASSUME NEW o \in Payment, NEW how \in {"plain", "claimed"}, Journal!Receive(o, how)
       PROVE  Kept
  BY <1>1, <1>2, <1>12 DEF Journal!Receive
<1>13. CASE Journal!TakeOpens \/ Journal!TakeUnanswered
  <2>1. CASE payee.at # "idle" /\ payee' = [payee EXCEPT !.at = "sent"]
    BY <1>1, <1>2, <1>13, <2>1 DEF Journal!TakeOpens, Journal!TakeUnanswered
  <2>2. CASE payee.at # "idle" /\ payee' = Journal!Told(payee, Journal!Unavailable)
    BY <1>1, <1>2, <1>13, <2>2
       DEF Journal!TakeOpens, Journal!TakeUnanswered, Journal!Told, Journal!Unavailable
  <2> QED
    BY <1>13, <2>1, <2>2 DEF Journal!TakeOpens, Journal!TakeUnanswered
<1>14. CASE Journal!TakeCommits
  BY <1>1, <1>2, <1>14 DEF Journal!TakeCommits
<1>15. CASE Journal!TakeAnswered
  BY <1>1, <1>2, <1>15 DEF Journal!TakeAnswered, Journal!Told
<1>16. CASE Journal!TakeRefused
  <2>1. /\ payee.at = "sent" /\ payee.of \in Payment /\ payee'.of = payee.of
        /\ payee'.told # "accepted"
        /\ payee'.told = "already_spent" => ledger[payee.of] # "unspent"
    BY <1>1, <1>2, <1>16
       DEF Journal!TakeRefused, Journal!Told, JournalTyped, PayeeTyped, CallAt
  <2>2. UNCHANGED <<op, row, ledger, stranded, record, outside, credited, payer>>
    BY <1>16 DEF Journal!TakeRefused
  <2>3. PayeePlaced'
    BY <1>2, <2>1, <2>2
  <2> QED
    BY <2>2, <2>3
<1>17. CASE Journal!Settle
  <2>1. /\ UNCHANGED <<op, row, ledger, stranded, outside, credited>>
        /\ payee.at = "told" /\ payee'.at = "idle"
        /\ payer' = payer \/ payer'.at = "idle"
    BY <1>17 DEF Journal!Settle
  <2>2. CASE record' = record
    BY <1>2, <2>1, <2>2
  <2>3. CASE record[payee.of] # NULL /\ record[payee.of].delivery = "unknown" /\ record' # record
    <3>1. PICK o \in Payment : o = payee.of
      BY <1>2, <2>1
    <3>2. record[o] \in Slip
      BY <1>1, <2>3, <3>1 DEF JournalTyped, RecordTyped
    <3>3. record' = [record EXCEPT ![o].delivery = Journal!Outcome(payee.told),
                                   ![o].cause = IF payee.told = "accepted" THEN NULL ELSE payee.told,
                                   ![o].was = payee.was]
      BY <1>17, <2>3, <3>1 DEF Journal!Settle, Journal!Settled, Journal!BestEffort
    <3>4. /\ record'[o].delivery = Journal!Outcome(payee.told)
          /\ record'[o].cause = IF payee.told = "accepted" THEN NULL ELSE payee.told
          /\ \A x \in Payment : x # o => record'[x] = record[x]
      BY <1>2, <3>2, <3>3 DEF Slip
    <3>5. Journal!Outcome(payee.told) = "delivered" => payee.told = "accepted"
      BY DEF Journal!Outcome
    <3>6. Vouched(o)'
      BY <2>1, <3>1, <3>4, <3>5 DEF Journal!ConstantsOK, Journal!Cause
    <3>7. RecordsVouched' /\ Witnessed
      BY <2>1, <2>3, <3>1, <3>4, <3>6
    <3>8. RowsAgree'
      BY <2>1, <2>3, <3>1, <3>4
    <3>9. PayerPlaced' /\ PayeePlaced'
      <4>1. payer'.at \in {"answered"} => payer.of # o
        BY <2>1, <2>3, <3>1
      <4> QED
        BY <1>2, <2>1, <3>4, <4>1
    <3> QED
      BY <3>7, <3>8, <3>9
  <2> QED
    BY <1>17, <2>2, <2>3 DEF Journal!Settle, Journal!Settled, Journal!BestEffort
<1>18. ASSUME NEW o \in Payment, Journal!PayeeRecovers(o)
       PROVE  Kept
  BY <1>1, <1>2, <1>18 DEF Journal!PayeeRecovers
<1>19. ASSUME NEW o \in Payment, Journal!Recover(o)
       PROVE  Kept
  BY <1>1, <1>2, <1>19 DEF Journal!Recover, Journal!PayerFree
<1>20. ASSUME NEW o \in Payment, Journal!Respend(o)
       PROVE  Kept
  BY <1>1, <1>2, <1>20 DEF Journal!Respend, Journal!PayerFree
<1>21. ASSUME NEW o \in Payment, Journal!PasteBack(o)
       PROVE  Kept
  BY <1>1, <1>2, <1>21 DEF Journal!PasteBack, Journal!PayerFree
<1>22. ASSUME NEW o \in Payment, Journal!OtherRedeems(o)
       PROVE  Kept
  BY <1>1, <1>2, <1>22 DEF Journal!OtherRedeems
<1>23. CASE Journal!Crash \/ Journal!MintStops \/ Journal!MintStarts
  BY <1>1, <1>2, <1>23 DEF Journal!Crash, Journal!MintStops, Journal!MintStarts
<1> QED
  BY <1>3, <1>4, <1>5, <1>6, <1>7, <1>8, <1>9, <1>10, <1>11, <1>12, <1>13, <1>14, <1>15,
     <1>16, <1>17, <1>18, <1>19, <1>20, <1>21, <1>22, <1>23, Zenon DEF Journal!Next

\* The rest of the types: the sets of payments, and whether the mint answers.
SetsTyped ==
  /\ up \in BOOLEAN
  /\ stranded \subseteq Payment /\ intended \subseteq Payment /\ credited \subseteq Payment

LEMMA SetsStep ==
  ASSUME JournalTyped, SetsTyped, [Journal!Next]_(Journal!vars)
  PROVE  SetsTyped'
<1> USE DEF JournalTyped, PayerTyped, PayeeTyped, SetsTyped, Journal!files
<1>1. up' \in BOOLEAN
  <2>1. CASE Journal!MintStops \/ Journal!MintStarts
    BY <2>1, Zenon DEF Journal!MintStops, Journal!MintStarts
  <2>2. CASE up' = up
    BY <2>2, Zenon
  <2> QED
    BY <2>1, <2>2, Zenon
       DEF Journal!Next, Journal!vars, Journal!Pay, Journal!PayCommits, Journal!PayAnswered,
           Journal!PayRefused, Journal!PayUnanswered, Journal!SettleCause, Journal!Intend,
           Journal!Begin, Journal!HandOver, Journal!Receive, Journal!TakeOpens,
           Journal!TakeCommits, Journal!TakeAnswered, Journal!TakeRefused,
           Journal!TakeUnanswered, Journal!Settle, Journal!PayeeRecovers, Journal!Recover,
           Journal!Respend, Journal!PasteBack, Journal!OtherRedeems, Journal!Crash
<1>2. stranded' \subseteq Payment /\ intended' \subseteq Payment
  <2>1. CASE Journal!SettleCause
    BY <2>1 DEF Journal!SettleCause, Journal!BestEffort
  <2>2. CASE Journal!Intend
    BY <2>2 DEF Journal!Intend, Journal!BestEffort
  <2>3. CASE UNCHANGED <<stranded, intended>>
    BY <2>3
  <2> QED
    BY <2>1, <2>2, <2>3, Zenon
       DEF Journal!Next, Journal!vars, Journal!Pay, Journal!PayCommits, Journal!PayAnswered,
           Journal!PayRefused, Journal!PayUnanswered,
           Journal!Begin, Journal!HandOver, Journal!Receive, Journal!TakeOpens,
           Journal!TakeCommits, Journal!TakeAnswered, Journal!TakeRefused,
           Journal!TakeUnanswered, Journal!Settle, Journal!PayeeRecovers, Journal!Recover,
           Journal!Respend, Journal!PasteBack, Journal!OtherRedeems, Journal!Crash,
           Journal!MintStops, Journal!MintStarts
<1>3. credited' \subseteq Payment
  <2>1. CASE Journal!TakeAnswered
    BY <2>1 DEF Journal!TakeAnswered
  <2>2. ASSUME NEW o \in Payment, Journal!PayeeRecovers(o) PROVE credited' \subseteq Payment
    BY <2>2 DEF Journal!PayeeRecovers
  <2>3. CASE UNCHANGED credited
    BY <2>3
  <2> QED
    BY <2>1, <2>2, <2>3, Zenon
       DEF Journal!Next, Journal!vars, Journal!Pay, Journal!PayCommits, Journal!PayAnswered,
           Journal!PayRefused, Journal!PayUnanswered, Journal!SettleCause, Journal!Intend,
           Journal!Begin, Journal!HandOver, Journal!Receive, Journal!TakeOpens,
           Journal!TakeCommits, Journal!TakeRefused, Journal!TakeUnanswered,
           Journal!Settle, Journal!Recover, Journal!Respend, Journal!PasteBack,
           Journal!OtherRedeems, Journal!Crash, Journal!MintStops, Journal!MintStarts
<1> QED
  BY <1>1, <1>2, <1>3

LEMMA JournalTypeOK ==
  ASSUME JournalInv, SetsTyped
  PROVE  Journal!TypeOK
<1>1. /\ up \in BOOLEAN /\ TablesTyped /\ PayerTyped /\ PayeeTyped
      /\ stranded \cup intended \cup outside \cup credited \subseteq Payment
  BY DEF JournalInv, JournalTyped, RowsAgree, SetsTyped
<1>2. /\ payer.at \in {"idle", "sent", "answered", "raising", "intending", "recorded", "delivering"}
      /\ payee.at \in {"idle", "opening", "sent", "consumed", "told"}
      /\ {payer.how, payee.how} \subseteq Journal!How \cup {NULL}
      /\ {payer.told, payee.told} \subseteq Journal!Cause \cup {NULL, "accepted"}
  BY <1>1 DEF PayerTyped, PayeeTyped, CallAt, Ways, Said, Journal!How, Journal!Cause
<1> QED
  BY <1>1, <1>2 DEF TablesTyped, Entry, Journal!TypeOK

LEMMA JournalHonestly ==
  ASSUME JournalInv
  PROVE  Journal!ReportHonest
<1>1. outside \subseteq Payment
  BY DEF JournalInv, RowsAgree
<1> QED
  BY <1>1 DEF JournalInv, RowsAgree, Consumed, Journal!ReportHonest, Journal!Listed,
              Journal!Recovered

\* The composition: a behaviour of the journal keeps its invariants.
LEMMA ClientJournal ==
  ASSUME Journal!ConstantsOK
  PROVE  ClientSpec => [](client = "journal" => JournalInv /\ SetsTyped)
<1>1. ClientInit => (client = "journal" => JournalInv /\ SetsTyped)
  <2> SUFFICES ASSUME ClientInit, client = "journal" PROVE JournalInv /\ SetsTyped
    OBVIOUS
  <2>1. Journal!Init
    BY Zenon DEF ClientInit
  <2>2. up \in BOOLEAN
    BY <2>1, Zenon DEF Journal!Init
  <2> QED
    BY <2>1, <2>2, JournalInit DEF Journal!Init, SetsTyped
<1>2. (client = "journal" => JournalInv /\ SetsTyped) /\ [ClientNext]_clientVars =>
        (client = "journal" => JournalInv /\ SetsTyped)'
  <2> SUFFICES ASSUME client = "journal" => JournalInv /\ SetsTyped,
                      [ClientNext]_clientVars, client' = "journal"
               PROVE  JournalInv' /\ SetsTyped'
    OBVIOUS
  <2>1. client = "journal" /\ [Journal!Next]_(Journal!vars)
    BY DEF ClientNext, clientVars, journalVars, Journal!vars
  <2> QED
    BY <2>1, JournalTypes, JournalStep, SetsStep DEF JournalInv
<1> QED
  BY <1>1, <1>2, PTL DEF ClientSpec

\* What the desktop reports as handed over is what left it: every string that
\* anybody outside has held is listed, none of them is reported as recovered, and
\* no live string is counted twice or not at all, wherever the GUI or the mint died
\* (unredeemed_payments, gui/walletops.py).
THEOREM ReportsAreHonest ==
  ASSUME Journal!ConstantsOK
  PROVE  ClientSpec => []ReportHonest
<1>1. (client = "journal" => JournalInv /\ SetsTyped) => ReportHonest
  BY JournalTypeOK, JournalHonestly DEF ReportHonest
<1> QED
  BY <1>1, ClientJournal, PTL

\* A payment record says only what was watched, and never takes it back (settle,
\* gui/walletops.py).
THEOREM RecordsAreKept ==
  ASSUME Journal!ConstantsOK
  PROVE  ClientSpec => JournalHonest
<1>1. JournalInv /\ [Journal!Next]_(Journal!vars) => [Journal!RecordKept]_(Journal!vars)
  BY JournalStep DEF JournalInv, Witnessed, Vouched, Consumed, Journal!RecordKept
<1>2. (client = "journal" => JournalInv /\ SetsTyped) /\ [ClientNext]_clientVars =>
        [client = "journal" => Journal!RecordKept]_clientVars
  <2> SUFFICES ASSUME client = "journal", JournalInv, ClientNext, ~UNCHANGED clientVars
               PROVE  Journal!RecordKept
    BY Zenon
  <2>1. Journal!Next /\ UNCHANGED httpVars /\ UNCHANGED client
    BY DEF ClientNext
  <2>2. ~UNCHANGED Journal!vars
    BY <2>1 DEF clientVars, journalVars, Journal!vars
  <2> QED
    BY <1>1, <2>1, <2>2
<1> QED
  BY <1>2, ClientJournal, PTL DEF ClientSpec, JournalHonest
-----------------------------------------------------------------------------
(***************************************************************************)
(* HttpConnection.                                                         *)
(***************************************************************************)
\* The steps from the head of a request to its answer.
Handling == {"head", "route", "body", "dispatch"}

HttpTyped ==
  /\ kind \in {"mint", "gui", "console"}
  /\ sent \in [1..Pipeline -> {r \in Http!Request : Http!WellMeant(r)}]
  /\ arrived \in Http!Place
  /\ pos \in Http!Place /\ (pos = <<1, 0>> \/ Http!Came(pos))
  /\ pc \in {"line", "done"} \cup Handling
  /\ cur \in 0..Pipeline
  /\ answers \in [0..Pipeline -> Nat]

\* Requests are answered in the order they came, one answer each.
InOrder ==
  \A i \in 1..Pipeline : /\ i < pos[1] => answers[i] = 1
                         /\ i > pos[1] => answers[i] = 0

\* Between two requests the last one was left either before its head, or at its
\* end: what comes next is never the inside of a body.
Between ==
  pc = "line" =>
    /\ pos[2] <= sent[pos[1]].empty \/ pos[2] = Http!Size(sent[pos[1]])
    /\ InOrder
    /\ answers[pos[1]] = IF pos[2] > sent[pos[1]].empty THEN 1 ELSE 0

\* A connection that will be kept has read the whole request it is about to answer.
Handled ==
  pc \in Handling =>
    /\ cur = pos[1] /\ InOrder /\ answers[cur] = 0
    /\ pc # "dispatch" => pos[2] = sent[cur].empty + 1
    /\ pc = "head" /\ kind = "console" => closing
    /\ pc = "route" => closing \/ sent[cur].octets = 0
    /\ pc = "dispatch" => /\ pos[2] > sent[cur].empty
                          /\ closing \/ pos[2] = Http!Size(sent[cur])

Ended ==
  pc = "done" => \A i \in 1..Pipeline : /\ answers[i] <= 1
                                        /\ ~lost /\ Http!HeadRead(i) => answers[i] = 1

HttpInv == HttpTyped /\ Between /\ Handled /\ Ended

LEMMA Requested ==
  ASSUME Http!ConstantsOK, HttpTyped, NEW i \in 1..Pipeline
  PROVE  /\ sent[i].octets \in 0..TooLong /\ sent[i].empty \in 0..(MaxEmpty + 1)
         /\ sent[i].method \in {"GET", "POST", "PUT"}
         /\ sent[i].framing = "absent" /\ sent[i].method # "POST" => sent[i].octets = 0
         /\ Http!Size(sent[i]) = sent[i].empty + 1 + sent[i].octets
<1>1. sent[i] \in Http!Request /\ Http!WellMeant(sent[i])
  BY DEF HttpTyped
<1>2. /\ sent[i].octets \in 0..TooLong /\ sent[i].empty \in 0..(MaxEmpty + 1)
      /\ sent[i].method \in {"GET", "POST", "PUT"}
  BY <1>1 DEF Http!Request
<1> QED
  BY <1>1, <1>2 DEF Http!WellMeant, Http!Size

LEMMA Placed ==
  ASSUME Http!ConstantsOK, HttpTyped, NEW p \in Http!Place
  PROVE  /\ p = <<p[1], p[2]>> /\ p[1] \in 1..Pipeline /\ p[2] \in Nat
         /\ p[2] <= Http!Size(sent[p[1]])
<1>0. Pipeline \in Nat \ {0} /\ MaxEmpty \in Nat /\ TooLong \in Nat
  BY DEF Http!ConstantsOK
<1>1. CASE p = <<1, 0>>
  BY <1>0, <1>1, Requested
<1>2. CASE p # <<1, 0>>
  <2>1. p \in (1..Pipeline) \X (1..(MaxEmpty + 2 + TooLong)) /\ p[2] <= Http!Size(sent[p[1]])
    BY <1>2 DEF Http!Place
  <2> QED
    BY <1>0, <2>1
<1> QED
  BY <1>1, <1>2

LEMMA PlaceOf ==
  ASSUME Http!ConstantsOK, HttpTyped, NEW i \in 1..Pipeline,
         NEW k \in Nat \ {0}, k <= Http!Size(sent[i])
  PROVE  <<i, k>> \in Http!Place
<1>0. Pipeline \in Nat \ {0} /\ MaxEmpty \in Nat /\ TooLong \in Nat
  BY DEF Http!ConstantsOK
<1>1. k \in 1..(MaxEmpty + 2 + TooLong)
  BY <1>0, Requested
<1>2. <<i, k>> \in (1..Pipeline) \X (1..(MaxEmpty + 2 + TooLong))
  BY <1>1
<1> QED
  BY <1>2 DEF Http!Place

\* What the server finds next is the next unit of this request, or the first of
\* the next one.
LEMMA NextPlace ==
  ASSUME Http!ConstantsOK, HttpTyped, Http!Came(Http!Upcoming)
  PROVE  /\ Http!Upcoming \in Http!Place
         /\ Http!Upcoming[1] \in 1..Pipeline /\ Http!Upcoming[2] \in Nat \ {0}
         /\ Http!Upcoming[2] <= Http!Size(sent[Http!Upcoming[1]])
         /\ \/ /\ pos[2] < Http!Size(sent[pos[1]])
               /\ Http!Upcoming[1] = pos[1] /\ Http!Upcoming[2] = pos[2] + 1
            \/ /\ pos[2] = Http!Size(sent[pos[1]])
               /\ Http!Upcoming[1] = pos[1] + 1 /\ Http!Upcoming[2] = 1
<1>0. Pipeline \in Nat \ {0}
  BY DEF Http!ConstantsOK
<1>1. /\ pos[1] \in 1..Pipeline /\ pos[2] \in Nat /\ pos[2] <= Http!Size(sent[pos[1]])
      /\ arrived[1] \in 1..Pipeline /\ arrived[2] \in Nat
  BY Placed DEF HttpTyped
<1>2. Http!Size(sent[pos[1]]) \in Nat
  BY <1>1, Requested
<1>3. CASE pos[2] < Http!Size(sent[pos[1]])
  <2>1. Http!Upcoming = <<pos[1], pos[2] + 1>>
    BY <1>3 DEF Http!Upcoming
  <2> QED
    BY <1>1, <1>2, <1>3, <2>1, PlaceOf
<1>4. CASE ~(pos[2] < Http!Size(sent[pos[1]]))
  <2>1. Http!Upcoming = <<pos[1] + 1, 1>>
    BY <1>4 DEF Http!Upcoming
  <2>2. Http!Upcoming[1] = pos[1] + 1 /\ Http!Upcoming[2] = 1
    BY <2>1
  <2>3. pos[1] + 1 <= arrived[1]
    BY <1>0, <1>1, <2>2 DEF Http!Came
  <2>4. pos[1] + 1 \in 1..Pipeline
    BY <1>0, <1>1, <2>3
  <2>5. 1 <= Http!Size(sent[pos[1] + 1])
    BY <2>4, Requested
  <2> QED
    BY <1>1, <1>2, <1>4, <2>1, <2>2, <2>4, <2>5, PlaceOf
<1> QED
  BY <1>3, <1>4

LEMMA AnswerGiven ==
  ASSUME Http!ConstantsOK, HttpTyped, NEW i \in 0..Pipeline, NEW close,
         Http!Answer(i, close)
  PROVE  /\ answers' \in [0..Pipeline -> Nat] /\ cur' = 0
         /\ answers'[i] = answers[i] + 1
         /\ \A j \in 0..Pipeline \ {i} : answers'[j] = answers[j]
         /\ pc' \in {"line", "done"}
         /\ pc' = "line" => ~close
<1>0. Pipeline \in Nat /\ answers \in [0..Pipeline -> Nat]
  BY DEF HttpTyped, Http!ConstantsOK
<1>1. PICK failed \in BOOLEAN :
        /\ answers' = [answers EXCEPT ![i] = @ + 1]
        /\ pc' = Http!After(close, failed) /\ cur' = 0
  BY DEF Http!Answer
<1>2. pc' \in {"line", "done"} /\ (pc' = "line" => ~close)
  BY <1>1 DEF Http!After
<1> QED
  BY <1>0, <1>1, <1>2

LEMMA HttpInit ==
  ASSUME Http!ConstantsOK, Http!Init
  PROVE  HttpInv
<1>0. Pipeline \in Nat \ {0} /\ Server \subseteq {"mint", "gui", "console"}
      /\ Requests \subseteq Http!Request /\ MaxEmpty \in Nat /\ TooLong \in Nat
  BY DEF Http!ConstantsOK
<1>1. pos = <<1, 0>> /\ pc = "line" /\ cur = 0 /\ answers = [i \in 0..Pipeline |-> 0]
  BY DEF Http!Init
<1>2. sent \in [1..Pipeline -> {r \in Http!Request : Http!WellMeant(r)}]
  BY <1>0 DEF Http!Init
<1>3. HttpTyped
  BY <1>0, <1>1, <1>2 DEF HttpTyped, Http!Init, Http!Place, Handling
<1>4. Between
  <2>1. pos[1] = 1 /\ pos[2] = 0 /\ 1 \in 1..Pipeline
    BY <1>0, <1>1
  <2>2. sent[1].empty \in Nat
    BY <1>0, <1>3, <2>1, Requested
  <2> QED
    BY <1>0, <1>1, <2>1, <2>2 DEF Between, InOrder
<1> QED
  BY <1>1, <1>3, <1>4 DEF HttpInv, Handled, Ended, Handling

\* What a handler that leaves the connection where it is keeps.
LEMMA TypesKept ==
  ASSUME Http!ConstantsOK, HttpTyped, UNCHANGED <<kind, sent, arrived>>,
         pos' \in Http!Place, pos' = pos \/ Http!Came(pos'),
         pc' \in {"line", "done"} \cup Handling, cur' \in 0..Pipeline,
         answers' \in [0..Pipeline -> Nat]
  PROVE  HttpTyped'
<1>1. Http!Place' = Http!Place
  BY DEF Http!Place, Http!Size
<1>2. (pos = <<1, 0>> \/ Http!Came(pos))'
  BY DEF HttpTyped, Http!Came
<1> QED
  BY <1>1, <1>2 DEF HttpTyped

LEMMA LineEndsKeeps ==
  ASSUME Http!ConstantsOK, HttpInv, Http!LineEnds
  PROVE  HttpInv'
<1>0. Pipeline \in Nat \ {0} /\ HttpTyped /\ 0 \in 0..Pipeline
  BY DEF Http!ConstantsOK, HttpInv
<1>1. UNCHANGED <<kind, sent, arrived, pos>> /\ pc = "line"
  BY DEF Http!LineEnds, Http!given
<1>2. pos[1] \in 1..Pipeline /\ pos[2] \in Nat
  BY <1>0, Placed DEF HttpTyped
<1>3. Http!HangUp \/ Http!Answer(0, TRUE)
  BY Zenon DEF Http!LineEnds, Http!MintLineEnds, Http!GuiLineEnds, Http!ConsoleLineEnds
<1>4. /\ pc' = "done" /\ cur' \in 0..Pipeline /\ answers' \in [0..Pipeline -> Nat]
      /\ \A j \in 1..Pipeline : answers'[j] = answers[j]
  <2>1. CASE Http!HangUp
    BY <1>0, <2>1 DEF Http!HangUp, HttpTyped
  <2>2. CASE Http!Answer(0, TRUE)
    <3>1. /\ answers' \in [0..Pipeline -> Nat] /\ cur' = 0 /\ pc' = "done"
          /\ \A j \in 0..Pipeline \ {0} : answers'[j] = answers[j]
      BY <1>0, <2>2, AnswerGiven
    <3> QED
      BY <1>0, <3>1
  <2> QED
    BY <1>3, <2>1, <2>2
<1>5. HttpTyped'
  BY <1>0, <1>1, <1>4, TypesKept DEF HttpTyped
<1>6. Ended'
  <2> SUFFICES ASSUME NEW i \in 1..Pipeline
               PROVE  answers'[i] <= 1 /\ (~lost' /\ Http!HeadRead(i)' => answers'[i] = 1)
    BY DEF Ended
  <2>1. /\ i < pos[1] => answers[i] = 1
        /\ i > pos[1] => answers[i] = 0
        /\ answers[pos[1]] = IF pos[2] > sent[pos[1]].empty THEN 1 ELSE 0
    BY <1>1 DEF HttpInv, Between, InOrder
  <2>2. Http!HeadRead(i)' => i < pos[1] \/ (i = pos[1] /\ pos[2] > sent[i].empty)
    BY <1>1 DEF Http!HeadRead
  <2> QED
    BY <1>2, <1>4, <2>1, <2>2
<1> QED
  BY <1>4, <1>5, <1>6 DEF HttpInv, Between, Handled, Handling

LEMMA EmptyLineKeeps ==
  ASSUME Http!ConstantsOK, HttpInv, Http!EmptyLine
  PROVE  HttpInv'
<1> DEFINE p == Http!Upcoming
<1>0. Pipeline \in Nat \ {0} /\ HttpTyped
  BY DEF Http!ConstantsOK, HttpInv
<1>1. /\ UNCHANGED <<kind, sent, arrived>> /\ pc = "line" /\ pos' = p
      /\ Http!Came(p) /\ Http!Unit(sent[p[1]], p[2]) = "empty"
  BY Zenon DEF Http!EmptyLine, Http!given, Http!Finds
<1>2. /\ pos[1] \in 1..Pipeline /\ pos[2] \in Nat
      /\ sent[pos[1]].empty \in Nat /\ sent[pos[1]].octets \in Nat
      /\ Http!Size(sent[pos[1]]) = sent[pos[1]].empty + 1 + sent[pos[1]].octets
  BY <1>0, Placed, Requested DEF HttpTyped, Http!ConstantsOK
<1>3. /\ p \in Http!Place /\ p[1] \in 1..Pipeline /\ p[2] \in Nat
      /\ \/ pos[2] < Http!Size(sent[pos[1]]) /\ p[1] = pos[1] /\ p[2] = pos[2] + 1
         \/ pos[2] = Http!Size(sent[pos[1]]) /\ p[1] = pos[1] + 1 /\ p[2] = 1
  BY <1>0, <1>1, NextPlace
<1>4. p[2] <= sent[p[1]].empty
  BY <1>1 DEF Http!Unit
<1>5. \A i \in 1..Pipeline : /\ i < p[1] => answers[i] = 1
                             /\ i >= p[1] => answers[i] = 0
  <2>1. /\ InOrder
        /\ answers[pos[1]] = IF pos[2] > sent[pos[1]].empty THEN 1 ELSE 0
    BY <1>1 DEF HttpInv, Between
  <2> QED
    BY <1>2, <1>3, <1>4, <2>1 DEF InOrder
<1> HIDE DEF p
<1>6. CASE pc' = pc /\ cur' = cur /\ answers' = answers
  <2>1. HttpTyped'
    BY <1>0, <1>1, <1>3, <1>6, TypesKept DEF HttpTyped
  <2>2. Between'
    <3>1. sent[p[1]].empty \in Nat
      BY <1>0, <1>3, Requested DEF Http!ConstantsOK
    <3> QED
      BY <1>1, <1>3, <1>4, <1>5, <1>6, <3>1 DEF Between, InOrder
  <2> QED
    BY <1>1, <1>6, <2>1, <2>2 DEF HttpInv, Handled, Handling, Ended
<1>7. CASE Http!HangUp \/ Http!Answer(p[1], TRUE)
  <2>1. /\ pc' = "done" /\ cur' \in 0..Pipeline /\ answers' \in [0..Pipeline -> Nat]
        /\ \A j \in 1..Pipeline : answers'[j] = answers[j] \/ (j = p[1] /\ answers'[j] = answers[j] + 1)
    <3>1. CASE Http!HangUp
      BY <1>0, <3>1 DEF Http!HangUp, HttpTyped
    <3>2. CASE Http!Answer(p[1], TRUE)
      <4>0. p[1] \in 0..Pipeline
        BY <1>0, <1>3
      <4>1. /\ answers' \in [0..Pipeline -> Nat] /\ cur' = 0 /\ pc' = "done"
            /\ answers'[p[1]] = answers[p[1]] + 1
            /\ \A j \in 0..Pipeline \ {p[1]} : answers'[j] = answers[j]
        BY <1>0, <3>2, <4>0, AnswerGiven
      <4> QED
        BY <1>0, <4>1
    <3> QED
      BY <1>7, <3>1, <3>2
  <2>2. HttpTyped'
    BY <1>0, <1>1, <1>3, <2>1, TypesKept DEF HttpTyped
  <2>3. Ended'
    <3> SUFFICES ASSUME NEW i \in 1..Pipeline
                 PROVE  answers'[i] <= 1 /\ (~lost' /\ Http!HeadRead(i)' => answers'[i] = 1)
      BY DEF Ended
    <3>1. Http!HeadRead(i)' => i < p[1] \/ (i = p[1] /\ p[2] > sent[i].empty)
      BY <1>1 DEF Http!HeadRead
    <3>2. sent[p[1]].empty \in Nat
      BY <1>0, <1>3, Requested DEF Http!ConstantsOK
    <3> QED
      BY <1>3, <1>4, <1>5, <2>1, <3>1, <3>2
  <2> QED
    BY <2>1, <2>2, <2>3 DEF HttpInv, Between, Handled, Handling
<1>8. \/ pc' = pc /\ cur' = cur /\ answers' = answers
      \/ Http!HangUp \/ Http!Answer(p[1], TRUE)
  BY Zenon DEF Http!EmptyLine, p
<1> QED
  BY <1>6, <1>7, <1>8

LEMMA ReadHeadKeeps ==
  ASSUME Http!ConstantsOK, HttpInv, Http!ReadHead
  PROVE  HttpInv'
<1> DEFINE p == Http!Upcoming
<1>0. Pipeline \in Nat \ {0} /\ HttpTyped
  BY DEF Http!ConstantsOK, HttpInv
<1>1. /\ UNCHANGED <<kind, sent, arrived, answers>> /\ pc = "line" /\ pos' = p
      /\ pc' = "head" /\ cur' = p[1]
      /\ Http!Came(p) /\ Http!Unit(sent[p[1]], p[2]) = "head"
  BY Zenon DEF Http!ReadHead, Http!given, Http!Finds
<1>2. /\ pos[1] \in 1..Pipeline /\ pos[2] \in Nat
      /\ sent[pos[1]].empty \in Nat /\ sent[pos[1]].octets \in Nat
      /\ Http!Size(sent[pos[1]]) = sent[pos[1]].empty + 1 + sent[pos[1]].octets
  BY <1>0, Placed, Requested DEF HttpTyped, Http!ConstantsOK
<1>3. /\ p \in Http!Place /\ p[1] \in 1..Pipeline /\ p[2] \in Nat
      /\ \/ pos[2] < Http!Size(sent[pos[1]]) /\ p[1] = pos[1] /\ p[2] = pos[2] + 1
         \/ pos[2] = Http!Size(sent[pos[1]]) /\ p[1] = pos[1] + 1 /\ p[2] = 1
  BY <1>0, <1>1, NextPlace
<1>4. p[2] = sent[p[1]].empty + 1
  BY <1>1 DEF Http!Unit
<1>5. \A i \in 1..Pipeline : /\ i < p[1] => answers[i] = 1
                             /\ i >= p[1] => answers[i] = 0
  <2>1. /\ InOrder
        /\ answers[pos[1]] = IF pos[2] > sent[pos[1]].empty THEN 1 ELSE 0
    BY <1>1 DEF HttpInv, Between
  <2> QED
    BY <1>2, <1>3, <1>4, <2>1 DEF InOrder
<1> HIDE DEF p
<1>6. HttpTyped'
  <2>1. p[1] \in 0..Pipeline
    BY <1>0, <1>3
  <2> QED
    BY <1>0, <1>1, <1>3, <2>1, TypesKept DEF HttpTyped, Handling
<1>7. kind' = "console" => closing'
  BY <1>1, Zenon DEF Http!ReadHead
<1>8. Handled'
  BY <1>1, <1>3, <1>4, <1>5, <1>7 DEF Handled, InOrder
<1> QED
  BY <1>1, <1>6, <1>8 DEF HttpInv, Between, Ended

\* A request is answered: the connection ends, or goes on at the end of the request.
LEMMA AnswerKeeps ==
  ASSUME Http!ConstantsOK, HttpInv, NEW close, pc \in Handling,
         Http!Answer(cur, close), UNCHANGED <<kind, sent, arrived, pos>>,
         close \/ pos[2] = Http!Size(sent[cur])
  PROVE  HttpInv'
<1>0. Pipeline \in Nat \ {0} /\ HttpTyped /\ cur \in 0..Pipeline /\ Handled
  BY DEF Http!ConstantsOK, HttpInv, HttpTyped
<1>1. pos[1] \in 1..Pipeline /\ pos[2] \in Nat
  BY <1>0, Placed DEF HttpTyped
<1>2. cur = pos[1] /\ InOrder /\ answers[cur] = 0
  BY <1>0 DEF Handled
<1>3. sent[cur].empty \in Nat /\ pos[2] > sent[cur].empty
  <2>1. sent[cur].empty \in Nat
    BY <1>0, <1>1, <1>2, Requested DEF Http!ConstantsOK
  <2> QED
    BY <1>0, <2>1 DEF Handled
<1>4. /\ answers' \in [0..Pipeline -> Nat] /\ cur' = 0
      /\ answers'[cur] = answers[cur] + 1
      /\ \A j \in 0..Pipeline \ {cur} : answers'[j] = answers[j]
      /\ pc' \in {"line", "done"}
      /\ pc' = "line" => ~close
  BY <1>0, AnswerGiven
<1>5. HttpTyped'
  BY SMTT(30), <1>0, <1>4, TypesKept DEF HttpTyped
<1>6. \A i \in 1..Pipeline : /\ i <= pos[1] => answers'[i] = 1
                             /\ i > pos[1] => answers'[i] = 0
  <2> SUFFICES ASSUME NEW i \in 1..Pipeline
               PROVE  (i <= pos[1] => answers'[i] = 1) /\ (i > pos[1] => answers'[i] = 0)
    OBVIOUS
  <2>1. i < pos[1] \/ i = pos[1] \/ i > pos[1]
    BY <1>0, <1>1
  <2>2. CASE i = pos[1]
    BY <1>1, <1>2, <1>4, <2>2
  <2>3. CASE i # pos[1]
    <3>1. answers'[i] = answers[i]
      BY <1>0, <1>2, <1>4, <2>3
    <3>2. (i < pos[1] => answers[i] = 1) /\ (i > pos[1] => answers[i] = 0)
      BY <1>2 DEF InOrder
    <3> QED
      BY <1>1, <2>1, <2>3, <3>1, <3>2
  <2> QED
    BY <2>2, <2>3
<1>7. Between'
  BY <1>1, <1>2, <1>3, <1>4, <1>6 DEF Between, InOrder, Http!Size
<1>8. Ended'
  BY <1>1, <1>6 DEF Ended, Http!HeadRead
<1> QED
  BY <1>4, <1>5, <1>7, <1>8 DEF HttpInv, Handled, Handling

LEMMA AdmitHeadKeeps ==
  ASSUME Http!ConstantsOK, HttpInv, Http!AdmitHead
  PROVE  HttpInv'
<1>0. HttpTyped /\ pc = "head" /\ Handled
  BY DEF HttpInv, Http!AdmitHead
<1>1. /\ UNCHANGED <<kind, sent, arrived, pos, cur, answers>>
      /\ pc' \in {"body", "route"}
      /\ pc' = IF kind = "mint" /\ sent[cur].method = "POST" THEN "body" ELSE "route"
  BY DEF Http!AdmitHead, Http!given, Http!Stay, Http!req
<1>2. HttpTyped'
  BY <1>0, <1>1, TypesKept DEF HttpTyped, Handling
<1>3. cur \in 1..Pipeline
  BY <1>0, Placed DEF HttpTyped, Handled, Handling
<1>4. pc' = "route" => closing' \/ sent[cur].octets = 0
  <2> SUFFICES ASSUME pc' = "route", ~closing' PROVE sent[cur].octets = 0
    OBVIOUS
  <2>1. ~Http!CloseFor(sent[cur])
    BY Zenon DEF Http!AdmitHead, Http!req
  <2>2. ~closing
    BY Zenon DEF Http!AdmitHead
  <2>3. kind \in {"mint", "gui"}
    BY <1>0, <2>2 DEF Handled, Handling, HttpTyped
  <2>4. /\ sent[cur].method \in {"GET", "POST", "PUT"}
        /\ sent[cur].framing = "absent" /\ sent[cur].method # "POST" => sent[cur].octets = 0
    BY <1>0, <1>3, Requested
  <2>5. CASE kind = "gui"
    <3>1. ~Http!MustClose(sent[cur], sent[cur].method = "POST") /\ Http!Length(sent[cur]) = 0
      BY <2>1, <2>5 DEF Http!CloseFor, Http!GuiCloses, Http!BodyExpected, Http!req
    <3> QED
      BY <2>4, <3>1 DEF Http!MustClose, Http!Framed, Http!Length
  <2>6. CASE kind = "mint"
    <3>1. sent[cur].method = "GET"
      BY <1>1, <2>4, <2>6 DEF Http!AdmitHead, Http!HeadRefused, Http!MintRefuses, Http!req
    <3>2. ~Http!MustClose(sent[cur], FALSE)
      BY <2>1, <2>6, <3>1 DEF Http!CloseFor, Http!MintCloses
    <3> QED
      BY <2>4, <3>1, <3>2 DEF Http!MustClose, Http!Framed, Http!Length
  <2> QED
    BY <2>3, <2>5, <2>6
<1>5. Handled'
  BY <1>0, <1>1, <1>4 DEF Handled, InOrder, Handling
<1> QED
  BY <1>1, <1>2, <1>5 DEF HttpInv, Between, Ended

LEMMA ReadBodyKeeps ==
  ASSUME Http!ConstantsOK, HttpInv, Http!ReadBody
  PROVE  HttpInv'
<1>0. HttpTyped /\ pc = "body" /\ Handled
  BY DEF HttpInv, Http!ReadBody
<1>1. /\ UNCHANGED <<kind, sent, arrived, cur, answers>>
      /\ pc' = "dispatch" /\ pos' = Http!BodyEnd /\ Http!Came(Http!BodyEnd)
      /\ Http!Framed(sent[cur], TRUE)
  BY DEF Http!ReadBody, Http!given, Http!Stay, Http!req
<1>2. cur = pos[1] /\ cur \in 1..Pipeline /\ pos[2] = sent[cur].empty + 1
  BY <1>0, Placed DEF HttpTyped, Handled, Handling
<1>3. /\ sent[cur].empty \in Nat /\ sent[cur].octets \in Nat
      /\ Http!Size(sent[cur]) = sent[cur].empty + 1 + sent[cur].octets
  BY <1>0, <1>2, Requested DEF Http!ConstantsOK
<1>4. pos' = <<cur, Http!Size(sent[cur])>>
  <2>1. Http!Length(sent[cur]) = sent[cur].octets
    BY <1>1 DEF Http!Framed, Http!Length
  <2> QED
    BY <1>1, <1>2, <1>3, <2>1 DEF Http!BodyEnd, Http!req
<1>5. pos' \in Http!Place
  BY <1>0, <1>2, <1>3, <1>4, PlaceOf
<1>6. HttpTyped'
  BY <1>0, <1>1, <1>5, TypesKept DEF HttpTyped, Handling
<1>7. Handled'
  <2>1. pos'[1] = cur /\ pos'[2] = Http!Size(sent[cur])
    BY <1>4
  <2>2. InOrder'
    BY <1>0, <1>1, <1>2, <2>1 DEF Handled, InOrder, Handling
  <2>3. Http!Size(sent[cur])' = Http!Size(sent[cur])
    BY <1>1 DEF Http!Size
  <2> QED
    BY <1>0, <1>1, <1>3, <2>1, <2>2, <2>3 DEF Handled, Handling
<1> QED
  BY <1>1, <1>6, <1>7 DEF HttpInv, Between, Ended

LEMMA RoutedKeeps ==
  ASSUME Http!ConstantsOK, HttpInv, Http!Routed
  PROVE  HttpInv'
<1>0. HttpTyped /\ pc = "route" /\ Handled
  BY DEF HttpInv, Http!Routed
<1>1. /\ UNCHANGED <<kind, sent, arrived, pos, cur, answers, closing>>
      /\ pc' \in {"body", "dispatch"}
  BY DEF Http!Routed, Http!given, Http!Stay
<1>2. HttpTyped'
  BY <1>0, <1>1, TypesKept DEF HttpTyped, Handling
<1>3. cur \in 1..Pipeline
  BY <1>0, Placed DEF HttpTyped, Handled, Handling
<1>4. /\ sent[cur].empty \in Nat
      /\ Http!Size(sent[cur]) = sent[cur].empty + 1 + sent[cur].octets
  BY <1>0, <1>3, Requested DEF Http!ConstantsOK
<1>5. Handled'
  BY <1>0, <1>1, <1>4 DEF Handled, InOrder, Handling, Http!Size
<1> QED
  BY <1>1, <1>2, <1>5 DEF HttpInv, Between, Ended

LEMMA ResetKeeps ==
  ASSUME Http!ConstantsOK, HttpInv, Http!Reset
  PROVE  HttpInv'
<1>0. HttpTyped /\ pc = "body" /\ Handled
  BY DEF HttpInv, Http!Reset
<1>1. /\ UNCHANGED <<kind, sent, arrived, pos, cur, answers>>
      /\ pc' = "done" /\ lost'
  BY DEF Http!Reset, Http!given
<1>2. HttpTyped'
  BY <1>0, <1>1, TypesKept DEF HttpTyped, Handling
<1>3. \A i \in 1..Pipeline : answers[i] <= 1
  <2>1. pos[1] \in 1..Pipeline
    BY <1>0, Placed DEF HttpTyped
  <2> QED
    BY <1>0, <2>1 DEF Handled, InOrder, Handling
<1> QED
  BY <1>1, <1>2, <1>3 DEF HttpInv, Between, Handled, Handling, Ended

LEMMA HttpStep ==
  ASSUME Http!ConstantsOK, HttpInv, [Http!Next]_(Http!vars)
  PROVE  HttpInv'
<1>1. CASE UNCHANGED Http!vars
  BY <1>1 DEF Http!vars, HttpInv, HttpTyped, Between, Handled, Ended, InOrder, Http!Place,
              Http!Came, Http!Size, Http!HeadRead
<1>2. ASSUME NEW close, pc \in Handling, Http!Answer(cur, close),
             UNCHANGED <<Http!given, pos>>, close \/ pos[2] = Http!Size(sent[cur])
      PROVE  HttpInv'
  BY <1>2, AnswerKeeps DEF Http!given
<1>3. CASE \/ Http!RefuseHead \/ Http!NoSession \/ Http!RefuseBody
  <2>1. pc \in Handling /\ Http!Answer(cur, TRUE) /\ UNCHANGED <<Http!given, pos>>
    BY <1>3 DEF Http!RefuseHead, Http!NoSession, Http!RefuseBody, Handling
  <2> QED
    BY <1>2, <2>1
<1>4. CASE Http!Unrouted \/ Http!Dispatch
  <2>1. /\ pc \in {"route", "dispatch"} /\ Http!Answer(cur, closing)
        /\ UNCHANGED <<Http!given, pos>>
    BY <1>4 DEF Http!Unrouted, Http!Dispatch
  <2>2. HttpTyped /\ Handled
    BY DEF HttpInv
  <2>3. cur \in 1..Pipeline
    BY <2>1, <2>2, Placed DEF HttpTyped, Handled, Handling
  <2>4. /\ sent[cur].empty \in Nat
        /\ Http!Size(sent[cur]) = sent[cur].empty + 1 + sent[cur].octets
    BY <2>2, <2>3, Requested DEF Http!ConstantsOK
  <2>5. closing \/ pos[2] = Http!Size(sent[cur])
    BY <2>1, <2>2, <2>4 DEF Handled, Handling
  <2> QED
    BY <1>2, <2>1, <2>5 DEF Handling
<1> QED
  BY <1>1, <1>3, <1>4, LineEndsKeeps, EmptyLineKeeps, ReadHeadKeeps, AdmitHeadKeeps,
     RoutedKeeps, ReadBodyKeeps, ResetKeeps
  DEF Http!Next

LEMMA HttpTypeOK ==
  ASSUME Http!ConstantsOK, HttpInv
  PROVE  Http!TypeOK /\ Http!InStep
<1>0. HttpTyped /\ Pipeline \in Nat \ {0}
  BY DEF HttpInv, Http!ConstantsOK
<1>1. /\ pos[1] \in 1..Pipeline /\ pos[2] \in Nat
      /\ sent[pos[1]].empty \in Nat /\ sent[pos[1]].octets \in Nat
      /\ Http!Size(sent[pos[1]]) = sent[pos[1]].empty + 1 + sent[pos[1]].octets
  BY <1>0, Placed, Requested DEF HttpTyped, Http!ConstantsOK
<1>2. Http!TypeOK
  BY <1>0, <1>1 DEF HttpInv, HttpTyped, Handled, Handling, Http!TypeOK
<1>3. pc = "line" => ~Http!Finds("body")
  <2> SUFFICES ASSUME pc = "line", Http!Finds("body") PROVE FALSE
    OBVIOUS
  <2> DEFINE p == Http!Upcoming
  <2>1. Http!Came(p) /\ Http!Unit(sent[p[1]], p[2]) = "body"
    BY DEF Http!Finds
  <2>2. /\ p[1] \in 1..Pipeline /\ p[2] \in Nat
        /\ \/ pos[2] < Http!Size(sent[pos[1]]) /\ p[1] = pos[1] /\ p[2] = pos[2] + 1
           \/ pos[2] = Http!Size(sent[pos[1]]) /\ p[1] = pos[1] + 1 /\ p[2] = 1
    BY <1>0, <2>1, NextPlace
  <2> HIDE DEF p
  <2>3. sent[p[1]].empty \in Nat
    BY <1>0, <2>2, Requested DEF Http!ConstantsOK
  <2>4. p[2] > sent[p[1]].empty + 1
    BY <2>1, <2>2, <2>3 DEF Http!Unit
  <2> QED
    BY <1>1, <2>2, <2>3, <2>4 DEF HttpInv, Between
<1>4. \A i \in 1..Pipeline : answers[i] <= 1
  <2>1. CASE pc = "done"
    BY <2>1 DEF HttpInv, Ended
  <2>2. CASE pc # "done"
    <3>1. InOrder /\ answers[pos[1]] \in {0, 1}
      BY <2>2 DEF HttpInv, HttpTyped, Between, Handled
    <3> QED
      BY <1>1, <3>1 DEF InOrder
  <2> QED
    BY <2>1, <2>2
<1>5. pc = "done" /\ ~lost => \A i \in 1..Pipeline : Http!HeadRead(i) => answers[i] = 1
  BY DEF HttpInv, Ended
<1> QED
  BY <1>2, <1>3, <1>4, <1>5 DEF Http!InStep

\* Whatever a peer of a server sends, and wherever it stops, no octet of a body is
\* read as the next request, and every request whose head was read is answered once
\* (framing_verdict and the handlers of mintapi, gui/app and mint_console).
THEOREM AnswersStayInStep ==
  ASSUME Http!ConstantsOK
  PROVE  ClientSpec => []InStep
<1>1. ClientInit => (client = "http" => HttpInv)
  <2> SUFFICES ASSUME ClientInit, client = "http" PROVE HttpInv
    OBVIOUS
  <2>1. Http!Init
    BY Zenon DEF ClientInit
  <2> QED
    BY <2>1, HttpInit
<1>2. (client = "http" => HttpInv) /\ [ClientNext]_clientVars => (client = "http" => HttpInv)'
  <2> SUFFICES ASSUME client = "http" => HttpInv, [ClientNext]_clientVars, client' = "http"
               PROVE  HttpInv'
    OBVIOUS
  <2>1. client = "http" /\ [Http!Next]_(Http!vars)
    BY DEF ClientNext, clientVars, httpVars, Http!vars
  <2> QED
    BY <2>1, HttpStep
<1>3. (client = "http" => HttpInv) => InStep
  BY HttpTypeOK DEF InStep
<1> QED
  BY <1>1, <1>2, <1>3, PTL DEF ClientSpec
-----------------------------------------------------------------------------
(***************************************************************************)
(* Launcher.                                                               *)
(***************************************************************************)
\* The steps from which on a launch has read the key file.
Past == {"config", "bind", "drain"} \cup Launching!Serving

Launched ==
  {r \in [pc : Launching!Phase, opts : Options \cup {None},
          blob : Launching!KeyFile \cup {None}, gate : Launching!Issuance \cup {None},
          publishes : BOOLEAN, number : Nat, since : Nat] :
     /\ r.pc # "off" => r.opts \in Options
     /\ r.pc \in Past \cup {"write"} => r.blob \in Launching!KeyFile}

LaunchTyped ==
  /\ keys \in Launching!KeyFile \cup {None}
  /\ starts \in Nat
  /\ proc \in [Process -> Launched]
  /\ \A p \in Process : proc[p].pc \in Past => keys # None

\* One process at a time has the claim, and it knows its options and its policy.
ClaimHeld ==
  \A p \in Process :
    /\ proc[p].pc \in Launching!Serving <=> holder = p
    /\ proc[p].number <= starts
    /\ proc[p].pc \in Past \ {"config"} => proc[p].gate = Launching!Gate(proc[p].opts)

\* The key file is completed once, by one process, before anything is published.
KeysStand ==
  /\ \A p \in Process :
       /\ proc[p].pc = "write" =>
            /\ ~Launching!Complete(keys)
            /\ proc[p].blob.baseline # None
            /\ \A q \in Process \ {p} : proc[q].pc # "write"
       /\ proc[p].pc \in Past =>
            /\ Launching!Complete(keys)
            /\ keys.key = proc[p].blob.key /\ keys.baseline = proc[p].blob.baseline
  /\ \A c \in claims : /\ Launching!Complete(keys)
                       /\ c = [key |-> keys.key, baseline |-> keys.baseline]
  /\ pruned => Launching!Complete(keys)

\* Whoever publishes that its records may be pruned has said so in the key file
\* before it prunes, for the launches that come after it.
PinsStand ==
  /\ pruned => keys.prunes
  /\ \A p \in Process :
       LET r == proc[p] IN
       /\ r.pc = "pinned" => r.blob.prunes /\ r.publishes
       /\ r.pc \in Past \ {"pinned"} /\ r.blob.prunes => keys.prunes
       /\ r.pc \in {"bind", "drain"} \cup Launching!Serving =>
            (r.blob.prunes \/ r.opts.interval => r.publishes)
       /\ r.pc \in {"up", "drain"} /\ r.publishes =>
            /\ keys.prunes
            /\ \A q \in Process : proc[q].pc \in Past /\ proc[q].number > r.since
                                    => proc[q].blob.prunes
       /\ pruned /\ r.pc \in Past \ {"drain"} => r.blob.prunes \/ r.opts.interval

LaunchInv == LaunchTyped /\ ClaimHeld

-----------------------------------------------------------------------------
LEMMA LaunchInit ==
  ASSUME Launching!ConstantsOK, Launching!Init
  PROVE  LaunchInv /\ KeysStand /\ PinsStand
<1> USE DEF Launching!ConstantsOK, Launching!Init, Launching!Idle
<1>1. Launching!Idle \in Launched /\ Launching!Idle.pc \notin Past
  BY DEF Launched, Launching!Phase, Past, Launching!Serving
<1>2. LaunchTyped
  <2>1. proc \in [Process -> Launched] /\ \A p \in Process : proc[p].pc \notin Past
    BY <1>1
  <2> QED
    BY <2>1 DEF LaunchTyped
<1>3. \A p \in Process : proc[p].pc = "off" /\ proc[p].number = 0 /\ holder # p
  OBVIOUS
<1>4. ClaimHeld
  BY <1>3 DEF ClaimHeld, Launching!Serving, Past
<1>5. KeysStand /\ PinsStand
  BY <1>3 DEF KeysStand, PinsStand, Launching!Serving, Past
<1> QED
  BY <1>2, <1>4, <1>5 DEF LaunchInv

\* What a launch knows of itself stays of its type, step by step.
LEMMA LaunchTypes ==
  ASSUME Launching!ConstantsOK, LaunchTyped, [Launching!Next]_(Launching!vars)
  PROVE  LaunchTyped'
<1> USE DEF LaunchTyped
<1>1. CASE UNCHANGED <<keys, starts, proc>>
  BY <1>1
<1>2. ASSUME NEW p \in Process, NEW r \in Launched, proc' = [proc EXCEPT ![p] = r],
             keys' = keys \/ keys' \in Launching!KeyFile, starts' \in Nat,
             r.pc \in Past => keys' # None, None \notin Launching!KeyFile
      PROVE  LaunchTyped'
  BY <1>2
<1>3. Launching!Idle \in Launched /\ Launching!Idle.pc \notin Past
  BY DEF Launching!Idle, Launched, Launching!Phase, Past, Launching!Serving
<1>4. ASSUME NEW p \in Process, NEW phase \in Launching!Phase, proc[p].pc # "off",
             phase \in Past => proc[p].blob \in Launching!KeyFile /\ keys' # None,
             phase # "write", None \notin Launching!KeyFile,
             proc' = [proc EXCEPT ![p].pc = phase],
             keys' = keys \/ keys' \in Launching!KeyFile, starts' = starts
      PROVE  LaunchTyped'
  <2>1. [proc[p] EXCEPT !.pc = phase] \in Launched
    BY <1>4 DEF Launched
  <2> QED
    BY <1>2, <1>4, <2>1
<1>5. ASSUME NEW p \in Process, NEW phase \in Launching!Phase, NEW file \in Launching!KeyFile,
             proc[p].pc # "off", phase \in Past => keys # None, None \notin Launching!KeyFile,
             proc' = [proc EXCEPT ![p].pc = phase, ![p].blob = file],
             UNCHANGED <<keys, starts>>
      PROVE  LaunchTyped'
  <2>1. [proc[p] EXCEPT !.pc = phase, !.blob = file] \in Launched
    BY <1>5 DEF Launched
  <2>2. proc' = [proc EXCEPT ![p] = [proc[p] EXCEPT !.pc = phase, !.blob = file]]
    BY <1>5
  <2> QED
    BY <1>2, <1>5, <2>1, <2>2
<1>6. ASSUME NEW p \in Process, proc[p].pc \in Past, Launching!ComeUp(p),
             None \notin Launching!KeyFile,
             keys' = keys \/ keys' \in Launching!KeyFile, starts' = starts
      PROVE  LaunchTyped'
  <2>1. [proc[p] EXCEPT !.pc = "up", !.since = starts] \in Launched
    BY <1>6 DEF Launched, Launching!Phase, Past, Launching!Serving
  <2>2. proc' = [proc EXCEPT ![p] = [proc[p] EXCEPT !.pc = "up", !.since = starts]]
    BY <1>6 DEF Launching!ComeUp
  <2> QED
    BY <1>2, <1>6, <2>1, <2>2
<1>7. \A p \in Process :
        /\ proc[p].pc # "off" => proc[p].opts \in Options
        /\ proc[p].pc \in Past \cup {"write"} => proc[p].blob \in Launching!KeyFile
        /\ None \notin Launching!KeyFile
  BY DEF Launched, Launching!ConstantsOK
<1> USE DEF Launching!Become, Launching!Goto, Launching!At
<1>8. ASSUME NEW p \in Process, NEW o \in Options, Launching!Launch(p, o)
      PROVE  LaunchTyped'
  <2>1. PICK idle \in Launched : idle = Launching!Idle
    BY <1>3
  <2>2. PICK n \in Nat : n = starts + 1
    OBVIOUS
  <2>3. PICK r : r = [idle EXCEPT !.pc = "load", !.opts = o, !.number = n]
    OBVIOUS
  <2>4. r \in Launched /\ r.pc \notin Past
    <3>1. /\ r.pc = "load" /\ r.opts \in Options /\ r.number = n
          /\ r.blob = idle.blob /\ r.gate = idle.gate
          /\ r.publishes = idle.publishes /\ r.since = idle.since
          /\ r = [pc |-> r.pc, opts |-> r.opts, blob |-> r.blob, gate |-> r.gate,
                  publishes |-> r.publishes, number |-> r.number, since |-> r.since]
      BY <2>3 DEF Launched
    <3> HIDE DEF LaunchTyped
    <3> QED
      BY <3>1 DEF Launched, Launching!Phase, Past, Launching!Serving
  <2>5. proc' = [proc EXCEPT ![p] = r] /\ starts' = starts + 1 /\ keys' = keys
    BY <1>8, <2>1, <2>2, <2>3 DEF Launching!Launch
  <2> QED
    BY <1>2, <1>7, <2>2, <2>4, <2>5
<1>9. ASSUME NEW p \in Process, Launching!LoadKeys(p)
      PROVE  LaunchTyped'
  BY <1>2, <1>3, <1>5, <1>7, <1>9 DEF Launching!LoadKeys, Launching!Complete, Launching!Phase
<1>10. ASSUME NEW p \in Process, Launching!CompleteKeys(p)
       PROVE  LaunchTyped'
  <2>1. [keys EXCEPT !.baseline = proc[p].opts.baseline] \in Launching!KeyFile
    BY <1>7, <1>10
       DEF Launching!CompleteKeys, Launching!KeyFile, Launching!Option, Launching!ConstantsOK
  <2> QED
    BY <1>2, <1>3, <1>5, <1>7, <1>10, <2>1 DEF Launching!CompleteKeys, Launching!Phase
<1>11. ASSUME NEW p \in Process, Launching!GenerateKeys(p)
       PROVE  LaunchTyped'
  <2>1. proc[p].number \in Nat /\ proc[p].opts \in Launching!Option
    BY <1>7, <1>11 DEF Launching!GenerateKeys, Launching!ConstantsOK, Launched
  <2>2. [key |-> proc[p].number, prunes |-> FALSE, baseline |-> proc[p].opts.baseline]
          \in Launching!KeyFile
    BY <2>1 DEF Launching!KeyFile, Launching!Option
  <2> QED
    BY <1>5, <1>7, <1>11, <2>2 DEF Launching!GenerateKeys, Launching!Phase, Past, Launching!Serving
<1>12. ASSUME NEW p \in Process, Launching!WriteKeys(p)
       PROVE  LaunchTyped'
  BY <1>4, <1>7, <1>12 DEF Launching!WriteKeys, Launching!Phase
<1>13. ASSUME NEW p \in Process, Launching!Configure(p)
       PROVE  LaunchTyped'
  <2>1. PICK r : r = [proc[p] EXCEPT !.pc = "bind", !.gate = Launching!Gate(proc[p].opts),
                                     !.publishes = Launching!Publishes(proc[p].blob, proc[p].opts)]
    OBVIOUS
  <2>2. CASE Launching!Gate(proc[p].opts) = "unbound"
    BY <1>2, <1>3, <1>7, <1>13, <2>2 DEF Launching!Configure
  <2>3. CASE Launching!Gate(proc[p].opts) # "unbound"
    <3>1. /\ proc[p].pc = "config" /\ proc[p].opts \in Launching!Option
          /\ proc[p].blob \in Launching!KeyFile
      BY <1>7, <1>13 DEF Launching!Configure, Launching!ConstantsOK, Past
    <3>2. Launching!Gate(proc[p].opts) \in Launching!Issuance
      BY <2>3, <3>1 DEF Launching!Gate, Launching!Option, Launching!Issuance
    <3>3. Launching!Publishes(proc[p].blob, proc[p].opts) \in BOOLEAN
      BY DEF Launching!Publishes
    <3>4. r \in Launched
      BY ZenonT(60), <2>1, <3>1, <3>2, <3>3 DEF Launched, Launching!Phase
    <3>5. proc' = [proc EXCEPT ![p] = r]
      BY <1>13, <2>1, <2>3 DEF Launching!Configure
    <3> QED
      BY <1>2, <1>7, <1>13, <2>1, <3>1, <3>4, <3>5 DEF Launching!Configure, Past
  <2> QED
    BY <2>2, <2>3
<1>14. ASSUME NEW p \in Process, Launching!Start(p) \/ Launching!BindFails(p)
       PROVE  LaunchTyped'
  BY <1>2, <1>3, <1>4, <1>7, <1>14 DEF Launching!Start, Launching!BindFails, Launching!Phase, Past
<1>15. ASSUME NEW p \in Process, Launching!StoreToken(p)
       PROVE  LaunchTyped'
  BY <1>4, <1>7, <1>15
     DEF Launching!StoreToken, Launching!Phase, Past, Launching!Serving
<1>16. ASSUME NEW p \in Process, Launching!ReadPins(p)
       PROVE  LaunchTyped'
  <2>1. CASE Launching!ComeUp(p)
    BY <1>6, <1>7, <1>16, <2>1 DEF Launching!ReadPins, Past, Launching!Serving
  <2>2. CASE proc' = [proc EXCEPT ![p].pc = "pinned", ![p].blob = [keys EXCEPT !.prunes = TRUE]]
    <3>1. keys \in Launching!KeyFile /\ proc[p].pc = "pin"
      BY <1>16 DEF Launching!ReadPins, Past, Launching!Serving
    <3>2. [keys EXCEPT !.prunes = TRUE] \in Launching!KeyFile
      BY <3>1 DEF Launching!KeyFile
    <3> QED
      BY <1>5, <1>7, <1>16, <2>2, <3>1, <3>2 DEF Launching!ReadPins, Launching!Phase
  <2> QED
    BY <1>16, <2>1, <2>2 DEF Launching!ReadPins
<1>17. ASSUME NEW p \in Process, Launching!WritePins(p)
       PROVE  LaunchTyped'
  BY <1>6, <1>7, <1>17 DEF Launching!WritePins, Past, Launching!Serving
<1>18. ASSUME NEW p \in Process, Launching!Signal(p)
       PROVE  LaunchTyped'
  BY <1>4, <1>7, <1>18 DEF Launching!Signal, Launching!Phase, Past, Launching!Serving
<1>19. ASSUME NEW p \in Process,
              Launching!PersistFails(p) \/ Launching!Drained(p) \/ Launching!Die(p)
       PROVE  LaunchTyped'
  BY <1>2, <1>3, <1>7, <1>19 DEF Launching!PersistFails, Launching!Drained, Launching!Die
<1> QED
  BY <1>1, <1>8, <1>9, <1>10, <1>11, <1>12, <1>13, <1>14, <1>15, <1>16, <1>17, <1>18, <1>19,
     Zenon DEF Launching!Next, Launching!vars, Launching!Prune

\* The claim has one holder, who knows what it was started with.
LEMMA ClaimStep ==
  ASSUME Launching!ConstantsOK, LaunchInv, [Launching!Next]_(Launching!vars)
  PROVE  ClaimHeld'
<1>1. /\ \A p \in Process : proc[p] \in Launched /\ p # None
      /\ proc \in [Process -> Launched] /\ starts \in Nat
  BY DEF LaunchInv, LaunchTyped, Launching!ConstantsOK
<1> USE DEF LaunchInv, ClaimHeld, Past, Launching!Serving, Launching!Goto, Launching!Become,
        Launching!At, Launching!Idle
<1>2. CASE UNCHANGED <<starts, holder, proc>>
  BY <1>2
<1>3. ASSUME NEW p \in Process, NEW o \in Options, Launching!Launch(p, o)
      PROVE  ClaimHeld'
  BY <1>1, <1>3 DEF Launching!Launch, Launched
<1>4. ASSUME NEW p \in Process,
             Launching!LoadKeys(p) \/ Launching!CompleteKeys(p) \/ Launching!GenerateKeys(p)
               \/ Launching!WriteKeys(p)
      PROVE  ClaimHeld'
  BY <1>1, <1>4
     DEF Launching!LoadKeys, Launching!CompleteKeys, Launching!GenerateKeys,
         Launching!WriteKeys, Launched
<1>5. ASSUME NEW p \in Process, Launching!Configure(p)
      PROVE  ClaimHeld'
  BY <1>1, <1>5 DEF Launching!Configure, Launched
<1>6. ASSUME NEW p \in Process, Launching!Start(p)
      PROVE  ClaimHeld'
  BY <1>1, <1>6 DEF Launching!Start, Launched
<1>7. ASSUME NEW p \in Process,
             Launching!StoreToken(p) \/ Launching!ReadPins(p) \/ Launching!WritePins(p)
      PROVE  ClaimHeld'
  BY <1>1, <1>7
     DEF Launching!StoreToken, Launching!ReadPins, Launching!WritePins, Launching!ComeUp, Launched
<1>8. ASSUME NEW p \in Process,
             Launching!BindFails(p) \/ Launching!PersistFails(p) \/ Launching!Signal(p)
               \/ Launching!Drained(p) \/ Launching!Die(p)
      PROVE  ClaimHeld'
  BY <1>1, <1>8
     DEF Launching!BindFails, Launching!PersistFails, Launching!Signal, Launching!Drained,
         Launching!Die, Launching!Persisting, Launched
<1> QED
  BY <1>2, <1>3, <1>4, <1>5, <1>6, <1>7, <1>8, Zenon
     DEF Launching!Next, Launching!vars, Launching!Prune

\* What a mint publishes of itself stands.
LEMMA KeysStep ==
  ASSUME Launching!ConstantsOK, OneFirstStart, LaunchInv, KeysStand, PinsStand,
         [Launching!Next]_(Launching!vars)
  PROVE  KeysStand'
<1>1. /\ \A p \in Process : proc[p] \in Launched /\ p # None
      /\ proc \in [Process -> Launched] /\ keys \in Launching!KeyFile \cup {None}
      /\ \A p \in Process : proc[p].pc \in Past \cup {"write"} => proc[p].blob \in Launching!KeyFile
      /\ \A p \in Process : proc[p].pc # "off" => proc[p].opts \in Launching!Option
      /\ None \notin Launching!KeyFile
  BY DEF LaunchInv, LaunchTyped, Launching!ConstantsOK, Launched
<1> USE DEF KeysStand, Past, Launching!Serving, Launching!Goto, Launching!Become,
        Launching!At, Launching!Idle, Launching!Complete
<1>2. CASE UNCHANGED <<keys, pruned, proc, claims>>
  BY <1>2
<1>3. ASSUME NEW p \in Process, NEW o \in Options, Launching!Launch(p, o)
      PROVE  KeysStand'
  BY <1>1, <1>3 DEF Launching!Launch, Launched
<1>4. ASSUME NEW p \in Process, Launching!LoadKeys(p)
      PROVE  KeysStand'
  BY <1>1, <1>4 DEF Launching!LoadKeys, Launched
<1>5. ASSUME NEW p \in Process, Launching!CompleteKeys(p) \/ Launching!GenerateKeys(p)
      PROVE  KeysStand'
  <2>1. \A q \in Process \ {p} : proc[q].pc # "write"
    BY <1>5 DEF Launching!CompleteKeys, Launching!GenerateKeys, Launching!Unraced,
                OneFirstStart, Launching!Others, Launching!Booting
  <2>2. proc[p].opts.baseline # None
    BY <1>1, <1>5
       DEF Launching!CompleteKeys, Launching!GenerateKeys, Launching!Option, Launching!ConstantsOK
  <2> QED
    BY <1>1, <1>5, <2>1, <2>2
       DEF Launching!CompleteKeys, Launching!GenerateKeys, Launched, Launching!KeyFile
<1>6. ASSUME NEW p \in Process, Launching!WriteKeys(p)
      PROVE  KeysStand'
  BY <1>1, <1>6 DEF Launching!WriteKeys, Launched
<1>7. ASSUME NEW p \in Process, Launching!Configure(p)
      PROVE  KeysStand'
  BY <1>1, <1>7 DEF Launching!Configure, Launched
<1>8. ASSUME NEW p \in Process, Launching!Start(p)
      PROVE  KeysStand'
  BY <1>1, <1>8 DEF Launching!Start, Launched
<1>9. ASSUME NEW p \in Process, Launching!StoreToken(p)
      PROVE  KeysStand'
  BY <1>1, <1>9 DEF Launching!StoreToken, Launched
<1>10. ASSUME NEW p \in Process, Launching!ReadPins(p)
       PROVE  KeysStand'
  BY <1>1, <1>10 DEF Launching!ReadPins, Launching!ComeUp, Launched, Launching!KeyFile
<1>11. ASSUME NEW p \in Process, Launching!WritePins(p)
       PROVE  KeysStand'
  BY <1>1, <1>11 DEF Launching!WritePins, Launching!ComeUp, Launched
<1>12. ASSUME NEW p \in Process, Launching!Prune(p)
       PROVE  KeysStand'
  BY <1>1, <1>12 DEF Launching!Prune, Launching!PrunerPhases
<1>13. ASSUME NEW p \in Process,
              Launching!BindFails(p) \/ Launching!PersistFails(p) \/ Launching!Signal(p)
                \/ Launching!Drained(p) \/ Launching!Die(p)
       PROVE  KeysStand'
  BY <1>1, <1>13
     DEF Launching!BindFails, Launching!PersistFails, Launching!Signal, Launching!Drained,
         Launching!Die, Launching!Persisting, Launched
<1> QED
  BY <1>2, <1>3, <1>4, <1>5, <1>6, <1>7, <1>8, <1>9, <1>10, <1>11, <1>12, <1>13, Zenon
     DEF Launching!Next, Launching!vars

\* What a mint publishes about pruning stands: it is pinned before the first
\* record goes.
LEMMA PinsStep ==
  ASSUME Launching!ConstantsOK, OneFirstStart, LaunchInv, KeysStand, PinsStand,
         [Launching!Next]_(Launching!vars)
  PROVE  PinsStand'
<1>1. /\ \A p \in Process : proc[p] \in Launched /\ proc[p].number \in Nat /\ proc[p].since \in Nat
      /\ proc \in [Process -> Launched] /\ keys \in Launching!KeyFile \cup {None}
      /\ \A p \in Process : proc[p].pc \in Past \cup {"write"} => proc[p].blob \in Launching!KeyFile
      /\ \A p \in Process : proc[p].number <= starts
      /\ starts \in Nat
  BY DEF LaunchInv, LaunchTyped, ClaimHeld, Launched
<1> USE DEF PinsStand, Past, Launching!Serving, Launching!Goto, Launching!Become,
        Launching!At, Launching!Idle
<1>2. CASE UNCHANGED <<keys, pruned, proc>>
  BY <1>2
<1>3. ASSUME NEW p \in Process, NEW o \in Options, Launching!Launch(p, o)
      PROVE  PinsStand'
  BY <1>1, <1>3 DEF Launching!Launch, Launched
<1>4. ASSUME NEW p \in Process, Launching!LoadKeys(p)
      PROVE  PinsStand'
  BY <1>1, <1>4 DEF Launching!LoadKeys, Launched
<1>5. ASSUME NEW p \in Process, Launching!CompleteKeys(p) \/ Launching!GenerateKeys(p)
      PROVE  PinsStand'
  BY <1>1, <1>5 DEF Launching!CompleteKeys, Launching!GenerateKeys, Launched
<1>6. ASSUME NEW p \in Process, Launching!WriteKeys(p)
      PROVE  PinsStand'
  BY <1>1, <1>6 DEF Launching!WriteKeys, Launched, KeysStand
<1>7. ASSUME NEW p \in Process, Launching!Configure(p)
      PROVE  PinsStand'
  <2>1. /\ proc[p].pc = "config" /\ UNCHANGED <<keys, pruned>>
        /\ \A q \in Process \ {p} : proc'[q] = proc[q]
    BY <1>1, <1>7 DEF Launching!Configure
  <2>2. \/ proc'[p].pc = "off"
        \/ /\ proc'[p].pc = "bind" /\ proc'[p].blob = proc[p].blob
           /\ proc'[p].opts = proc[p].opts /\ proc'[p].number = proc[p].number
           /\ proc'[p].publishes = Launching!Publishes(proc[p].blob, proc[p].opts)
    BY <1>1, <1>7 DEF Launching!Configure, Launched
  <2>3. proc[p].blob.prunes \/ proc[p].opts.interval
          <=> Launching!Publishes(proc[p].blob, proc[p].opts)
    BY DEF Launching!Publishes
  <2> QED
    BY <1>1, <2>1, <2>2, <2>3
<1>8. ASSUME NEW p \in Process, Launching!Start(p)
      PROVE  PinsStand'
  BY <1>1, <1>8 DEF Launching!Start, Launched
<1>9. ASSUME NEW p \in Process, Launching!StoreToken(p)
      PROVE  PinsStand'
  BY <1>1, <1>9 DEF Launching!StoreToken, Launched
<1>10. ASSUME NEW p \in Process, Launching!ReadPins(p)
       PROVE  PinsStand'
  BY <1>1, <1>10 DEF Launching!ReadPins, Launching!ComeUp, Launching!Unpinned, Launched, Launching!KeyFile
<1>11. ASSUME NEW p \in Process, Launching!WritePins(p)
       PROVE  PinsStand'
  BY <1>1, <1>11 DEF Launching!WritePins, Launching!ComeUp, Launched
<1>12. ASSUME NEW p \in Process, Launching!Prune(p)
       PROVE  PinsStand'
  BY <1>1, <1>12
     DEF Launching!Prune, Launching!PrunerPhases, Launching!IntervalPassed,
         Launching!Others, Launching!Booting
<1>13. ASSUME NEW p \in Process,
              Launching!BindFails(p) \/ Launching!PersistFails(p) \/ Launching!Signal(p)
                \/ Launching!Drained(p) \/ Launching!Die(p)
       PROVE  PinsStand'
  BY <1>1, <1>13
     DEF Launching!BindFails, Launching!PersistFails, Launching!Signal, Launching!Drained,
         Launching!Die, Launching!Persisting, Launched
<1> QED
  BY <1>2, <1>3, <1>4, <1>5, <1>6, <1>7, <1>8, <1>9, <1>10, <1>11, <1>12, <1>13, Zenon
     DEF Launching!Next, Launching!vars

\* A mint that serves with a generated credential finds its own in the token file.
Credentialed ==
  \A p \in Process :
    proc[p].pc \in {"pin", "pinned", "up"} /\ proc[p].gate = "generated"
      /\ proc[p].opts.issuance # "open"
    => token = proc[p].number
LEMMA CredentialStep ==
  ASSUME Launching!ConstantsOK, LaunchInv, Credentialed, [Launching!Next]_(Launching!vars)
  PROVE  Credentialed'
<1>1. /\ \A p \in Process : proc[p] \in Launched /\ p # None
      /\ proc \in [Process -> Launched] /\ starts \in Nat
      /\ \A p \in Process : proc[p].pc # "off" => proc[p].opts \in Launching!Option
  BY DEF LaunchInv, LaunchTyped, Launching!ConstantsOK, Launched
<1> USE DEF Credentialed, Past, Launching!Serving, Launching!Goto, Launching!Become,
        Launching!At, Launching!Idle
<1>2. CASE UNCHANGED <<token, proc>>
  BY <1>2
<1>3. ASSUME NEW p \in Process, NEW o \in Options, Launching!Launch(p, o)
      PROVE  Credentialed'
  BY <1>1, <1>3 DEF Launching!Launch, Launched
<1>4. ASSUME NEW p \in Process,
             Launching!LoadKeys(p) \/ Launching!CompleteKeys(p) \/ Launching!GenerateKeys(p)
               \/ Launching!WriteKeys(p)
      PROVE  Credentialed'
  BY <1>1, <1>4
     DEF Launching!LoadKeys, Launching!CompleteKeys, Launching!GenerateKeys,
         Launching!WriteKeys, Launched
<1>5. ASSUME NEW p \in Process, Launching!Configure(p) \/ Launching!Start(p)
      PROVE  Credentialed'
  BY <1>1, <1>5 DEF Launching!Configure, Launching!Start, Launched
<1>6. ASSUME NEW p \in Process, Launching!StoreToken(p)
      PROVE  Credentialed'
  BY <1>1, <1>6
     DEF Launching!StoreToken, LaunchInv, ClaimHeld, Launching!Gate, Launching!Generates,
         Launching!Option, Launching!Issuance, Launching!RegistrationIsOpen, Launched
<1>7. ASSUME NEW p \in Process, Launching!ReadPins(p) \/ Launching!WritePins(p)
      PROVE  Credentialed'
  BY <1>1, <1>7
     DEF Launching!ReadPins, Launching!WritePins, Launching!ComeUp, Launched
<1>8. ASSUME NEW p \in Process,
             Launching!BindFails(p) \/ Launching!PersistFails(p) \/ Launching!Signal(p)
               \/ Launching!Drained(p) \/ Launching!Die(p)
      PROVE  Credentialed'
  BY <1>1, <1>8
     DEF Launching!BindFails, Launching!PersistFails, Launching!Signal, Launching!Drained,
         Launching!Die, Launching!Persisting, Launched
<1> QED
  BY <1>2, <1>3, <1>4, <1>5, <1>6, <1>7, <1>8, Zenon
     DEF Launching!Next, Launching!vars, Launching!Prune

LEMMA AlwaysLaunched ==
  ASSUME Launching!ConstantsOK
  PROVE  Launching!Spec => []LaunchInv
<1>1. LaunchInv /\ [Launching!Next]_(Launching!vars) => LaunchInv'
  BY LaunchTypes, ClaimStep DEF LaunchInv
<1> QED
  BY <1>1, LaunchInit, PTL DEF Launching!Spec

\* Across every later start, death and race for the claim, all descriptors served
\* name one key and one baseline, which are those on disk, and no mint denies that
\* records were pruned (load_or_create_keys and pin_retention, run_mint.py), as long
\* as two launches do not create the key file at once.
LEMMA PublicationsStand ==
  ASSUME Launching!ConstantsOK, OneFirstStart
  PROVE  Launching!Spec => []Launching!ClaimsStand
<1>1. Launching!Init => KeysStand /\ PinsStand
  BY LaunchInit
<1>2. LaunchInv /\ KeysStand /\ PinsStand /\ [Launching!Next]_(Launching!vars)
        => (KeysStand /\ PinsStand)'
  BY KeysStep, PinsStep
<1>3. KeysStand /\ PinsStand => Launching!ClaimsStand
  BY DEF KeysStand, PinsStand, Past, Launching!Serving, Launching!ClaimsStand
<1> QED
  BY <1>1, <1>2, <1>3, AlwaysLaunched, PTL DEF Launching!Spec

\* Whatever other launches fail or die meanwhile, the mint that serves with a
\* generated credential leaves it in the token file (main, run_mint.py).
LEMMA CredentialsAreKept ==
  ASSUME Launching!ConstantsOK
  PROVE  Launching!Spec => []Launching!CredentialKept
<1>1. Launching!Init => Credentialed
  BY DEF Launching!Init, Launching!Idle, Credentialed
<1>2. LaunchInv /\ Credentialed /\ [Launching!Next]_(Launching!vars) => Credentialed'
  BY CredentialStep
<1>3. Credentialed => Launching!CredentialKept
  BY DEF Credentialed, Launching!CredentialKept
<1> QED
  BY <1>1, <1>2, <1>3, AlwaysLaunched, PTL DEF Launching!Spec

\* The rest of the types: who may hold the claim, and what the token file says.
FilesTyped ==
  /\ holder \in Process \cup {None}
  /\ token \in 1..MaxStarts \cup {None}
  /\ starts <= MaxStarts
  /\ \A p \in Process : proc[p].pc # "off" => proc[p].number >= 1

LEMMA FilesStep ==
  ASSUME Launching!ConstantsOK, LaunchInv, FilesTyped, [Launching!Next]_(Launching!vars)
  PROVE  FilesTyped'
<1>1. /\ \A p \in Process : proc[p] \in Launched /\ proc[p].number <= starts
      /\ proc \in [Process -> Launched] /\ starts \in Nat /\ MaxStarts \in Nat
  BY DEF LaunchInv, LaunchTyped, ClaimHeld, Launching!ConstantsOK
<1>2. \A p \in Process : proc[p].number \in Nat
  BY <1>1 DEF Launched
<1> USE DEF FilesTyped, Launching!Goto, Launching!Become, Launching!At, Launching!Idle
<1>3. CASE UNCHANGED <<token, holder, starts, proc>>
  BY <1>3
<1>4. ASSUME NEW p \in Process, NEW o \in Options, Launching!Launch(p, o)
      PROVE  FilesTyped'
  BY <1>1, <1>4 DEF Launching!Launch
<1>5. ASSUME NEW p \in Process,
             Launching!LoadKeys(p) \/ Launching!CompleteKeys(p) \/ Launching!GenerateKeys(p)
               \/ Launching!WriteKeys(p)
      PROVE  FilesTyped'
  BY <1>1, <1>5
     DEF Launching!LoadKeys, Launching!CompleteKeys, Launching!GenerateKeys,
         Launching!WriteKeys, Launched
<1>6. ASSUME NEW p \in Process, Launching!Configure(p) \/ Launching!Start(p)
      PROVE  FilesTyped'
  BY <1>1, <1>6 DEF Launching!Configure, Launching!Start, Launched
<1>7. ASSUME NEW p \in Process, Launching!StoreToken(p)
      PROVE  FilesTyped'
  <2>1. /\ proc[p].pc = "token" /\ UNCHANGED <<holder, starts>>
        /\ token' \in {None, proc[p].number, token}
        /\ proc' = [proc EXCEPT ![p].pc = "pin"]
    BY <1>7 DEF Launching!StoreToken
  <2>2. proc[p].number \in 1..MaxStarts
    BY <1>1, <1>2, <2>1
  <2>3. \A q \in Process : proc'[q].number = proc[q].number
                           /\ (proc'[q].pc # "off" => proc[q].pc # "off")
    BY <1>1, <2>1
  <2> QED
    BY <2>1, <2>2, <2>3
<1>8. ASSUME NEW p \in Process, Launching!ReadPins(p) \/ Launching!WritePins(p)
      PROVE  FilesTyped'
  BY <1>1, <1>8 DEF Launching!ReadPins, Launching!WritePins, Launching!ComeUp, Launched
<1>9. ASSUME NEW p \in Process,
             Launching!BindFails(p) \/ Launching!PersistFails(p) \/ Launching!Signal(p)
               \/ Launching!Drained(p) \/ Launching!Die(p)
      PROVE  FilesTyped'
  BY <1>1, <1>9
     DEF Launching!BindFails, Launching!PersistFails, Launching!Signal, Launching!Drained,
         Launching!Die, Launching!Persisting, Launched
<1> QED
  BY <1>3, <1>4, <1>5, <1>6, <1>7, <1>8, <1>9, Zenon
     DEF Launching!Next, Launching!vars, Launching!Prune

LEMMA LaunchTypeOK ==
  Launching!ConstantsOK /\ LaunchInv /\ FilesTyped => Launching!TypeOK
<1> SUFFICES ASSUME Launching!ConstantsOK, LaunchInv, FilesTyped PROVE Launching!TypeOK
  OBVIOUS
<1>1. ASSUME NEW p \in Process
      PROVE  /\ proc[p].pc \in Launching!Phase
             /\ (proc[p].pc \in Launching!Serving) <=> holder = p
             /\ proc[p].opts \in Launching!Option \cup {None}
  <2>1. proc[p] \in Launched /\ (proc[p].pc \in Launching!Serving <=> holder = p)
    BY DEF LaunchInv, LaunchTyped, ClaimHeld
  <2> QED
    BY <2>1 DEF Launched, Launching!ConstantsOK
<1> QED
  BY <1>1 DEF FilesTyped, Launching!TypeOK

LEMMA LauncherSafe ==
  ASSUME Launching!ConstantsOK, OneFirstStart
  PROVE  Launching!Spec =>
           [](Launching!TypeOK /\ Launching!ClaimsStand /\ Launching!CredentialKept)
<1>1. Launching!Init => FilesTyped
  BY DEF Launching!ConstantsOK, Launching!Init, Launching!Idle, FilesTyped
<1>2. LaunchInv /\ FilesTyped /\ [Launching!Next]_(Launching!vars) => FilesTyped'
  BY FilesStep
<1>3. LaunchInv /\ FilesTyped => Launching!TypeOK
  BY LaunchTypeOK
<1>4. /\ Launching!Spec => []LaunchInv
      /\ Launching!Spec => []Launching!ClaimsStand
      /\ Launching!Spec => []Launching!CredentialKept
  BY AlwaysLaunched, PublicationsStand, CredentialsAreKept
<1> QED
  BY <1>1, <1>2, <1>3, <1>4, PTL DEF Launching!Spec

\* Across every later start, death and race for the claim, all descriptors served
\* name one key and one baseline, which are those on disk, no mint denies that
\* records were pruned, and the mint that serves with a generated credential
\* leaves it in the token file (load_or_create_keys, pin_retention and main of
\* run_mint.py), as long as two launches do not create the key file at once.
THEOREM LaunchesAreKept ==
  ASSUME Launching!ConstantsOK, OneFirstStart
  PROVE  ProgramSpec => []LaunchesStand
<1>1. ProgramInit /\ program = "launcher" => Launching!Init
  BY Zenon DEF ProgramInit
<1>2. program = "launcher" /\ [ProgramNext]_programVars =>
        (program = "launcher")' /\ [Launching!Next]_(Launching!vars)
  BY DEF ProgramNext, programVars, launcherVars, Launching!vars
<1>3. ~(program = "launcher") /\ [ProgramNext]_programVars => ~(program = "launcher")'
  BY DEF ProgramNext, programVars
<1>4. Launching!Spec =>
        [](Launching!TypeOK /\ Launching!ClaimsStand /\ Launching!CredentialKept)
  BY LauncherSafe
<1>5. LaunchesStand <=>
        (program = "launcher" =>
           Launching!TypeOK /\ Launching!ClaimsStand /\ Launching!CredentialKept)
  BY DEF LaunchesStand
<1> QED
  BY <1>1, <1>2, <1>3, <1>4, <1>5, PTL DEF ProgramSpec, Launching!Spec

-----------------------------------------------------------------------------
(***************************************************************************)
(* MintControl.                                                            *)
(***************************************************************************)
ControlTyped ==
  /\ mint \in [MintProcess -> {"new", "boot", "up", "wedged", "term", "closing", "dead"}]
  /\ stated \in MintProcess \cup {None}
  /\ step \in [Gui -> {"idle", "match", "adopt", "report", "spawn", "write", "await", "remember",
                     "fail", "find", "signal", "gone", "mark"}]
  /\ child \in [Gui -> MintProcess \cup {None}] /\ loc \in [Gui -> MintProcess \cup {None}]
  /\ said \in [Gui -> Controlling!Answers \cup {None}]
  /\ fresh \in [Gui -> SUBSET MintProcess]
  /\ \A g \in Gui : /\ step[g] \in {"write", "await"} => child[g] \in MintProcess
                    /\ step[g] \in {"signal", "gone"} => loc[g] \in MintProcess

\* What a look has seen alive and lost sight of since is dead; a look that names no
\* mint has seen none that lives.
Sighted ==
  \A g \in Gui :
    /\ fresh[g] \subseteq Controlling!Alive
    /\ step[g] = "report" /\ loc[g] = None => fresh[g] = {}
    /\ said[g] # None => step[g] = "idle"
    /\ said[g] = "stopped" => fresh[g] = {}

ControlInv == ControlTyped /\ Sighted

-----------------------------------------------------------------------------
LEMMA ControlInit ==
  ASSUME Controlling!ConstantsOK, Controlling!Init
  PROVE  ControlInv
BY DEF Controlling!ConstantsOK, Controlling!Init, ControlInv, ControlTyped, Sighted,
       Controlling!Answers

\* The mints and the desktops keep what they name.
LEMMA ControlTypes ==
  ASSUME Controlling!ConstantsOK, ControlTyped, [Controlling!Next]_(Controlling!vars)
  PROVE  ControlTyped'
<1> USE DEF ControlTyped, Controlling!At, Controlling!Goto, Controlling!Becomes,
        Controlling!Answer, Controlling!Look, Controlling!files, Controlling!desktop
<1>1. CASE UNCHANGED Controlling!vars
  BY <1>1 DEF Controlling!vars
<1>2. ASSUME NEW m \in MintProcess,
             Controlling!Boots(m) \/ Controlling!Wedges(m) \/ Controlling!Drains(m)
               \/ Controlling!Dies(m)
      PROVE  ControlTyped'
  BY <1>2 DEF Controlling!Boots, Controlling!Wedges, Controlling!Drains, Controlling!Dies
<1>3. ASSUME NEW m \in MintProcess, Controlling!StoresToken(m)
      PROVE  ControlTyped'
  BY <1>3 DEF Controlling!StoresToken
<1>4. ASSUME NEW g \in Gui, NEW t \in {"status", "start", "stop"}, Controlling!Call(g, t)
      PROVE  ControlTyped'
  BY <1>4 DEF Controlling!Call, Controlling!Alive
<1>5. ASSUME NEW g \in Gui, Controlling!Match(g) \/ Controlling!Adopt(g)
      PROVE  ControlTyped'
  BY <1>5 DEF Controlling!Match, Controlling!Adopt, Controlling!Serving, Controlling!Alive
<1>6. ASSUME NEW g \in Gui, Controlling!ReportStatus(g) \/ Controlling!Preflight(g)
      PROVE  ControlTyped'
  BY <1>6 DEF Controlling!ReportStatus, Controlling!Preflight, Controlling!Answers
<1>7. ASSUME NEW g \in Gui, Controlling!Spawn(g) \/ Controlling!WriteState(g)
      PROVE  ControlTyped'
  BY <1>7 DEF Controlling!Spawn, Controlling!WriteState
<1>8. ASSUME NEW g \in Gui,
             Controlling!ChildExited(g) \/ Controlling!Answered(g) \/ Controlling!TimesOut(g)
      PROVE  ControlTyped'
  BY <1>8 DEF Controlling!ChildExited, Controlling!Answered, Controlling!TimesOut
<1>9. ASSUME NEW g \in Gui, Controlling!Remember(g) \/ Controlling!Fail(g)
      PROVE  ControlTyped'
  BY <1>9 DEF Controlling!Remember, Controlling!Fail, Controlling!Alive, Controlling!Answers
<1>10. ASSUME NEW g \in Gui, Controlling!Find(g)
       PROVE  ControlTyped'
  BY <1>10 DEF Controlling!Find, Controlling!Serving, Controlling!Alive
<1>11. ASSUME NEW g \in Gui, Controlling!SignalTerm(g) \/ Controlling!SignalKill(g)
       PROVE  ControlTyped'
  BY <1>11 DEF Controlling!SignalTerm, Controlling!SignalKill
<1>12. ASSUME NEW g \in Gui, Controlling!Gone(g) \/ Controlling!Mark(g) \/ Controlling!Killed(g)
       PROVE  ControlTyped'
  BY <1>12 DEF Controlling!Gone, Controlling!Mark, Controlling!Killed, Controlling!Alive
<1> QED
  BY <1>1, <1>2, <1>3, <1>4, <1>5, <1>6, <1>7, <1>8, <1>9, <1>10, <1>11, <1>12, Zenon
     DEF Controlling!Next

\* What a look has seen stays true of the mints, whoever moves.
LEMMA SightedStep ==
  ASSUME Controlling!ConstantsOK, ControlInv, [Controlling!Next]_(Controlling!vars)
  PROVE  Sighted'
<1>1. ControlTyped /\ ControlTyped' /\ None \notin MintProcess /\ None \notin {"running", "stopped", "failed"}
  BY ControlTypes DEF ControlInv, Controlling!ConstantsOK
<1> USE DEF ControlInv, ControlTyped, Sighted, Controlling!At, Controlling!Goto,
        Controlling!Answer, Controlling!Look, Controlling!files, Controlling!desktop
<1>2. CASE UNCHANGED Controlling!vars
  BY <1>2 DEF Controlling!vars, Controlling!Alive
<1>3. ASSUME NEW m \in MintProcess, NEW s, s # "new", Controlling!Becomes(m, s)
      PROVE  /\ \A g \in Gui : fresh'[g] \subseteq fresh[g] /\ fresh'[g] \subseteq Controlling!Alive'
  BY <1>3 DEF Controlling!Becomes, Controlling!Alive
<1>4. ASSUME NEW m \in MintProcess,
             Controlling!Boots(m) \/ Controlling!Wedges(m) \/ Controlling!Drains(m)
               \/ Controlling!Dies(m)
      PROVE  Sighted'
  <2>1. PICK s : s # "new" /\ Controlling!Becomes(m, s)
    BY <1>4 DEF Controlling!Boots, Controlling!Wedges, Controlling!Drains, Controlling!Dies
  <2>2. UNCHANGED <<step, loc, said>>
    BY <1>4 DEF Controlling!Boots, Controlling!Wedges, Controlling!Drains, Controlling!Dies
  <2> QED
    BY <1>1, <1>3, <2>1, <2>2
<1>5. ASSUME NEW m \in MintProcess, Controlling!StoresToken(m)
      PROVE  Sighted'
  BY <1>5 DEF Controlling!StoresToken, Controlling!Alive
<1>6. ASSUME NEW g \in Gui, NEW t \in {"status", "start", "stop"}, Controlling!Call(g, t)
      PROVE  Sighted'
  BY <1>1, <1>6 DEF Controlling!Call, Controlling!Alive
<1>7. ASSUME NEW g \in Gui, Controlling!Match(g)
      PROVE  Sighted'
  BY <1>1, <1>7 DEF Controlling!Match, Controlling!Alive
<1>8. ASSUME NEW g \in Gui, Controlling!Adopt(g)
      PROVE  Sighted'
  BY <1>1, <1>8 DEF Controlling!Adopt, Controlling!Serving, Controlling!Alive
<1>9. ASSUME NEW g \in Gui, Controlling!ReportStatus(g) \/ Controlling!Preflight(g)
      PROVE  Sighted'
  BY <1>1, <1>9 DEF Controlling!ReportStatus, Controlling!Preflight, Controlling!Alive
<1>10. ASSUME NEW g \in Gui, Controlling!Spawn(g)
       PROVE  Sighted'
  BY <1>1, <1>3, <1>10 DEF Controlling!Spawn
<1>11. ASSUME NEW g \in Gui,
              Controlling!WriteState(g) \/ Controlling!ChildExited(g) \/ Controlling!Answered(g)
       PROVE  Sighted'
  BY <1>1, <1>11
     DEF Controlling!WriteState, Controlling!ChildExited, Controlling!Answered, Controlling!Alive
<1>12. ASSUME NEW g \in Gui, Controlling!TimesOut(g)
       PROVE  Sighted'
  BY <1>1, <1>3, <1>12 DEF Controlling!TimesOut
<1>13. ASSUME NEW g \in Gui, Controlling!Remember(g)
       PROVE  Sighted'
  BY <1>1, <1>13 DEF Controlling!Remember, Controlling!Alive
<1>14. ASSUME NEW g \in Gui, Controlling!Fail(g) \/ Controlling!Find(g) \/ Controlling!Gone(g)
       PROVE  Sighted'
  BY <1>1, <1>14 DEF Controlling!Fail, Controlling!Find, Controlling!Gone, Controlling!Alive
<1>15. ASSUME NEW g \in Gui, Controlling!SignalTerm(g)
       PROVE  Sighted'
  <2>1. \/ UNCHANGED <<mint, fresh>>
        \/ \E s \in {"term", "dead"} : Controlling!Becomes(loc[g], s)
    BY <1>15 DEF Controlling!SignalTerm
  <2>2. /\ loc[g] \in MintProcess /\ UNCHANGED <<loc, said>> /\ step' = [step EXCEPT ![g] = "gone"]
        /\ step[g] = "signal"
    BY <1>15 DEF Controlling!SignalTerm
  <2>3. \A h \in Gui : fresh'[h] \subseteq fresh[h] /\ fresh'[h] \subseteq Controlling!Alive'
    BY <1>3, <2>1, <2>2 DEF Controlling!Alive
  <2> QED
    BY <1>1, <2>2, <2>3
<1>16. ASSUME NEW g \in Gui, Controlling!SignalKill(g)
       PROVE  Sighted'
  BY <1>1, <1>3, <1>16 DEF Controlling!SignalKill
<1>17. ASSUME NEW g \in Gui, Controlling!Mark(g) \/ Controlling!Killed(g)
       PROVE  Sighted'
  BY <1>1, <1>17 DEF Controlling!Mark, Controlling!Killed, Controlling!Alive
<1> QED
  BY <1>2, <1>4, <1>5, <1>6, <1>7, <1>8, <1>9, <1>10, <1>11, <1>12, <1>13, <1>14, <1>15,
     <1>16, <1>17, Zenon DEF Controlling!Next

\* At most one mint holds the port and the claim.
OneHolder == \A m \in Controlling!Holders, n \in Controlling!Holders : m = n

LEMMA HolderStep ==
  ASSUME ControlTyped, OneHolder, [Controlling!Next]_(Controlling!vars)
  PROVE  OneHolder'
<1> USE DEF ControlTyped, Controlling!files, Controlling!desktop
<1>1. CASE UNCHANGED mint
  BY <1>1 DEF OneHolder, Controlling!Holders
<1>2. ASSUME NEW m \in MintProcess, NEW s, Controlling!Becomes(m, s),
             s \in {"up", "wedged", "term"} =>
               m \in Controlling!Holders \/ Controlling!Holders = {}
      PROVE  OneHolder'
  <2>1. \A n \in MintProcess \ {m} : mint'[n] = mint[n]
    BY <1>2 DEF Controlling!Becomes
  <2>2. mint'[m] = s
    BY <1>2 DEF Controlling!Becomes
  <2> QED
    BY <1>2, <2>1, <2>2 DEF OneHolder, Controlling!Holders
<1>3. ASSUME NEW m \in MintProcess,
             Controlling!Boots(m) \/ Controlling!Wedges(m) \/ Controlling!Drains(m)
               \/ Controlling!Dies(m)
      PROVE  OneHolder'
  BY <1>2, <1>3 DEF Controlling!Boots, Controlling!Wedges, Controlling!Drains,
     Controlling!Dies, Controlling!Holders
<1>4. ASSUME NEW g \in Gui, Controlling!Spawn(g)
      PROVE  OneHolder'
  BY <1>2, <1>4 DEF Controlling!Spawn
<1>5. ASSUME NEW g \in Gui, Controlling!TimesOut(g)
      PROVE  OneHolder'
  BY <1>2, <1>5 DEF Controlling!TimesOut, Controlling!At
<1>6. ASSUME NEW g \in Gui, Controlling!SignalTerm(g)
      PROVE  OneHolder'
  <2>1. loc[g] \in MintProcess
    BY <1>6 DEF Controlling!SignalTerm, Controlling!At
  <2> QED
    BY <1>1, <1>2, <1>6, <2>1 DEF Controlling!SignalTerm, Controlling!Holders
<1>7. ASSUME NEW g \in Gui, Controlling!SignalKill(g)
      PROVE  OneHolder'
  <2>1. loc[g] \in MintProcess
    BY <1>7 DEF Controlling!SignalKill, Controlling!At
  <2> QED
    BY <1>2, <1>7, <2>1 DEF Controlling!SignalKill
<1> QED
  BY <1>1, <1>3, <1>4, <1>5, <1>6, <1>7, Zenon
     DEF Controlling!Next, Controlling!vars, Controlling!StoresToken, Controlling!Call,
         Controlling!Match, Controlling!Adopt, Controlling!ReportStatus,
         Controlling!Preflight, Controlling!WriteState, Controlling!ChildExited,
         Controlling!Answered, Controlling!Remember, Controlling!Fail, Controlling!Find,
         Controlling!Gone, Controlling!Mark, Controlling!Killed

LEMMA ControlTypeOK ==
  ASSUME ControlTyped, OneHolder
  PROVE  Controlling!TypeOK
<1>1. Cardinality(Controlling!Holders) <= 1
  <2>1. CASE Controlling!Holders = {}
    BY <2>1, FS_EmptySet
  <2>2. ASSUME NEW m \in Controlling!Holders PROVE Cardinality(Controlling!Holders) <= 1
    <3>1. Controlling!Holders = {m}
      BY <2>2 DEF OneHolder
    <3> QED
      BY <3>1, FS_Singleton
  <2> QED
    BY <2>1, <2>2
<1> QED
  BY <1>1 DEF ControlTyped, Controlling!TypeOK, Controlling!Cardinality, Cardinality

LEMMA ControlSafe ==
  ASSUME Controlling!ConstantsOK
  PROVE  Controlling!Spec => [](Controlling!TypeOK /\ Controlling!NoMintLost)
<1>1. ControlInv /\ [Controlling!Next]_(Controlling!vars) => ControlInv'
  BY ControlTypes, SightedStep DEF ControlInv
<1>2. ControlInv => Controlling!NoMintLost
  BY DEF ControlInv, Sighted, Controlling!NoMintLost
<1>3. Controlling!Init => OneHolder
  BY DEF Controlling!Init, OneHolder, Controlling!Holders
<1>4. ControlInv /\ OneHolder /\ [Controlling!Next]_(Controlling!vars) => OneHolder'
  BY HolderStep DEF ControlInv
<1>5. ControlInv /\ OneHolder => Controlling!TypeOK
  BY ControlTypeOK DEF ControlInv
<1> QED
  BY <1>1, <1>2, <1>3, <1>4, <1>5, ControlInit, PTL DEF Controlling!Spec

\* With any number of desktops on one directory, each killed at any step, and mints
\* that die by themselves, no call answers "stopped" while a mint lives that was
\* there when the call began to look (status and _adopt_orphan, gui/mintctl.py).
THEOREM MintsAreFound ==
  ASSUME Controlling!ConstantsOK
  PROVE  ProgramSpec => []NoMintLost
<1>1. ProgramInit /\ program = "control" => Controlling!Init
  BY Zenon DEF ProgramInit
<1>2. program = "control" /\ [ProgramNext]_programVars =>
        (program = "control")' /\ [Controlling!Next]_(Controlling!vars)
  BY DEF ProgramNext, programVars, controlVars, Controlling!vars, Controlling!files,
     Controlling!desktop
<1>3. ~(program = "control") /\ [ProgramNext]_programVars => ~(program = "control")'
  BY DEF ProgramNext, programVars
<1>4. Controlling!Spec => [](Controlling!TypeOK /\ Controlling!NoMintLost)
  BY ControlSafe
<1>5. NoMintLost <=>
        (program = "control" => Controlling!TypeOK /\ Controlling!NoMintLost)
  BY DEF NoMintLost
<1> QED
  BY <1>1, <1>2, <1>3, <1>4, <1>5, PTL DEF ProgramSpec, Controlling!Spec

-----------------------------------------------------------------------------
(***************************************************************************)
(* Wallet.                                                                 *)
(***************************************************************************)
StoreTyped ==
  /\ tokens \in [DOMAIN tokens -> Bearer!Token] /\ DOMAIN tokens \subseteq Coins
  /\ ops \in Seq(Bearer!Operation) /\ Len(ops) <= MaxOps
  /\ given \subseteq Coins
  /\ policy \in Nat
MintTyped ==
  /\ entries \in [DOMAIN entries -> {"unspent", "spent"}]
  /\ idem \in [DOMAIN idem -> Bearer!Answer] /\ DOMAIN idem \subseteq DOMAIN ops
  /\ requests \subseteq DOMAIN ops
ProcTyped ==
  /\ doing \in [Proc -> {"idle", "selected", "planned", "sent", "answered",
                         "marking", "recover", "probed", "weighed"}]
  /\ calling \in [Proc -> Calls \cup {"none"}]
  /\ plan \in [Proc -> 0..MaxOps]
  /\ coins \in [Proc -> SUBSET Coins]
  /\ todo \in [Proc -> SUBSET (1..MaxOps)]
  /\ DOMAIN probed = Proc
  /\ \A p \in Proc :
       /\ doing[p] \in {"planned", "sent", "answered", "marking", "probed", "weighed"}
            => plan[p] \in DOMAIN ops
       /\ doing[p] \in {"selected", "planned", "sent", "answered", "marking"}
            => calling[p] # "none"
       /\ todo[p] \subseteq DOMAIN ops
BearerTyped == StoreTyped /\ MintTyped /\ ProcTyped

-----------------------------------------------------------------------------
LEMMA BearerConstants ==
  ASSUME Bearer!ConstantsOK
  PROVE  /\ Held \subseteq Coins /\ Foreign \subseteq Coins /\ Held \cap Foreign = {}
         /\ MaxOps \in Nat /\ MaxPolicy \in Nat /\ None \notin 0..MaxOps
         /\ Calls \subseteq {"pay", "receive", "receive_batch", "handle_refused"}
BY DEF Bearer!ConstantsOK

LEMMA BearerTypesInit ==
  ASSUME Bearer!ConstantsOK, Bearer!Init
  PROVE  BearerTyped
<1> USE BearerConstants DEF Bearer!Init
<1>1. StoreTyped
  BY DEF StoreTyped, Bearer!Token
<1>2. MintTyped
  BY DEF MintTyped
<1>3. ProcTyped
  BY DEF ProcTyped
<1> QED
  BY <1>1, <1>2, <1>3 DEF BearerTyped

LEMMA PlansTyped ==
  ASSUME BearerTyped
  PROVE  \A o \in DOMAIN ops : ops[o] \in Bearer!Operation
<1> SUFFICES ASSUME NEW o \in DOMAIN ops
             PROVE  ops[o] \in Bearer!Operation
  OBVIOUS
<1> QED
  BY DEF BearerTyped, StoreTyped

\* What planning writes: a plan at the end of the list, fresh pending outputs, and
\* the reservations of its inputs.
Planning(p, o, outputs) ==
  /\ o = Len(ops) + 1 /\ o \in 1..MaxOps /\ o \notin DOMAIN ops
  /\ outputs \subseteq Bearer!Unused /\ outputs # {}
  /\ ops' \in Seq(Bearer!Operation) /\ Len(ops') = o
  /\ DOMAIN ops' = DOMAIN ops \cup {o}
  /\ ops'[o] = [kind |-> Bearer!KindOf(calling[p]), state |-> "planned", inputs |-> coins[p],
                outputs |-> outputs, policy |-> policy]
  /\ \A x \in DOMAIN ops : ops'[x] = ops[x]
  /\ DOMAIN tokens' = DOMAIN tokens \cup outputs
  /\ \A k \in outputs :
       /\ tokens'[k] \in Bearer!Token
       /\ tokens'[k].state = "pending" /\ tokens'[k].op_id = o /\ tokens'[k].reserved_by = None
  /\ \A k \in DOMAIN tokens :
       tokens'[k] = IF k \in Bearer!Reserved(calling[p], coins[p])
                    THEN [tokens[k] EXCEPT !.reserved_by = o] ELSE tokens[k]
  /\ tokens' = [k \in DOMAIN tokens' |-> tokens'[k]]
  /\ plan' = [plan EXCEPT ![p] = o]

LEMMA PersistPlans ==
  ASSUME Bearer!ConstantsOK, BearerTyped, NEW p \in Proc, Bearer!Persist(p)
  PROVE  \E o, outputs : Planning(p, o, outputs)
<1>1. PICK n \in IF calling[p] = "pay" THEN {1, 2} ELSE {1} :
       LET o == Len(ops) + 1
           outputs == Bearer!Draw(n)
           role == Bearer!Roles(calling[p], outputs)
       IN  /\ Bearer!Cardinality(outputs) = n
           /\ ops' = Append(ops, [kind |-> Bearer!KindOf(calling[p]), state |-> "planned",
                                  inputs |-> coins[p], outputs |-> outputs,
                                  policy |-> policy])
           /\ tokens' = [k \in DOMAIN tokens \cup outputs |->
                IF k \in outputs
                THEN [state |-> "pending", role |-> role[k], op_id |-> o,
                      reserved_by |-> None]
                ELSE IF k \in Bearer!Reserved(calling[p], coins[p])
                     THEN [tokens[k] EXCEPT !.reserved_by = o] ELSE tokens[k]]
           /\ plan' = [plan EXCEPT ![p] = o]
  BY Zenon DEF Bearer!Persist
<1>2. PICK o : o = Len(ops) + 1
  OBVIOUS
<1>3. PICK outputs : outputs = Bearer!Draw(n)
  OBVIOUS
<1>4. PICK role : role = Bearer!Roles(calling[p], outputs)
  OBVIOUS
<1>5. PICK opRow : opRow = [kind |-> Bearer!KindOf(calling[p]), state |-> "planned",
                        inputs |-> coins[p], outputs |-> outputs, policy |-> policy]
  OBVIOUS
<1>6. /\ ops' = Append(ops, opRow)
      /\ tokens' = [k \in DOMAIN tokens \cup outputs |->
           IF k \in outputs
           THEN [state |-> "pending", role |-> role[k], op_id |-> o, reserved_by |-> None]
           ELSE IF k \in Bearer!Reserved(calling[p], coins[p])
                THEN [tokens[k] EXCEPT !.reserved_by = o] ELSE tokens[k]]
      /\ plan' = [plan EXCEPT ![p] = o]
  BY <1>1, <1>2, <1>3, <1>4, <1>5, Zenon
<1>7. outputs \subseteq Bearer!Unused /\ outputs \subseteq Coins /\ coins[p] \subseteq Coins
  BY <1>3 DEF Bearer!Draw, Bearer!Unused, BearerTyped, ProcTyped
<1>8. /\ ops \in Seq(Bearer!Operation) /\ Len(ops) < MaxOps /\ MaxOps \in Nat
      /\ policy \in Nat /\ None \notin 0..MaxOps
  BY BearerConstants DEF BearerTyped, StoreTyped, Bearer!Persist
<1>9. o \in 1..MaxOps /\ o \notin DOMAIN ops
  BY <1>2, <1>8
<1>10. opRow \in Bearer!Operation
  <2>1. Bearer!KindOf(calling[p]) \in {"receive", "pay", "refused"}
    BY DEF Bearer!KindOf
  <2> QED
    BY <1>5, <1>7, <1>8, <2>1 DEF Bearer!Operation
<1>11. /\ ops' \in Seq(Bearer!Operation) /\ Len(ops') = o
       /\ DOMAIN ops' = DOMAIN ops \cup {o} /\ ops'[o] = opRow
       /\ \A x \in DOMAIN ops : ops'[x] = ops[x]
  BY <1>2, <1>6, <1>8, <1>10
<1>12. \A k \in outputs : role[k] \in {"receive", "payment", "change", "refund"}
  BY <1>4 DEF Bearer!Roles
<1>13. \A k \in outputs :
         [state |-> "pending", role |-> role[k], op_id |-> o, reserved_by |-> None]
           \in Bearer!Token
  BY <1>8, <1>9, <1>12 DEF Bearer!Token
<1>14. /\ DOMAIN tokens' = DOMAIN tokens \cup outputs
       /\ \A k \in outputs :
            /\ tokens'[k] \in Bearer!Token
            /\ tokens'[k].state = "pending" /\ tokens'[k].op_id = o
            /\ tokens'[k].reserved_by = None
  BY <1>6, <1>13
<1>15. \A k \in DOMAIN tokens : k \notin outputs
  BY <1>7 DEF Bearer!Unused
<1>16. /\ \A k \in DOMAIN tokens :
            tokens'[k] = IF k \in Bearer!Reserved(calling[p], coins[p])
                         THEN [tokens[k] EXCEPT !.reserved_by = o] ELSE tokens[k]
       /\ tokens' = [k \in DOMAIN tokens' |-> tokens'[k]]
  BY <1>6, <1>15
<1>17. outputs # {}
  <2>1. Bearer!Cardinality(outputs) # 0
    BY <1>1, <1>3
  <2> QED
    BY <2>1, FS_EmptySet DEF Bearer!Cardinality
<1>18. Planning(p, o, outputs)
  BY <1>2, <1>5, <1>6, <1>7, <1>9, <1>11, <1>14, <1>16, <1>17, Zenon DEF Planning
<1> QED
  BY <1>18

\* A plan is appended or settled; nothing else is done to the list of them.
LEMMA OpsGrow ==
  ASSUME Bearer!ConstantsOK, BearerTyped, [Bearer!Next]_(Bearer!vars)
  PROVE  /\ ops' \in Seq(Bearer!Operation) /\ Len(ops') <= MaxOps
         /\ DOMAIN ops \subseteq DOMAIN ops'
<1> USE BearerConstants DEF BearerTyped, StoreTyped
<1>1. CASE UNCHANGED ops
  BY <1>1
<1>2. ASSUME NEW p \in Proc, Bearer!Persist(p)
      PROVE  /\ ops' \in Seq(Bearer!Operation) /\ Len(ops') <= MaxOps
             /\ DOMAIN ops \subseteq DOMAIN ops'
  <2>1. PICK o, outputs : Planning(p, o, outputs)
    BY <1>2, PersistPlans
  <2> QED
    BY <2>1 DEF Planning
<1>3. ASSUME NEW o \in DOMAIN ops, NEW state \in {"done", "failed"}, Bearer!Settle(o, state)
      PROVE  /\ ops' \in Seq(Bearer!Operation) /\ Len(ops') <= MaxOps
             /\ DOMAIN ops \subseteq DOMAIN ops'
  <2>1. ops[o] \in Bearer!Operation
    OBVIOUS
  <2>2. [ops[o] EXCEPT !.state = state] \in Bearer!Operation
    BY <2>1 DEF Bearer!Operation
  <2> QED
    BY <1>3, <2>2 DEF Bearer!Settle
<1>4. ASSUME NEW p \in Proc,
             \/ Bearer!ResolveSuccess(p) \/ Bearer!ResolveFailed(p) \/ Bearer!Confirm(p)
             \/ Bearer!Orphan(p)
      PROVE  plan[p] \in DOMAIN ops /\ \E state \in {"done", "failed"} : Bearer!Settle(plan[p], state)
  BY <1>4 DEF ProcTyped, Bearer!ResolveSuccess, Bearer!ResolveFailed, Bearer!Confirm, Bearer!Orphan
<1>5. CASE \E p \in Proc : \/ Bearer!ResolveSuccess(p) \/ Bearer!ResolveFailed(p)
                           \/ Bearer!Confirm(p) \/ Bearer!Orphan(p)
  BY <1>3, <1>4, <1>5
<1> QED
  BY <1>1, <1>2, <1>5, Zenon
     DEF Bearer!Next, Bearer!Steps, Bearer!Recovery, Bearer!vars, Bearer!store,
         Bearer!SelectCoins, Bearer!ReceiveToken, Bearer!ReceiveBatch, Bearer!HandleRefused,
         Bearer!Begin, Bearer!Send, Bearer!NotPersisted, Bearer!GetAnswer, Bearer!Retry,
         Bearer!GiveUp, Bearer!MarkDead, Bearer!NextRound, Bearer!Return,
         Bearer!BeginRecover, Bearer!Probe, Bearer!Weigh, Bearer!RecoverReturns,
         Bearer!RecoverRaises, Bearer!Crash, Bearer!Deliver, Bearer!Lose, Bearer!Redeem,
         Bearer!ChangePolicy

\* The rows keep their types.
LEMMA RowsTyped ==
  ASSUME Bearer!ConstantsOK, BearerTyped, [Bearer!Next]_(Bearer!vars)
  PROVE  tokens' \in [DOMAIN tokens' -> Bearer!Token] /\ DOMAIN tokens' \subseteq Coins
<1>1. /\ \A k \in DOMAIN tokens : tokens[k] \in Bearer!Token
      /\ tokens \in [DOMAIN tokens -> Bearer!Token] /\ DOMAIN tokens \subseteq Coins
      /\ None \notin 0..MaxOps /\ MaxOps \in Nat
  BY BearerConstants DEF BearerTyped, StoreTyped
<1>2. CASE UNCHANGED tokens
  BY <1>1, <1>2
<1>3. ASSUME NEW p \in Proc, Bearer!Persist(p)
      PROVE  tokens' \in [DOMAIN tokens' -> Bearer!Token] /\ DOMAIN tokens' \subseteq Coins
  <2>1. PICK o, outputs : Planning(p, o, outputs)
    BY <1>3, PersistPlans
  <2>2. outputs \subseteq Coins /\ o \in 1..MaxOps
    BY <2>1 DEF Planning, Bearer!Unused
  <2>3. \A k \in DOMAIN tokens : [tokens[k] EXCEPT !.reserved_by = o] \in Bearer!Token
    BY <1>1, <2>2 DEF Bearer!Token
  <2>4. \A k \in DOMAIN tokens' : tokens'[k] \in Bearer!Token
    BY <1>1, <2>1, <2>3 DEF Planning
  <2> QED
    BY <1>1, <2>1, <2>2, <2>4 DEF Planning
<1>4. ASSUME NEW p \in Proc, Bearer!ResolveSuccess(p)
      PROVE  tokens' \in [DOMAIN tokens' -> Bearer!Token] /\ DOMAIN tokens' \subseteq Coins
  <2>1. \A k \in DOMAIN tokens : Bearer!SettleRow(plan[p], tokens[k]) \in Bearer!Token
    BY <1>1 DEF Bearer!SettleRow, Bearer!Token
  <2> QED
    BY <1>1, <1>4, <2>1 DEF Bearer!ResolveSuccess
<1>5. ASSUME NEW p \in Proc, Bearer!ResolveFailed(p)
      PROVE  tokens' \in [DOMAIN tokens' -> Bearer!Token] /\ DOMAIN tokens' \subseteq Coins
  <2>1. \A k \in DOMAIN tokens : Bearer!FailRow(plan[p], tokens[k]) \in Bearer!Token
    BY <1>1 DEF Bearer!FailRow, Bearer!Token
  <2> QED
    BY <1>1, <1>5, <2>1 DEF Bearer!ResolveFailed
<1>6. ASSUME NEW p \in Proc, Bearer!MarkDead(p)
      PROVE  tokens' \in [DOMAIN tokens' -> Bearer!Token] /\ DOMAIN tokens' \subseteq Coins
  <2>1. PICK k \in DOMAIN tokens :
          tokens' = [tokens EXCEPT ![k] = [tokens[k] EXCEPT !.state = "spent_out"]]
    BY <1>6 DEF Bearer!MarkDead, Bearer!Unmarked, Bearer!Ours
  <2>2. [tokens[k] EXCEPT !.state = "spent_out"] \in Bearer!Token
    BY <1>1 DEF Bearer!Token
  <2> QED
    BY <1>1, <2>1, <2>2
<1>7. ASSUME NEW p \in Proc, Bearer!Confirm(p)
      PROVE  tokens' \in [DOMAIN tokens' -> Bearer!Token] /\ DOMAIN tokens' \subseteq Coins
  <2>1. \A k \in DOMAIN tokens : \A state \in {"confirmed", "spent_out"} :
          /\ [tokens[k] EXCEPT !.state = state] \in Bearer!Token
          /\ [tokens[k] EXCEPT !.state = state, !.reserved_by = None] \in Bearer!Token
    BY <1>1 DEF Bearer!Token
  <2> QED
    BY <1>1, <1>7, <2>1 DEF Bearer!Confirm
<1>8. ASSUME NEW p \in Proc, Bearer!Orphan(p)
      PROVE  tokens' \in [DOMAIN tokens' -> Bearer!Token] /\ DOMAIN tokens' \subseteq Coins
  <2>1. \A k \in DOMAIN tokens : \A state \in {"confirmed", "spent_out", "orphan"} :
          /\ [tokens[k] EXCEPT !.state = state] \in Bearer!Token
          /\ [tokens[k] EXCEPT !.state = state, !.reserved_by = None] \in Bearer!Token
    BY <1>1 DEF Bearer!Token
  <2> QED
    BY <1>1, <1>8, <2>1 DEF Bearer!Orphan, Bearer!Restored
<1> QED
  BY <1>2, <1>3, <1>4, <1>5, <1>6, <1>7, <1>8, Zenon
     DEF Bearer!Next, Bearer!Steps, Bearer!Recovery, Bearer!vars, Bearer!store,
         Bearer!SelectCoins, Bearer!ReceiveToken, Bearer!ReceiveBatch, Bearer!HandleRefused,
         Bearer!Begin, Bearer!Send, Bearer!NotPersisted, Bearer!GetAnswer, Bearer!Retry,
         Bearer!GiveUp, Bearer!NextRound, Bearer!Return,
         Bearer!BeginRecover, Bearer!Probe, Bearer!Weigh, Bearer!RecoverReturns,
         Bearer!RecoverRaises, Bearer!Crash, Bearer!Deliver, Bearer!Lose, Bearer!Redeem,
         Bearer!ChangePolicy

\* So do the mint's tables and what is under way to it.
LEMMA MintTypes ==
  ASSUME Bearer!ConstantsOK, BearerTyped, [Bearer!Next]_(Bearer!vars)
  PROVE  MintTyped'
<1>1. /\ entries \in [DOMAIN entries -> {"unspent", "spent"}]
      /\ idem \in [DOMAIN idem -> Bearer!Answer] /\ DOMAIN idem \subseteq DOMAIN ops
      /\ requests \subseteq DOMAIN ops /\ DOMAIN ops \subseteq DOMAIN ops'
  BY OpsGrow DEF BearerTyped, MintTyped
<1>2. \A o \in DOMAIN ops : ops[o].inputs \subseteq Coins
  BY PlansTyped DEF Bearer!Operation
<1>3. CASE UNCHANGED <<entries, idem>> /\ requests' \subseteq requests
  BY <1>1, <1>3 DEF MintTyped
<1>4. ASSUME NEW p \in Proc, Bearer!Send(p)
      PROVE  MintTyped'
  <2>1. plan[p] \in DOMAIN ops
    BY <1>4 DEF Bearer!Send, BearerTyped, ProcTyped
  <2> QED
    BY <1>1, <1>4, <2>1 DEF Bearer!Send, Bearer!mint, MintTyped
<1>5. CASE Bearer!Deliver
  <2>1. PICK o \in requests : Bearer!Execute(o) /\ requests' = requests \ {o}
    BY <1>5 DEF Bearer!Deliver
  <2>2. o \in DOMAIN ops /\ Bearer!BadInputs(o) \subseteq Coins
    BY <1>1, <1>2, <2>1 DEF Bearer!BadInputs
  <2>3. [ok |-> Bearer!Accepted(o), bad |-> Bearer!BadInputs(o)] \in Bearer!Answer
    BY <2>2 DEF Bearer!Answer, Bearer!Accepted
  <2>4. entries' \in [DOMAIN entries' -> {"unspent", "spent"}]
    BY <1>1, <2>1 DEF Bearer!Execute
  <2>5. idem' \in [DOMAIN idem' -> Bearer!Answer] /\ DOMAIN idem' \subseteq DOMAIN ops
    BY <1>1, <2>1, <2>2, <2>3 DEF Bearer!Execute
  <2> QED
    BY <1>1, <2>1, <2>4, <2>5 DEF MintTyped
<1>6. CASE Bearer!Redeem
  BY <1>1, <1>6 DEF Bearer!Redeem, MintTyped
<1> HIDE DEF MintTyped
<1> QED
  BY <1>3, <1>4, <1>5, <1>6, ZenonT(60)
     DEF Bearer!Next, Bearer!Steps, Bearer!Recovery, Bearer!vars, Bearer!mint, Bearer!Abandoned,
         Bearer!SelectCoins, Bearer!ReceiveToken, Bearer!ReceiveBatch, Bearer!HandleRefused,
         Bearer!Begin, Bearer!Persist, Bearer!NotPersisted, Bearer!GetAnswer, Bearer!Retry,
         Bearer!GiveUp, Bearer!ResolveSuccess, Bearer!ResolveFailed, Bearer!MarkDead,
         Bearer!NextRound, Bearer!Return, Bearer!BeginRecover, Bearer!Probe, Bearer!Confirm,
         Bearer!Weigh, Bearer!Orphan, Bearer!RecoverReturns, Bearer!RecoverRaises,
         Bearer!Crash, Bearer!Lose, Bearer!ChangePolicy

LEMMA StoreTypes ==
  ASSUME Bearer!ConstantsOK, BearerTyped, [Bearer!Next]_(Bearer!vars)
  PROVE  StoreTyped'
<1>1. given' \subseteq Coins
  <2>1. CASE UNCHANGED given
    BY <2>1 DEF BearerTyped, StoreTyped
  <2>2. ASSUME NEW p \in Proc, Bearer!Return(p)
        PROVE  given' \subseteq Coins
    <3>1. plan[p] \in DOMAIN ops
      BY <2>2 DEF BearerTyped, ProcTyped, Bearer!Return
    <3>2. ops[plan[p]].outputs \subseteq Coins
      BY <3>1, PlansTyped DEF Bearer!Operation
    <3> QED
      BY <2>2, <3>2 DEF Bearer!Return, Bearer!Payments, BearerTyped, StoreTyped
  <2> QED
    BY <2>1, <2>2, ZenonT(60)
       DEF Bearer!Next, Bearer!Steps, Bearer!Recovery, Bearer!vars,
           Bearer!SelectCoins, Bearer!ReceiveToken, Bearer!ReceiveBatch, Bearer!HandleRefused,
           Bearer!Begin, Bearer!Persist, Bearer!Send, Bearer!NotPersisted, Bearer!GetAnswer,
           Bearer!Retry, Bearer!GiveUp, Bearer!ResolveSuccess, Bearer!ResolveFailed,
           Bearer!MarkDead, Bearer!NextRound, Bearer!BeginRecover, Bearer!Probe,
           Bearer!Confirm, Bearer!Weigh, Bearer!Orphan, Bearer!RecoverReturns,
           Bearer!RecoverRaises, Bearer!Crash, Bearer!Deliver, Bearer!Lose, Bearer!Redeem,
           Bearer!ChangePolicy
<1>2. policy' \in Nat
  <2>1. CASE UNCHANGED policy
    BY <2>1 DEF BearerTyped, StoreTyped
  <2>2. CASE Bearer!ChangePolicy
    BY <2>2 DEF BearerTyped, StoreTyped, Bearer!ChangePolicy
  <2> QED
    BY <2>1, <2>2, ZenonT(60)
       DEF Bearer!Next, Bearer!Steps, Bearer!Recovery, Bearer!vars, Bearer!mint,
           Bearer!SelectCoins, Bearer!ReceiveToken, Bearer!ReceiveBatch, Bearer!HandleRefused,
           Bearer!Begin, Bearer!Persist, Bearer!Send, Bearer!NotPersisted, Bearer!GetAnswer,
           Bearer!Retry, Bearer!GiveUp, Bearer!ResolveSuccess, Bearer!ResolveFailed,
           Bearer!MarkDead, Bearer!NextRound, Bearer!Return, Bearer!BeginRecover,
           Bearer!Probe, Bearer!Confirm, Bearer!Weigh, Bearer!Orphan, Bearer!RecoverReturns,
           Bearer!RecoverRaises, Bearer!Crash, Bearer!Deliver, Bearer!Lose, Bearer!Redeem
<1> QED
  BY <1>1, <1>2, OpsGrow, RowsTyped, Zenon DEF StoreTyped

\* Where each process is, and the plan it works on.
LEMMA ProcTypes ==
  ASSUME Bearer!ConstantsOK, BearerTyped, [Bearer!Next]_(Bearer!vars)
  PROVE  ProcTyped'
<1>1. /\ DOMAIN ops \subseteq DOMAIN ops' /\ DOMAIN ops \subseteq 1..MaxOps
      /\ MaxOps \in Nat /\ given \subseteq Coins /\ DOMAIN tokens \subseteq Coins
      /\ Calls \subseteq {"pay", "receive", "receive_batch", "handle_refused"}
  BY OpsGrow, BearerConstants DEF BearerTyped, StoreTyped
<1>2. ProcTyped
  BY DEF BearerTyped
<1> USE DEF ProcTyped, Bearer!Goto
<1>3. CASE UNCHANGED Bearer!mem
  BY <1>1, <1>2, <1>3 DEF Bearer!mem
<1>4. ASSUME NEW p \in Proc, NEW c, NEW S \in SUBSET Coins, Bearer!Begin(p, c, S)
      PROVE  ProcTyped'
  BY <1>1, <1>2, <1>4 DEF Bearer!Begin
<1>5. ASSUME NEW p \in Proc, Bearer!Persist(p)
      PROVE  ProcTyped'
  <2>1. PICK o, outputs : Planning(p, o, outputs)
    BY <1>5, PersistPlans
  <2>2. /\ o \in DOMAIN ops' /\ o \in 0..MaxOps
        /\ plan' = [plan EXCEPT ![p] = o]
    BY <2>1 DEF Planning
  <2> QED
    BY <1>1, <1>2, <1>5, <2>2 DEF Bearer!Persist
<1>6. ASSUME NEW p \in Proc, Bearer!Leave(p)
      PROVE  ProcTyped'
  BY <1>1, <1>2, <1>6 DEF Bearer!Leave
<1>7. ASSUME NEW p \in Proc,
             Bearer!Send(p) \/ Bearer!GetAnswer(p) \/ Bearer!Retry(p) \/ Bearer!ResolveSuccess(p)
      PROVE  ProcTyped'
  BY <1>1, <1>2, <1>7
     DEF Bearer!Send, Bearer!GetAnswer, Bearer!Retry, Bearer!ResolveSuccess
<1>8. ASSUME NEW p \in Proc, Bearer!ResolveFailed(p)
      PROVE  ProcTyped'
  BY <1>1, <1>2, <1>6, <1>8 DEF Bearer!ResolveFailed
<1>9. ASSUME NEW p \in Proc, Bearer!NextRound(p)
      PROVE  ProcTyped'
  <2>1. CASE ~Bearer!Leave(p)
    BY <1>1, <1>2, <1>9, <2>1 DEF Bearer!NextRound
  <2> QED
    BY <1>6, <2>1
<1>10. ASSUME NEW p \in Proc, Bearer!BeginRecover(p)
       PROVE  ProcTyped'
  BY <1>1, <1>2, <1>10 DEF Bearer!BeginRecover
<1>11. ASSUME NEW p \in Proc, Bearer!Probe(p)
       PROVE  ProcTyped'
  <2>1. PICK o \in todo[p] :
          /\ plan' = [plan EXCEPT ![p] = o]
          /\ todo' = [todo EXCEPT ![p] = @ \ {o}]
          /\ DOMAIN probed' = DOMAIN probed
    BY <1>11 DEF Bearer!Probe
  <2>2. o \in DOMAIN ops /\ o \in 0..MaxOps
    BY <1>1, <1>2
  <2> QED
    BY <1>1, <1>2, <1>11, <2>1, <2>2 DEF Bearer!Probe
<1>12. ASSUME NEW p \in Proc, Bearer!Confirm(p) \/ Bearer!Orphan(p)
       PROVE  ProcTyped'
  <2>1. Bearer!NextOp(p) /\ UNCHANGED <<calling, coins, todo>>
    BY <1>12, Zenon DEF Bearer!Confirm, Bearer!Orphan
  <2> QED
    BY <1>1, <1>2, <2>1 DEF Bearer!NextOp
<1>13. ASSUME NEW p \in Proc, Bearer!Weigh(p)
       PROVE  ProcTyped'
  BY <1>1, <1>2, <1>13 DEF Bearer!Weigh
<1>14. ASSUME NEW p \in Proc,
              Bearer!SelectCoins(p) \/ Bearer!ReceiveToken(p) \/ Bearer!ReceiveBatch(p)
                \/ Bearer!HandleRefused(p)
       PROVE  \E c, S : S \subseteq Coins /\ Bearer!Begin(p, c, S)
  <2>1. Bearer!Free \subseteq Coins
    BY <1>1 DEF Bearer!Free
  <2> QED
    BY <1>1, <1>14, <2>1, Zenon
       DEF Bearer!SelectCoins, Bearer!ReceiveToken, Bearer!ReceiveBatch, Bearer!HandleRefused
<1> HIDE DEF ProcTyped, Bearer!Goto
<1>15. ASSUME NEW p \in Proc,
              \/ Bearer!NotPersisted(p) \/ Bearer!GiveUp(p) \/ Bearer!Return(p)
              \/ Bearer!RecoverReturns(p) \/ Bearer!RecoverRaises(p) \/ Bearer!Crash(p)
       PROVE  ProcTyped'
  BY <1>6, <1>15, Zenon
     DEF Bearer!NotPersisted, Bearer!GiveUp, Bearer!Return, Bearer!RecoverReturns,
         Bearer!RecoverRaises, Bearer!Crash
<1>16. CASE \/ \E p \in Proc : Bearer!MarkDead(p)
            \/ Bearer!Deliver \/ Bearer!Lose \/ Bearer!Redeem \/ Bearer!ChangePolicy
            \/ UNCHANGED Bearer!vars
  BY <1>3, <1>16, Zenon
     DEF Bearer!MarkDead, Bearer!Deliver, Bearer!Lose, Bearer!Redeem, Bearer!ChangePolicy,
         Bearer!vars, Bearer!mem
<1> QED
  BY <1>4, <1>5, <1>7, <1>8, <1>9, <1>10, <1>11, <1>12, <1>13, <1>14, <1>15, <1>16, Zenon
     DEF Bearer!Next, Bearer!Steps, Bearer!Recovery

LEMMA BearerTypesStep ==
  ASSUME Bearer!ConstantsOK, BearerTyped, [Bearer!Next]_(Bearer!vars)
  PROVE  BearerTyped'
BY StoreTypes, MintTypes, ProcTypes DEF BearerTyped

\* The steps that touch the tables of the wallet or of the mint, or hand out strings.
Telling ==
  \/ \E p \in Proc :
       \/ Bearer!Persist(p) \/ Bearer!ResolveSuccess(p) \/ Bearer!ResolveFailed(p)
       \/ Bearer!MarkDead(p) \/ Bearer!Return(p) \/ Bearer!Confirm(p) \/ Bearer!Orphan(p)
  \/ Bearer!Deliver \/ Bearer!Redeem

LEMMA BearerSteps ==
  ASSUME [Bearer!Next]_(Bearer!vars)
  PROVE  UNCHANGED <<tokens, ops, entries, idem, given>> \/ Telling
<1> DEFINE Still == UNCHANGED <<tokens, ops, entries, idem, given>>
<1>1. ASSUME NEW p \in Proc, NEW c, NEW S, Bearer!Begin(p, c, S)
      PROVE  Still
  BY <1>1 DEF Bearer!Begin, Bearer!store, Bearer!mint
<1>2. ASSUME NEW p \in Proc,
             \/ Bearer!SelectCoins(p) \/ Bearer!ReceiveToken(p) \/ Bearer!ReceiveBatch(p)
             \/ Bearer!HandleRefused(p)
      PROVE  Still
  <2> HIDE DEF Still
  <2> QED
    BY <1>1, <1>2, Zenon DEF Bearer!SelectCoins, Bearer!ReceiveToken, Bearer!ReceiveBatch,
                             Bearer!HandleRefused
<1>3. ASSUME NEW p \in Proc,
             \/ Bearer!Send(p) \/ Bearer!NotPersisted(p) \/ Bearer!GetAnswer(p)
             \/ Bearer!Retry(p) \/ Bearer!GiveUp(p) \/ Bearer!NextRound(p) \/ Bearer!Crash(p)
      PROVE  Still
  BY <1>3 DEF Bearer!Send, Bearer!NotPersisted, Bearer!GetAnswer, Bearer!Retry, Bearer!GiveUp,
              Bearer!NextRound, Bearer!Crash, Bearer!store, Bearer!mint
<1>4. ASSUME NEW p \in Proc,
             \/ Bearer!BeginRecover(p) \/ Bearer!Probe(p) \/ Bearer!Weigh(p)
             \/ Bearer!RecoverReturns(p) \/ Bearer!RecoverRaises(p)
      PROVE  Still
  BY <1>4 DEF Bearer!BeginRecover, Bearer!Probe, Bearer!Weigh, Bearer!RecoverReturns,
              Bearer!RecoverRaises, Bearer!store, Bearer!mint
<1>5. ASSUME Bearer!Lose \/ Bearer!ChangePolicy \/ UNCHANGED Bearer!vars
      PROVE  Still
  BY <1>5 DEF Bearer!Lose, Bearer!ChangePolicy, Bearer!vars, Bearer!store, Bearer!mint
<1> HIDE DEF Still
<1>6. ASSUME NEW p \in Proc,
             \/ Bearer!SelectCoins(p) \/ Bearer!ReceiveToken(p) \/ Bearer!ReceiveBatch(p)
             \/ Bearer!HandleRefused(p) \/ Bearer!RecoverRaises(p) \/ Bearer!Crash(p)
      PROVE  Still
  BY <1>2, <1>3, <1>4, <1>6, Zenon
<1>7. ASSUME NEW p \in Proc, Bearer!Steps(p)
      PROVE  Still \/ Telling
  BY <1>3, <1>7, Zenon DEF Telling, Bearer!Steps
<1>8. ASSUME NEW p \in Proc, Bearer!Recovery(p)
      PROVE  Still \/ Telling
  BY <1>4, <1>8, Zenon DEF Telling, Bearer!Recovery
<1>9. Bearer!Deliver \/ Bearer!Redeem => Telling
  BY Zenon DEF Telling
<1>10. Still \/ Telling
  BY <1>5, <1>6, <1>7, <1>8, <1>9, Zenon DEF Bearer!Next
<1> QED
  BY <1>10 DEF Still

\* Settling a plan changes its state and nothing else.
LEMMA Settling ==
  ASSUME BearerTyped, NEW o \in DOMAIN ops, NEW state, Bearer!Settle(o, state)
  PROVE  /\ DOMAIN ops' = DOMAIN ops
         /\ \A x \in DOMAIN ops :
              /\ ops'[x].state = IF x = o THEN state ELSE ops[x].state
              /\ ops'[x].inputs = ops[x].inputs /\ ops'[x].outputs = ops[x].outputs
              /\ ops'[x].kind = ops[x].kind
<1>1. /\ \A x \in DOMAIN ops : ops[x] \in Bearer!Operation
      /\ ops' = [ops EXCEPT ![o] = [ops[o] EXCEPT !.state = state]]
  BY PlansTyped DEF Bearer!Settle
<1> QED
  BY <1>1 DEF Bearer!Operation

-----------------------------------------------------------------------------
\* The outputs of a plan are on disk before it can be sent, and stay there.
OutputsKept == \A o \in DOMAIN ops : ops[o].outputs \subseteq DOMAIN tokens

LEMMA OutputsStep ==
  ASSUME Bearer!ConstantsOK, BearerTyped, OutputsKept, [Bearer!Next]_(Bearer!vars)
  PROVE  OutputsKept'
<1> USE DEF OutputsKept
<1>1. CASE UNCHANGED <<tokens, ops>>
  BY <1>1
<1>2. ASSUME NEW p \in Proc, Bearer!Persist(p)
      PROVE  OutputsKept'
  <2>1. PICK o, outputs : Planning(p, o, outputs)
    BY <1>2, PersistPlans
  <2> QED
    BY <2>1 DEF Planning
<1>3. ASSUME NEW p \in Proc,
             \/ Bearer!ResolveSuccess(p) \/ Bearer!ResolveFailed(p) \/ Bearer!Confirm(p)
             \/ Bearer!Orphan(p)
      PROVE  OutputsKept'
  <2>1. plan[p] \in DOMAIN ops /\ DOMAIN tokens' = DOMAIN tokens
    BY <1>3 DEF BearerTyped, ProcTyped, Bearer!ResolveSuccess, Bearer!ResolveFailed,
                Bearer!Confirm, Bearer!Orphan
  <2>2. \E state : Bearer!Settle(plan[p], state)
    BY <1>3, Zenon
       DEF Bearer!ResolveSuccess, Bearer!ResolveFailed, Bearer!Confirm, Bearer!Orphan
  <2> QED
    BY <2>1, <2>2, Settling
<1>4. ASSUME NEW p \in Proc, Bearer!MarkDead(p)
      PROVE  OutputsKept'
  BY <1>4 DEF Bearer!MarkDead
<1>5. CASE Bearer!Deliver \/ Bearer!Redeem \/ \E p \in Proc : Bearer!Return(p)
  BY <1>1, <1>5, Zenon DEF Bearer!Deliver, Bearer!Redeem, Bearer!Return, Bearer!store
<1> QED
  BY <1>1, <1>2, <1>3, <1>4, <1>5, BearerSteps, Zenon DEF Telling

\* Persist before send (Wallet._persist_plan and _assert_persisted,
\* impl/aicash/wallet.py): the secret of whatever the mint may credit under an
\* operation of this wallet is on disk, however many processes share the store,
\* whenever they die and whatever the network does with their requests.
THEOREM SecretsAreKept ==
  ASSUME Bearer!ConstantsOK
  PROVE  Bearer!Spec => []Bearer!SecretsDurable
<1>1. Bearer!Init => BearerTyped /\ OutputsKept
  BY BearerTypesInit DEF OutputsKept, Bearer!Init
<1>2. BearerTyped /\ OutputsKept /\ [Bearer!Next]_(Bearer!vars) => (BearerTyped /\ OutputsKept)'
  BY BearerTypesStep, OutputsStep
<1>3. OutputsKept => Bearer!SecretsDurable
  BY DEF OutputsKept, Bearer!SecretsDurable
<1> QED
  BY <1>1, <1>2, <1>3, PTL DEF Bearer!Spec

-----------------------------------------------------------------------------
\* What holds while the process is alone with its store.

Gone(k) == k \in DOMAIN entries /\ entries[k] = "spent"
Took(o) == o \in DOMAIN idem /\ idem[o].ok

\* What a row says of its plan and of the mint.
RowsTold ==
  \A k \in DOMAIN tokens :
    /\ tokens[k].op_id # 0 =>
         tokens[k].op_id \in DOMAIN ops /\ k \in ops[tokens[k].op_id].outputs
    /\ tokens[k].state = "pending" =>
         /\ tokens[k].op_id # 0 /\ ops[tokens[k].op_id].state = "planned"
         /\ tokens[k].reserved_by = None /\ k \notin given
    /\ tokens[k].state = "orphan" =>
         tokens[k].op_id # 0 /\ ops[tokens[k].op_id].state = "failed"
    /\ tokens[k].state = "spent_out" => Gone(k)
    /\ tokens[k].state \in {"confirmed", "handed_over"} => k \in DOMAIN entries

\* What a plan says of its rows and of the mint.
PlansTold ==
  \A o \in DOMAIN ops :
    /\ ops[o].outputs # {} /\ ops[o].outputs \subseteq DOMAIN tokens
    /\ ops[o].inputs \subseteq DOMAIN entries
    /\ \A k \in ops[o].outputs : tokens[k].op_id = o
    /\ ops[o].state = "planned" => \A k \in ops[o].outputs : tokens[k].state = "pending"
    /\ ops[o].kind # "pay" => ops[o].inputs \subseteq given

\* What the mint's answer to a plan says of its entries.
AnswersTold ==
  /\ given \subseteq DOMAIN entries
  /\ \A o \in DOMAIN ops :
       /\ Took(o) => /\ ops[o].outputs \subseteq DOMAIN entries
                     /\ \A k \in ops[o].inputs : Gone(k)
       /\ ~Took(o) => \A k \in ops[o].outputs : k \notin DOMAIN entries
       /\ ops[o].state = "failed" => ~Took(o)
       /\ o \in DOMAIN idem /\ ~idem[o].ok => \A k \in idem[o].bad : Gone(k)

\* A reservation is a planned spend; a coin of the wallet's own that is spent and
\* not yet marked so is reserved by the plan that spent it.
ReservationsTold ==
  /\ \A k \in DOMAIN tokens : tokens[k].reserved_by # None =>
       /\ tokens[k].reserved_by \in DOMAIN ops
       /\ ops[tokens[k].reserved_by].state = "planned"
       /\ k \in ops[tokens[k].reserved_by].inputs
  /\ \A o \in DOMAIN ops : ops[o].kind = "pay" /\ ops[o].state = "planned" =>
       \A k \in ops[o].inputs \ given : k \in DOMAIN tokens /\ tokens[k].reserved_by = o
  /\ \A k \in DOMAIN tokens \ given : Gone(k) =>
       \/ tokens[k].state = "spent_out"
       \/ tokens[k].reserved_by # None /\ Took(tokens[k].reserved_by)

\* What the process holds in memory while it calls the mint.
CallTold ==
  \A p \in Proc :
    /\ requests # {} => requests = {plan[p]} /\ doing[p] \in {"planned", "sent"}
    /\ doing[p] = "selected" =>
         IF calling[p] = "pay" THEN coins[p] \subseteq Bearer!Free ELSE coins[p] \subseteq given
    /\ doing[p] \in {"planned", "sent", "answered"} =>
         /\ ops[plan[p]].state = "planned" /\ ops[plan[p]].inputs = coins[p]
         /\ ops[plan[p]].kind = Bearer!KindOf(calling[p])
    /\ doing[p] \in {"answered", "marking"} => plan[p] \in DOMAIN idem
    /\ doing[p] = "marking" =>
         /\ ops[plan[p]].inputs = coins[p]
         /\ idem[plan[p]].ok => ops[plan[p]].state = "done"
         /\ ~idem[plan[p]].ok => ops[plan[p]].state = "failed" /\ calling[p] # "pay"
         /\ calling[p] # "pay" => coins[p] \subseteq given
         /\ calling[p] = "pay" =>
              \A k \in ops[plan[p]].outputs : tokens[k].role = "payment" =>
                tokens[k].state = "handed_over" /\ tokens[k].reserved_by = None

\* And while it recovers: what it has been told is still so.
RecoveryTold ==
  \A p \in Proc :
    /\ doing[p] \notin {"recover", "probed", "weighed"} => todo[p] = {}
    /\ \A o \in todo[p] : ops[o].state = "planned"
    /\ doing[p] \in {"probed", "weighed"} => ops[plan[p]].state = "planned" /\ plan[p] \notin todo[p]
    /\ doing[p] = "probed" =>
         /\ DOMAIN probed[p] = Bearer!PendingOutputs(plan[p])
         /\ \A k \in DOMAIN probed[p] :
              /\ probed[p][k] \in Bearer!Status
              /\ probed[p][k] = "unknown" <=> k \notin DOMAIN entries
              /\ probed[p][k] = "spent" => Gone(k)
    /\ doing[p] = "weighed" =>
         /\ ~Took(plan[p])
         /\ DOMAIN probed[p] = Bearer!PlanInputs(plan[p])
         /\ \A k \in DOMAIN probed[p] :
              /\ probed[p][k] \in {"unspent", "spent"}
              /\ probed[p][k] = "spent" => Gone(k)
              /\ probed[p][k] = "unspent" /\ Gone(k) => k \in given

StoreTold == RowsTold /\ PlansTold /\ AnswersTold /\ ReservationsTold
BearerInv == BearerTyped /\ StoreTold /\ CallTold /\ RecoveryTold

\* The types the step lemmas below use.
LEMMA BearerFields ==
  ASSUME Bearer!ConstantsOK, BearerTyped
  PROVE  /\ \A k \in DOMAIN tokens : tokens[k] \in Bearer!Token
         /\ \A o \in DOMAIN ops : ops[o] \in Bearer!Operation
         /\ \A o \in DOMAIN idem : idem[o] \in Bearer!Answer
         /\ None \notin DOMAIN ops /\ 0 \notin DOMAIN ops
         /\ DOMAIN idem \subseteq DOMAIN ops /\ requests \subseteq DOMAIN ops
<1>1. None \notin DOMAIN ops /\ 0 \notin DOMAIN ops
  BY BearerConstants DEF BearerTyped, StoreTyped
<1> QED
  BY <1>1, PlansTyped DEF BearerTyped, StoreTyped, MintTyped

LEMMA BearerInvInit ==
  ASSUME Bearer!ConstantsOK, Bearer!Init
  PROVE  BearerInv
<1>1. StoreTold
  BY BearerConstants
     DEF Bearer!Init, StoreTold, RowsTold, PlansTold, AnswersTold, ReservationsTold, Gone, Took
<1>2. CallTold /\ RecoveryTold
  BY DEF Bearer!Init, CallTold, RecoveryTold
<1> QED
  BY <1>1, <1>2, BearerTypesInit DEF BearerInv

\* Planning: the outputs are fresh, and only free coins are reserved.
LEMMA PersistTells ==
  ASSUME Bearer!ConstantsOK, BearerInv, NEW p \in Proc, Bearer!Persist(p)
  PROVE  StoreTold'
<1>1. PICK o, outputs : Planning(p, o, outputs)
  BY PersistPlans DEF BearerInv
<1>2. /\ UNCHANGED <<entries, idem, given>>
      /\ doing[p] = "selected"
  BY DEF Bearer!Persist, Bearer!mint
<1>3. /\ \A k \in DOMAIN tokens : tokens[k] \in Bearer!Token
      /\ None \notin DOMAIN ops /\ 0 \notin DOMAIN ops /\ DOMAIN idem \subseteq DOMAIN ops
  BY BearerFields DEF BearerInv
<1>4. /\ \A k \in outputs : k \notin DOMAIN tokens /\ k \notin DOMAIN entries /\ k \notin given
      /\ o # 0 /\ o # None /\ o \notin DOMAIN idem
  BY <1>1, <1>3, BearerConstants DEF Planning, Bearer!Unused
<1>5. \A k \in Bearer!Reserved(calling[p], coins[p]) :
        /\ k \in coins[p]
        /\ k \in given \/ k \in Bearer!Free
        /\ calling[p] = "pay" => k \in Bearer!Free
  BY <1>2 DEF BearerInv, CallTold, Bearer!Reserved, Bearer!Ours
<1>6. coins[p] \subseteq DOMAIN entries /\ (calling[p] # "pay" => coins[p] \subseteq given)
  BY <1>2 DEF BearerInv, CallTold, StoreTold, RowsTold, AnswersTold, Bearer!Free
<1>7. \A k \in DOMAIN tokens :
        /\ tokens'[k].state = tokens[k].state /\ tokens'[k].op_id = tokens[k].op_id
        /\ tokens'[k].reserved_by =
             IF k \in Bearer!Reserved(calling[p], coins[p]) THEN o ELSE tokens[k].reserved_by
  BY <1>1, <1>3 DEF Planning, Bearer!Token
<1>8. /\ DOMAIN ops' = DOMAIN ops \cup {o} /\ o \notin DOMAIN ops
      /\ DOMAIN tokens' = DOMAIN tokens \cup outputs /\ outputs # {}
      /\ \A x \in DOMAIN ops : ops'[x] = ops[x]
      /\ ops'[o].state = "planned" /\ ops'[o].inputs = coins[p] /\ ops'[o].outputs = outputs
      /\ ops'[o].kind = Bearer!KindOf(calling[p])
      /\ \A k \in outputs : /\ tokens'[k].state = "pending" /\ tokens'[k].op_id = o
                            /\ tokens'[k].reserved_by = None
  BY <1>1 DEF Planning
<1>9. RowsTold'
  BY <1>2, <1>3, <1>4, <1>5, <1>7, <1>8 DEF BearerInv, StoreTold, RowsTold, Gone, Bearer!Free
<1>10. PlansTold'
  BY <1>2, <1>4, <1>6, <1>7, <1>8 DEF BearerInv, StoreTold, PlansTold, Bearer!KindOf
<1>11. AnswersTold'
  BY <1>2, <1>4, <1>8 DEF BearerInv, StoreTold, AnswersTold, Took, Gone
<1>12. /\ (calling[p] = "pay") <=> (ops'[o].kind = "pay")
       /\ calling[p] = "pay" => Bearer!Reserved(calling[p], coins[p]) = coins[p]
       /\ \A k \in Bearer!Free : tokens[k].state = "confirmed" /\ tokens[k].reserved_by = None
  BY <1>2, <1>8 DEF BearerInv, CallTold, Bearer!KindOf, Bearer!Reserved, Bearer!Ours, Bearer!Free
<1>13. ReservationsTold'
  <2> USE DEF BearerInv, StoreTold, ReservationsTold, Took, Gone
  <2>1. \A k \in DOMAIN tokens' : tokens'[k].reserved_by # None =>
          /\ tokens'[k].reserved_by \in DOMAIN ops'
          /\ ops'[tokens'[k].reserved_by].state = "planned"
          /\ k \in ops'[tokens'[k].reserved_by].inputs
    BY <1>4, <1>5, <1>7, <1>8
  <2>2. \A x \in DOMAIN ops' : ops'[x].kind = "pay" /\ ops'[x].state = "planned" =>
          \A k \in ops'[x].inputs \ given : k \in DOMAIN tokens' /\ tokens'[k].reserved_by = x
    <3>1. ASSUME ops'[o].kind = "pay", NEW k \in ops'[o].inputs
          PROVE  k \in DOMAIN tokens /\ tokens'[k].reserved_by = o
      BY <1>7, <1>8, <1>12, <3>1 DEF Bearer!Reserved, Bearer!Ours
    <3>2. ASSUME NEW x \in DOMAIN ops, ops[x].kind = "pay", ops[x].state = "planned",
                 NEW k \in ops[x].inputs \ given
          PROVE  k \in DOMAIN tokens /\ tokens'[k].reserved_by = x
      <4>1. k \in DOMAIN tokens /\ tokens[k].reserved_by = x /\ x # None
        BY <1>3, <3>2
      <4> QED
        BY <1>5, <1>7, <1>12, <4>1
    <3> QED
      BY <1>8, <3>1, <3>2
  <2>3. \A k \in DOMAIN tokens' \ given : Gone(k) =>
          \/ tokens'[k].state = "spent_out"
          \/ tokens'[k].reserved_by # None /\ Took(tokens'[k].reserved_by)
    BY <1>3, <1>4, <1>5, <1>7, <1>8, <1>12
  <2> QED
    BY <1>2, <2>1, <2>2, <2>3
<1> QED
  BY <1>9, <1>10, <1>11, <1>13 DEF StoreTold

\* A success is told to the rows: the outputs are held or handed over, and the
\* reserved inputs are gone.
LEMMA ResolveSuccessTells ==
  ASSUME Bearer!ConstantsOK, BearerInv, NEW p \in Proc, Bearer!ResolveSuccess(p)
  PROVE  StoreTold'
<1>1. PICK o : o = plan[p]
  OBVIOUS
<1>2. /\ o \in DOMAIN ops /\ ops[o].state = "planned" /\ Took(o)
      /\ UNCHANGED <<entries, idem, given>>
  BY <1>1 DEF BearerInv, BearerTyped, ProcTyped, CallTold, Took, Bearer!ResolveSuccess,
              Bearer!Succeeded, Bearer!mint
<1>3. /\ DOMAIN ops' = DOMAIN ops
      /\ \A x \in DOMAIN ops :
           /\ ops'[x].state = IF x = o THEN "done" ELSE ops[x].state
           /\ ops'[x].inputs = ops[x].inputs /\ ops'[x].outputs = ops[x].outputs
           /\ ops'[x].kind = ops[x].kind
  BY <1>1, <1>2, Settling DEF BearerInv, Bearer!ResolveSuccess
<1>4. /\ \A k \in DOMAIN tokens : tokens[k] \in Bearer!Token
      /\ None \notin DOMAIN ops /\ 0 \notin DOMAIN ops
  BY BearerFields DEF BearerInv
<1>5. /\ DOMAIN tokens' = DOMAIN tokens
      /\ \A k \in DOMAIN tokens : tokens'[k] = Bearer!SettleRow(o, tokens[k])
  BY <1>1 DEF Bearer!ResolveSuccess
<1>6. \A k \in DOMAIN tokens :
        /\ tokens'[k].op_id = tokens[k].op_id
        /\ tokens[k].state = "pending" =>
             /\ tokens'[k].reserved_by = None
             /\ tokens'[k].state \in IF tokens[k].op_id = o THEN {"confirmed", "handed_over"}
                                     ELSE {"pending"}
        /\ tokens[k].state # "pending" /\ tokens[k].reserved_by = o =>
             tokens'[k].state = "spent_out" /\ tokens'[k].reserved_by = None
        /\ tokens[k].state # "pending" /\ tokens[k].reserved_by # o =>
             tokens'[k].state = tokens[k].state /\ tokens'[k].reserved_by = tokens[k].reserved_by
  <2>1. ASSUME NEW k \in DOMAIN tokens, tokens[k].state = "pending"
        PROVE  tokens[k].reserved_by = None /\ o # None
    BY <1>2, <1>4, <2>1 DEF BearerInv, StoreTold, RowsTold
  <2>2. ASSUME NEW k \in DOMAIN tokens, tokens[k].state = "pending", tokens[k].op_id = o
        PROVE  \/ tokens'[k] = [tokens[k] EXCEPT !.state = "handed_over"]
               \/ tokens'[k] = [tokens[k] EXCEPT !.state = "confirmed"]
    BY <1>5, <2>1, <2>2 DEF Bearer!SettleRow
  <2>3. ASSUME NEW k \in DOMAIN tokens, tokens[k].state # "pending", tokens[k].reserved_by = o
        PROVE  tokens'[k] = [tokens[k] EXCEPT !.state = "spent_out", !.reserved_by = None]
    BY <1>5, <2>3 DEF Bearer!SettleRow
  <2>4. ASSUME NEW k \in DOMAIN tokens, tokens[k].reserved_by # o,
               ~(tokens[k].state = "pending" /\ tokens[k].op_id = o)
        PROVE  tokens'[k] = tokens[k]
    BY <1>5, <2>4 DEF Bearer!SettleRow
  <2>5. ASSUME NEW k \in DOMAIN tokens
        PROVE  /\ tokens'[k].op_id = tokens[k].op_id
               /\ tokens[k].state = "pending" /\ tokens[k].op_id = o =>
                    /\ tokens'[k].state \in {"confirmed", "handed_over"}
                    /\ tokens'[k].reserved_by = tokens[k].reserved_by
               /\ tokens[k].state # "pending" /\ tokens[k].reserved_by = o =>
                    tokens'[k].state = "spent_out" /\ tokens'[k].reserved_by = None
    <3>1. CASE tokens[k].state = "pending" /\ tokens[k].op_id = o
      BY <1>4, <2>2, <3>1 DEF Bearer!Token
    <3>2. CASE tokens[k].state # "pending" /\ tokens[k].reserved_by = o
      BY <1>4, <2>3, <3>2 DEF Bearer!Token
    <3>3. CASE /\ tokens[k].reserved_by # o
               /\ ~(tokens[k].state = "pending" /\ tokens[k].op_id = o)
      BY <2>4, <3>3
    <3> QED
      BY <2>1, <3>1, <3>2, <3>3
  <2> QED
    BY <2>1, <2>4, <2>5
<1>7. RowsTold'
  BY <1>2, <1>3, <1>4, <1>5, <1>6
     DEF BearerInv, StoreTold, RowsTold, PlansTold, AnswersTold, ReservationsTold, Gone
<1>8. PlansTold'
  BY <1>2, <1>3, <1>4, <1>5, <1>6 DEF BearerInv, StoreTold, PlansTold
<1>9. AnswersTold'
  BY <1>2, <1>3 DEF BearerInv, StoreTold, AnswersTold, Took, Gone
<1>10. ReservationsTold'
  BY <1>2, <1>3, <1>4, <1>5, <1>6
     DEF BearerInv, StoreTold, RowsTold, ReservationsTold, Took, Gone
<1> QED
  BY <1>7, <1>8, <1>9, <1>10 DEF StoreTold

\* A rejection is told to the rows: the outputs are orphaned, the inputs free again.
LEMMA ResolveFailedTells ==
  ASSUME Bearer!ConstantsOK, BearerInv, NEW p \in Proc, Bearer!ResolveFailed(p)
  PROVE  StoreTold'
<1>1. PICK o : o = plan[p]
  OBVIOUS
<1>2. /\ o \in DOMAIN ops /\ ops[o].state = "planned" /\ ~Took(o)
      /\ UNCHANGED <<entries, idem, given>>
  BY <1>1 DEF BearerInv, BearerTyped, ProcTyped, CallTold, Took, Bearer!ResolveFailed,
              Bearer!Succeeded, Bearer!mint
<1>3. /\ DOMAIN ops' = DOMAIN ops
      /\ \A x \in DOMAIN ops :
           /\ ops'[x].state = IF x = o THEN "failed" ELSE ops[x].state
           /\ ops'[x].inputs = ops[x].inputs /\ ops'[x].outputs = ops[x].outputs
           /\ ops'[x].kind = ops[x].kind
  BY <1>1, <1>2, Settling DEF BearerInv, Bearer!ResolveFailed
<1>4. /\ \A k \in DOMAIN tokens : tokens[k] \in Bearer!Token
      /\ None \notin DOMAIN ops /\ 0 \notin DOMAIN ops
  BY BearerFields DEF BearerInv
<1>5. /\ DOMAIN tokens' = DOMAIN tokens
      /\ \A k \in DOMAIN tokens : tokens'[k] = Bearer!FailRow(o, tokens[k])
  BY <1>1 DEF Bearer!ResolveFailed
<1>6. \A k \in DOMAIN tokens :
        /\ tokens'[k].op_id = tokens[k].op_id
        /\ tokens[k].state = "pending" =>
             /\ tokens'[k].reserved_by = None
             /\ tokens'[k].state = IF tokens[k].op_id = o THEN "orphan" ELSE "pending"
        /\ tokens[k].state # "pending" =>
             /\ tokens'[k].state = tokens[k].state
             /\ tokens'[k].reserved_by =
                  IF tokens[k].reserved_by = o THEN None ELSE tokens[k].reserved_by
  BY <1>2, <1>4, <1>5 DEF Bearer!FailRow, Bearer!Token, BearerInv, StoreTold, RowsTold
<1>7. RowsTold'
  BY <1>2, <1>3, <1>4, <1>5, <1>6 DEF BearerInv, StoreTold, RowsTold, Gone
<1>8. PlansTold'
  BY <1>2, <1>3, <1>4, <1>5, <1>6 DEF BearerInv, StoreTold, PlansTold
<1>9. AnswersTold'
  BY <1>2, <1>3 DEF BearerInv, StoreTold, AnswersTold, Took, Gone
<1>10. ReservationsTold'
  BY <1>2, <1>3, <1>4, <1>5, <1>6
     DEF BearerInv, StoreTold, RowsTold, ReservationsTold, Took, Gone
<1> QED
  BY <1>7, <1>8, <1>9, <1>10 DEF StoreTold

\* Only what the mint has spent is marked so.
LEMMA MarkDeadTells ==
  ASSUME Bearer!ConstantsOK, BearerInv, NEW p \in Proc, Bearer!MarkDead(p)
  PROVE  StoreTold'
<1>1. PICK k \in Bearer!Unmarked(p) : tokens' = [tokens EXCEPT ![k].state = "spent_out"]
  BY DEF Bearer!MarkDead
<1>2. /\ UNCHANGED <<ops, entries, idem, given>>
      /\ doing[p] = "marking" /\ plan[p] \in DOMAIN ops /\ plan[p] \in DOMAIN idem
  BY DEF BearerInv, BearerTyped, ProcTyped, CallTold, Bearer!MarkDead, Bearer!mint
<1>3. /\ \A x \in DOMAIN tokens : tokens[x] \in Bearer!Token
      /\ idem[plan[p]] \in Bearer!Answer
  BY <1>2, BearerFields DEF BearerInv
<1>4. k \in DOMAIN tokens /\ tokens[k].state \in {"confirmed", "handed_over"}
  BY DEF Bearer!Unmarked, Bearer!Ours
<1>5. Gone(k)
  <2>1. CASE idem[plan[p]].ok
    BY <1>2, <2>1 DEF Bearer!Unmarked, Bearer!Ours, Bearer!Dead, Bearer!Succeeded,
                      BearerInv, StoreTold, AnswersTold, CallTold, Took
  <2>2. CASE ~idem[plan[p]].ok
    BY <1>2, <2>2 DEF Bearer!Unmarked, Bearer!Ours, Bearer!Dead, Bearer!Succeeded,
                      BearerInv, StoreTold, AnswersTold
  <2> QED
    BY <2>1, <2>2
<1>6. /\ DOMAIN tokens' = DOMAIN tokens
      /\ \A x \in DOMAIN tokens :
           /\ tokens'[x].state = IF x = k THEN "spent_out" ELSE tokens[x].state
           /\ tokens'[x].op_id = tokens[x].op_id
           /\ tokens'[x].reserved_by = tokens[x].reserved_by
  BY <1>1, <1>3, <1>4 DEF Bearer!Token
<1>7. RowsTold'
  BY <1>2, <1>4, <1>5, <1>6 DEF BearerInv, StoreTold, RowsTold, Gone
<1>8. PlansTold'
  BY <1>2, <1>4, <1>6 DEF BearerInv, StoreTold, PlansTold
<1>9. AnswersTold'
  BY <1>2 DEF BearerInv, StoreTold, AnswersTold, Took, Gone
<1>10. ReservationsTold'
  BY <1>2, <1>4, <1>6 DEF BearerInv, StoreTold, ReservationsTold, Took, Gone
<1> QED
  BY <1>7, <1>8, <1>9, <1>10 DEF StoreTold

\* What pay returns is on the ledger.
LEMMA ReturnTells ==
  ASSUME Bearer!ConstantsOK, BearerInv, NEW p \in Proc, Bearer!Return(p)
  PROVE  StoreTold'
<1>1. /\ UNCHANGED <<tokens, ops, entries, idem>>
      /\ doing[p] = "marking" /\ plan[p] \in DOMAIN ops
      /\ Took(plan[p]) /\ ops[plan[p]].state = "done"
  BY DEF BearerInv, BearerTyped, ProcTyped, CallTold, Took, Bearer!Return, Bearer!Succeeded,
         Bearer!store, Bearer!mint
<1>2. given \subseteq given' /\ given' \subseteq given \cup ops[plan[p]].outputs
  BY DEF Bearer!Return, Bearer!Payments
<1>3. RowsTold'
  BY <1>1, <1>2 DEF BearerInv, StoreTold, RowsTold, PlansTold, Gone
<1>4. PlansTold'
  BY <1>1, <1>2 DEF BearerInv, StoreTold, PlansTold
<1>5. AnswersTold'
  BY <1>1, <1>2 DEF BearerInv, StoreTold, AnswersTold, Took, Gone
<1>6. ReservationsTold'
  BY <1>1, <1>2 DEF BearerInv, StoreTold, ReservationsTold, Took, Gone
<1> QED
  BY <1>3, <1>4, <1>5, <1>6 DEF StoreTold

\* The inputs of a plan are not outputs still pending, nor reserved by another plan.
LEMMA InputsSettled ==
  ASSUME Bearer!ConstantsOK, BearerInv, NEW o \in DOMAIN ops, ops[o].state = "planned",
         NEW k \in Bearer!PlanInputs(o)
  PROVE  /\ tokens[k].state # "pending"
         /\ k \in given \/ tokens[k].reserved_by = o
<1>1. k \in given \/ tokens[k].reserved_by = o
  BY DEF Bearer!PlanInputs, Bearer!Ours, BearerInv, StoreTold, PlansTold, ReservationsTold
<1>2. o # None
  BY BearerFields DEF BearerInv
<1> QED
  BY <1>1, <1>2 DEF Bearer!PlanInputs, Bearer!Ours, BearerInv, StoreTold, RowsTold

\* Recovery confirms what the ledger has.
LEMMA ConfirmTells ==
  ASSUME Bearer!ConstantsOK, BearerInv, NEW p \in Proc, Bearer!Confirm(p)
  PROVE  StoreTold'
<1>1. PICK o : o = plan[p]
  OBVIOUS
<1>2. /\ o \in DOMAIN ops /\ ops[o].state = "planned"
      /\ UNCHANGED <<entries, idem, given>>
      /\ DOMAIN probed[p] = Bearer!PendingOutputs(o)
      /\ \A k \in DOMAIN probed[p] :
           /\ probed[p][k] \in Bearer!Status
           /\ probed[p][k] = "unknown" <=> k \notin DOMAIN entries
           /\ probed[p][k] = "spent" => Gone(k)
  BY <1>1 DEF BearerInv, BearerTyped, ProcTyped, RecoveryTold, Bearer!Confirm, Bearer!mint
<1>3. /\ DOMAIN ops' = DOMAIN ops
      /\ \A x \in DOMAIN ops :
           /\ ops'[x].state = IF x = o THEN "done" ELSE ops[x].state
           /\ ops'[x].inputs = ops[x].inputs /\ ops'[x].outputs = ops[x].outputs
           /\ ops'[x].kind = ops[x].kind
  BY <1>1, <1>2, Settling DEF BearerInv, Bearer!Confirm
<1>4. /\ \A k \in DOMAIN tokens : tokens[k] \in Bearer!Token
      /\ None \notin DOMAIN ops /\ 0 \notin DOMAIN ops
  BY BearerFields DEF BearerInv
<1>5. Took(o)
  <2>1. PICK k \in DOMAIN probed[p] : probed[p][k] # "unknown"
    BY DEF Bearer!Confirm, Bearer!Committed
  <2>2. k \in DOMAIN entries /\ k \in ops[o].outputs
    BY <1>2, <1>4, <2>1 DEF Bearer!PendingOutputs, BearerInv, StoreTold, RowsTold
  <2> QED
    BY <1>2, <2>2 DEF BearerInv, StoreTold, AnswersTold
<1>6. /\ \A k \in Bearer!PlanInputs(o) : k \in DOMAIN tokens /\ Gone(k)
      /\ \A k \in DOMAIN probed[p] : k \in DOMAIN entries
  BY <1>2, <1>5 DEF Bearer!PlanInputs, Bearer!Ours, Bearer!PendingOutputs,
                    BearerInv, StoreTold, RowsTold, AnswersTold
<1>7. \A k \in Bearer!PlanInputs(o) :
        tokens[k].state # "pending" /\ (k \in given \/ tokens[k].reserved_by = o)
  BY <1>2, InputsSettled
<1>8. /\ DOMAIN tokens' = DOMAIN tokens
      /\ \A k \in DOMAIN tokens :
           /\ tokens'[k].op_id = tokens[k].op_id
           /\ k \in Bearer!PlanInputs(o) =>
                tokens'[k].state = "spent_out" /\ tokens'[k].reserved_by = None
           /\ k \notin Bearer!PlanInputs(o) => tokens'[k].reserved_by = tokens[k].reserved_by
           /\ k \notin Bearer!PlanInputs(o) /\ tokens[k].state = "pending" /\ tokens[k].op_id = o =>
                \/ tokens'[k].state = "confirmed"
                \/ tokens'[k].state = "spent_out" /\ Gone(k)
           /\ k \notin Bearer!PlanInputs(o) /\ ~(tokens[k].state = "pending" /\ tokens[k].op_id = o) =>
                tokens'[k].state = tokens[k].state
  <2>1. /\ DOMAIN tokens' = DOMAIN tokens
        /\ \A k \in DOMAIN tokens :
             tokens'[k] = IF k \in Bearer!PlanInputs(o)
                          THEN [tokens[k] EXCEPT !.state = "spent_out", !.reserved_by = None]
                          ELSE IF k \in DOMAIN probed[p] /\ tokens[k].state = "pending"
                          THEN [tokens[k] EXCEPT !.state =
                                  IF probed[p][k] = "unspent" THEN "confirmed" ELSE "spent_out"]
                          ELSE tokens[k]
    BY <1>1 DEF Bearer!Confirm
  <2>2. \A k \in DOMAIN tokens :
          k \in DOMAIN probed[p] <=> tokens[k].state = "pending" /\ tokens[k].op_id = o
    BY <1>2 DEF Bearer!PendingOutputs
  <2>3. \A k \in DOMAIN probed[p] : probed[p][k] # "unspent" => Gone(k)
    BY <1>2, <1>6 DEF Bearer!Status
  <2>4. ASSUME NEW k \in Bearer!PlanInputs(o)
        PROVE  /\ tokens'[k].op_id = tokens[k].op_id
               /\ tokens'[k].state = "spent_out" /\ tokens'[k].reserved_by = None
    BY <1>4, <1>6, <2>1 DEF Bearer!Token
  <2>5. ASSUME NEW k \in DOMAIN tokens, k \notin Bearer!PlanInputs(o),
               tokens[k].state = "pending" /\ tokens[k].op_id = o
        PROVE  /\ tokens'[k].op_id = tokens[k].op_id
               /\ tokens'[k].reserved_by = tokens[k].reserved_by
               /\ \/ tokens'[k].state = "confirmed"
                  \/ tokens'[k].state = "spent_out" /\ Gone(k)
    <3>1. tokens'[k] = [tokens[k] EXCEPT !.state =
                          IF probed[p][k] = "unspent" THEN "confirmed" ELSE "spent_out"]
      BY <2>1, <2>2, <2>5
    <3>2. tokens[k] \in Bearer!Token /\ (probed[p][k] # "unspent" => Gone(k))
      BY <1>4, <2>2, <2>3, <2>5
    <3> QED
      BY <3>1, <3>2 DEF Bearer!Token
  <2>6. ASSUME NEW k \in DOMAIN tokens, k \notin Bearer!PlanInputs(o),
               ~(tokens[k].state = "pending" /\ tokens[k].op_id = o)
        PROVE  tokens'[k] = tokens[k]
    BY <2>1, <2>2, <2>6
  <2> QED
    BY <2>1, <2>4, <2>5, <2>6, Zenon
<1>9. RowsTold'
  BY <1>2, <1>3, <1>4, <1>6, <1>8, <1>5
     DEF BearerInv, StoreTold, RowsTold, PlansTold, AnswersTold, Gone
<1>10. PlansTold'
  BY <1>2, <1>3, <1>4, <1>7, <1>8 DEF BearerInv, StoreTold, PlansTold
<1>11. AnswersTold'
  BY <1>2, <1>3 DEF BearerInv, StoreTold, AnswersTold, Took, Gone
<1>12. ReservationsTold'
  BY <1>2, <1>3, <1>4, <1>7, <1>8
     DEF BearerInv, StoreTold, RowsTold, ReservationsTold, Took, Gone, Bearer!PlanInputs,
         Bearer!Ours
<1> QED
  BY <1>9, <1>10, <1>11, <1>12 DEF StoreTold

\* Recovery gives up a plan the ledger does not have, and takes its inputs back.
LEMMA OrphanTells ==
  ASSUME Bearer!ConstantsOK, BearerInv, NEW p \in Proc, Bearer!Orphan(p)
  PROVE  StoreTold'
<1>1. PICK o : o = plan[p]
  OBVIOUS
<1>2. /\ o \in DOMAIN ops /\ ops[o].state = "planned" /\ ~Took(o)
      /\ UNCHANGED <<entries, idem, given>>
      /\ DOMAIN probed[p] = Bearer!PlanInputs(o)
      /\ \A k \in DOMAIN probed[p] :
           /\ probed[p][k] \in {"unspent", "spent"}
           /\ probed[p][k] = "spent" => Gone(k)
           /\ probed[p][k] = "unspent" /\ Gone(k) => k \in given
  BY <1>1 DEF BearerInv, BearerTyped, ProcTyped, RecoveryTold, Bearer!Orphan, Bearer!mint
<1>3. /\ DOMAIN ops' = DOMAIN ops
      /\ \A x \in DOMAIN ops :
           /\ ops'[x].state = IF x = o THEN "failed" ELSE ops[x].state
           /\ ops'[x].inputs = ops[x].inputs /\ ops'[x].outputs = ops[x].outputs
           /\ ops'[x].kind = ops[x].kind
  BY <1>1, <1>2, Settling DEF BearerInv, Bearer!Orphan
<1>4. /\ \A k \in DOMAIN tokens : tokens[k] \in Bearer!Token
      /\ None \notin DOMAIN ops /\ 0 \notin DOMAIN ops
  BY BearerFields DEF BearerInv
<1>5. \A k \in Bearer!PlanInputs(o) :
        /\ k \in DOMAIN tokens /\ k \in DOMAIN entries
        /\ tokens[k].state # "pending" /\ (k \in given \/ tokens[k].reserved_by = o)
  BY <1>2, InputsSettled
     DEF Bearer!PlanInputs, Bearer!Ours, BearerInv, StoreTold, PlansTold
<1>6. /\ DOMAIN tokens' = DOMAIN tokens
      /\ \A k \in DOMAIN tokens :
           tokens'[k] = IF k \in DOMAIN probed[p]
                        THEN [tokens[k] EXCEPT !.state = Bearer!Restored(probed[p][k]),
                                               !.reserved_by = None]
                        ELSE IF k \in Bearer!PendingOutputs(o)
                        THEN [tokens[k] EXCEPT !.state = "orphan"] ELSE tokens[k]
  BY <1>1 DEF Bearer!Orphan
<1>7. /\ DOMAIN tokens' = DOMAIN tokens
      /\ \A k \in DOMAIN tokens :
           /\ tokens'[k].op_id = tokens[k].op_id
           /\ k \in Bearer!PlanInputs(o) =>
                /\ tokens'[k].reserved_by = None
                /\ \/ tokens'[k].state = "spent_out" /\ Gone(k)
                   \/ tokens'[k].state = "confirmed" /\ (Gone(k) => k \in given)
           /\ k \notin Bearer!PlanInputs(o) => tokens'[k].reserved_by = tokens[k].reserved_by
           /\ k \notin Bearer!PlanInputs(o) /\ tokens[k].state = "pending" /\ tokens[k].op_id = o =>
                tokens'[k].state = "orphan"
           /\ k \notin Bearer!PlanInputs(o) /\ ~(tokens[k].state = "pending" /\ tokens[k].op_id = o) =>
                tokens'[k].state = tokens[k].state
  <2>1. ASSUME NEW k \in Bearer!PlanInputs(o)
        PROVE  /\ tokens'[k].op_id = tokens[k].op_id /\ tokens'[k].reserved_by = None
               /\ tokens'[k].state = Bearer!Restored(probed[p][k])
    BY ZenonT(60), <1>2, <1>4, <1>5, <1>6 DEF Bearer!Token
  <2>2. ASSUME NEW k \in Bearer!PlanInputs(o)
        PROVE  \/ Bearer!Restored(probed[p][k]) = "spent_out" /\ Gone(k)
               \/ Bearer!Restored(probed[p][k]) = "confirmed" /\ (Gone(k) => k \in given)
    BY <1>2 DEF Bearer!Restored
  <2>3. ASSUME NEW k \in DOMAIN tokens, k \notin Bearer!PlanInputs(o),
               tokens[k].state = "pending" /\ tokens[k].op_id = o
        PROVE  tokens'[k] = [tokens[k] EXCEPT !.state = "orphan"]
    BY <1>2, <1>6, <2>3 DEF Bearer!PendingOutputs
  <2>4. ASSUME NEW k \in DOMAIN tokens, k \notin Bearer!PlanInputs(o),
               ~(tokens[k].state = "pending" /\ tokens[k].op_id = o)
        PROVE  tokens'[k] = tokens[k]
    BY <1>2, <1>6, <2>4 DEF Bearer!PendingOutputs
  <2>5. ASSUME NEW k \in DOMAIN tokens, k \notin Bearer!PlanInputs(o),
               tokens[k].state = "pending" /\ tokens[k].op_id = o
        PROVE  /\ tokens'[k].op_id = tokens[k].op_id /\ tokens'[k].state = "orphan"
               /\ tokens'[k].reserved_by = tokens[k].reserved_by
    BY <1>4, <2>3, <2>5 DEF Bearer!Token
  <2> QED
    BY <1>6, <2>1, <2>2, <2>4, <2>5, Zenon
<1>8. RowsTold'
  BY <1>2, <1>3, <1>4, <1>5, <1>7 DEF BearerInv, StoreTold, RowsTold, Gone
<1>9. PlansTold'
  BY <1>2, <1>3, <1>4, <1>5, <1>7 DEF BearerInv, StoreTold, PlansTold
<1>10. AnswersTold'
  BY <1>2, <1>3 DEF BearerInv, StoreTold, AnswersTold, Took, Gone
<1>11. ReservationsTold'
  <2> USE DEF BearerInv, StoreTold, ReservationsTold, Took, Gone
  <2>1. \A k \in DOMAIN tokens' : tokens'[k].reserved_by # None =>
          /\ tokens'[k].reserved_by \in DOMAIN ops'
          /\ ops'[tokens'[k].reserved_by].state = "planned"
          /\ k \in ops'[tokens'[k].reserved_by].inputs
    BY <1>3, <1>7 DEF Bearer!PlanInputs, Bearer!Ours
  <2>2. \A x \in DOMAIN ops' : ops'[x].kind = "pay" /\ ops'[x].state = "planned" =>
          \A k \in ops'[x].inputs \ given : k \in DOMAIN tokens' /\ tokens'[k].reserved_by = x
    BY <1>3, <1>5, <1>7
  <2>3. \A k \in DOMAIN tokens' \ given : Gone(k) =>
          \/ tokens'[k].state = "spent_out"
          \/ tokens'[k].reserved_by # None /\ Took(tokens'[k].reserved_by)
    BY <1>2, <1>7 DEF RowsTold
  <2> QED
    BY <1>2, <2>1, <2>2, <2>3
<1> QED
  BY <1>8, <1>9, <1>10, <1>11 DEF StoreTold

\* The request under way is that of a planned operation.
LEMMA RequestsPlanned ==
  ASSUME Alone, BearerInv, NEW o \in requests
  PROVE  o \in DOMAIN ops /\ ops[o].state = "planned"
<1>1. PICK p \in Proc : requests = {plan[p]} /\ doing[p] \in {"planned", "sent"}
  BY DEF Alone, BearerInv, CallTold
<1> QED
  BY <1>1 DEF BearerInv, BearerTyped, MintTyped, CallTold

\* An exchange commits whole: all inputs spent, all outputs entered, or neither.
LEMMA DeliverTells ==
  ASSUME Bearer!ConstantsOK, Alone, BearerInv, Bearer!Deliver
  PROVE  StoreTold'
<1>1. PICK o \in requests : Bearer!Execute(o) /\ UNCHANGED <<tokens, ops, given>>
  BY DEF Bearer!Deliver, Bearer!store
<1>2. o \in DOMAIN ops /\ ops[o].state = "planned"
  BY RequestsPlanned
<1>3. CASE o \in DOMAIN idem
  <2>1. UNCHANGED <<entries, idem>>
    BY <1>1, <1>3 DEF Bearer!Execute
  <2> QED
    BY <1>1, <2>1 DEF BearerInv, StoreTold, RowsTold, PlansTold, AnswersTold, ReservationsTold,
                      Gone, Took
<1>4. CASE o \notin DOMAIN idem
  <2>1. /\ DOMAIN idem' = DOMAIN idem \cup {o}
        /\ idem'[o].ok = Bearer!Accepted(o) /\ idem'[o].bad = Bearer!BadInputs(o)
        /\ \A x \in DOMAIN idem : idem'[x] = idem[x]
    BY <1>1, <1>4 DEF Bearer!Execute
  <2>2. /\ ~Took(o) /\ \A x \in DOMAIN ops \ {o} : Took(x)' <=> Took(x)
        /\ Took(o)' <=> Bearer!Accepted(o)
    BY <1>1, <1>4, <2>1 DEF Took
  <2>3. CASE Bearer!Accepted(o)
    <3>1. entries' = [k \in DOMAIN entries \cup ops[o].outputs |->
                        IF k \in ops[o].inputs THEN "spent"
                        ELSE IF k \in ops[o].outputs THEN "unspent" ELSE entries[k]]
      BY <1>1, <1>4, <2>3 DEF Bearer!Execute
    <3>2. /\ ops[o].inputs \subseteq DOMAIN entries
          /\ \A k \in ops[o].outputs : k \notin DOMAIN entries
      BY <1>2, <2>2 DEF BearerInv, StoreTold, PlansTold, AnswersTold
    <3>3. /\ DOMAIN entries' = DOMAIN entries \cup ops[o].outputs
          /\ \A k : Gone(k)' <=> Gone(k) \/ k \in ops[o].inputs
      BY <3>1, <3>2 DEF Gone
    <3>4. RowsTold'
      BY <1>1, <3>3 DEF BearerInv, StoreTold, RowsTold
    <3>5. PlansTold'
      BY <1>1, <3>3 DEF BearerInv, StoreTold, PlansTold
    <3>6. AnswersTold'
      <4>1. \A x \in DOMAIN ops \ {o} : ops[x].outputs \cap ops[o].outputs = {}
        BY <1>2 DEF BearerInv, StoreTold, PlansTold
      <4> QED
        BY <1>1, <1>2, <2>1, <2>2, <2>3, <3>2, <3>3, <4>1 DEF BearerInv, StoreTold, AnswersTold
    <3>7. ReservationsTold'
      <4>1. None \notin DOMAIN ops
        BY BearerFields DEF BearerInv
      <4> QED
        BY <1>1, <1>2, <2>2, <2>3, <3>3, <4>1
           DEF BearerInv, StoreTold, PlansTold, ReservationsTold
    <3> QED
      BY <3>4, <3>5, <3>6, <3>7 DEF StoreTold
  <2>4. CASE ~Bearer!Accepted(o)
    <3>1. entries' = entries
      BY <1>1, <1>4, <2>4 DEF Bearer!Execute
    <3>2. \A k \in Bearer!BadInputs(o) : Gone(k)
      BY <1>2 DEF Bearer!BadInputs, Bearer!StatusOf, Gone, BearerInv, BearerTyped, MintTyped,
                  StoreTold, PlansTold
    <3>3. \A k : Gone(k)' <=> Gone(k)
      BY <3>1 DEF Gone
    <3>4. RowsTold' /\ PlansTold'
      BY <1>1, <3>1, <3>3 DEF BearerInv, StoreTold, RowsTold, PlansTold
    <3>5. AnswersTold'
      BY <1>1, <1>2, <2>1, <2>2, <2>4, <3>1, <3>2, <3>3 DEF BearerInv, StoreTold, AnswersTold
    <3>6. ReservationsTold'
      BY <1>1, <2>2, <2>4, <3>1, <3>3 DEF BearerInv, StoreTold, ReservationsTold
    <3> QED
      BY <3>4, <3>5, <3>6 DEF StoreTold
  <2> QED
    BY <2>3, <2>4
<1> QED
  BY <1>3, <1>4

\* Others redeem only strings they hold.
LEMMA RedeemTells ==
  ASSUME BearerInv, Bearer!Redeem
  PROVE  StoreTold'
<1>1. PICK k \in given :
        entries' = [entries EXCEPT ![k] = "spent"] /\ UNCHANGED <<tokens, ops, idem, given>>
  BY DEF Bearer!Redeem, Bearer!store
<1>2. /\ DOMAIN entries' = DOMAIN entries
      /\ \A x : Gone(x) => Gone(x)'
      /\ \A x : x \notin given => (Gone(x)' <=> Gone(x))
  BY <1>1 DEF Gone, BearerInv, StoreTold, AnswersTold
<1>3. \A x : Took(x)' <=> Took(x)
  BY <1>1 DEF Took
<1>4. RowsTold' /\ PlansTold'
  BY <1>1, <1>2 DEF BearerInv, StoreTold, RowsTold, PlansTold
<1>5. AnswersTold'
  BY <1>1, <1>2, <1>3 DEF BearerInv, StoreTold, AnswersTold
<1>6. ReservationsTold'
  BY <1>1, <1>2, <1>3 DEF BearerInv, StoreTold, ReservationsTold
<1> QED
  BY <1>4, <1>5, <1>6 DEF StoreTold

LEMMA StoreStep ==
  ASSUME Bearer!ConstantsOK, Alone, BearerInv, [Bearer!Next]_(Bearer!vars)
  PROVE  StoreTold'
<1>1. ASSUME UNCHANGED <<tokens, ops, entries, idem, given>>
      PROVE  StoreTold'
  BY <1>1 DEF BearerInv, StoreTold, RowsTold, PlansTold, AnswersTold, ReservationsTold, Gone, Took
<1> QED
  BY <1>1, BearerSteps, PersistTells, ResolveSuccessTells, ResolveFailedTells, MarkDeadTells,
     ReturnTells, ConfirmTells, OrphanTells, DeliverTells, RedeemTells, Zenon DEF Telling

\* The phases of recovery.
Looking == {"recover", "probed", "weighed"}

\* A process that waits for no answer has no request under way.
LEMMA NoRequest ==
  ASSUME BearerInv, NEW p \in Proc, doing[p] \notin {"planned", "sent"}
  PROVE  requests = {}
BY DEF BearerInv, CallTold

\* Between calls, and in recovery, there is nothing to tell of a call.
LEMMA QuietCall ==
  ASSUME NEW p, Proc = {p}, requests' = {}, doing'[p] \in {"idle"} \cup Looking
  PROVE  CallTold'
BY DEF CallTold, Looking

LEMMA LeftIdle ==
  ASSUME BearerTyped, NEW p \in Proc, Bearer!Leave(p)
  PROVE  doing'[p] = "idle" /\ todo'[p] = {}
BY DEF Bearer!Leave, Bearer!Goto, BearerTyped, ProcTyped

\* The call: choosing and planning.
LEMMA PlanningCall ==
  ASSUME Bearer!ConstantsOK, BearerInv, NEW p \in Proc, Proc = {p},
         \/ Bearer!SelectCoins(p) \/ Bearer!ReceiveToken(p) \/ Bearer!ReceiveBatch(p)
         \/ Bearer!HandleRefused(p) \/ Bearer!Persist(p)
  PROVE  CallTold'
<1>1. ASSUME NEW c, NEW S, Bearer!Begin(p, c, S),
             IF c = "pay" THEN S \subseteq Bearer!Free ELSE S \subseteq given
      PROVE  CallTold'
  <2>1. requests' = {} /\ UNCHANGED <<tokens, given>>
    BY <1>1, NoRequest DEF Bearer!Begin, Bearer!store
  <2>2. doing'[p] = "selected" /\ calling'[p] = c /\ coins'[p] = S
    BY <1>1 DEF Bearer!Begin, Bearer!Goto, BearerInv, BearerTyped, ProcTyped
  <2>3. Bearer!Free' = Bearer!Free
    BY <2>1 DEF Bearer!Free
  <2> QED
    BY <1>1, <2>1, <2>2, <2>3 DEF CallTold
<1>2. CASE Bearer!SelectCoins(p)
  BY <1>1, <1>2 DEF Bearer!SelectCoins
<1>3. CASE Bearer!ReceiveToken(p) \/ Bearer!ReceiveBatch(p) \/ Bearer!HandleRefused(p)
  <2>1. \E c, S : c # "pay" /\ S \subseteq given /\ Bearer!Begin(p, c, S)
    BY <1>3 DEF Bearer!ReceiveToken, Bearer!ReceiveBatch, Bearer!HandleRefused
  <2> QED
    BY <1>1, <2>1
<1>4. CASE Bearer!Persist(p)
  <2>1. PICK o, outputs : Planning(p, o, outputs)
    BY <1>4, PersistPlans DEF BearerInv
  <2>2. requests' = {} /\ UNCHANGED <<calling, coins>> /\ doing'[p] = "planned"
    BY <1>4, NoRequest
       DEF Bearer!Persist, Bearer!Goto, BearerInv, BearerTyped, ProcTyped
  <2>3. plan'[p] = o /\ ops'[o].state = "planned" /\ ops'[o].inputs = coins[p]
        /\ ops'[o].kind = Bearer!KindOf(calling[p])
    BY <2>1 DEF Planning, BearerInv, BearerTyped, ProcTyped
  <2>4. Bearer!KindOf(calling[p])' = Bearer!KindOf(calling[p])
    BY <2>2 DEF Bearer!KindOf
  <2> QED
    BY <2>2, <2>3, <2>4 DEF CallTold
<1> QED
  BY <1>2, <1>3, <1>4

\* The call: asking the mint.
LEMMA AskingCall ==
  ASSUME Bearer!ConstantsOK, ~Lingering, BearerInv, NEW p \in Proc, Proc = {p},
         \/ Bearer!Send(p) \/ Bearer!NotPersisted(p) \/ Bearer!GetAnswer(p) \/ Bearer!Retry(p)
         \/ Bearer!GiveUp(p) \/ Bearer!Crash(p)
  PROVE  CallTold'
<1>1. CASE Bearer!Send(p) \/ Bearer!GetAnswer(p) \/ Bearer!Retry(p)
  <2>1. UNCHANGED <<tokens, ops, idem, given, calling, plan, coins>>
    BY <1>1 DEF Bearer!Send, Bearer!GetAnswer, Bearer!Retry, Bearer!store, Bearer!mint
  <2>2. /\ ops[plan[p]].state = "planned" /\ ops[plan[p]].inputs = coins[p]
        /\ ops[plan[p]].kind = Bearer!KindOf(calling[p])
        /\ requests \subseteq {plan[p]}
    BY <1>1 DEF Bearer!Send, Bearer!GetAnswer, Bearer!Retry, BearerInv, CallTold
  <2>3. \/ doing'[p] \in {"planned", "sent"} /\ requests' \subseteq {plan[p]}
        \/ doing'[p] = "answered" /\ requests' = {} /\ plan[p] \in DOMAIN idem
    <3>1. CASE Bearer!Send(p)
      BY <2>2, <3>1 DEF Bearer!Send, Bearer!Goto, BearerInv, BearerTyped, ProcTyped
    <3>2. CASE Bearer!GetAnswer(p)
      BY <2>2, <3>2 DEF Bearer!GetAnswer, Bearer!Goto, BearerInv, BearerTyped, ProcTyped
    <3>3. CASE Bearer!Retry(p)
      BY <2>2, <3>3 DEF Bearer!Retry, Bearer!Goto, BearerInv, BearerTyped, ProcTyped
    <3> QED
      BY <1>1, <3>1, <3>2, <3>3
  <2>4. Bearer!KindOf(calling[p])' = Bearer!KindOf(calling[p])
    BY <2>1 DEF Bearer!KindOf
  <2> QED
    BY <2>1, <2>2, <2>3, <2>4 DEF CallTold
<1>2. ~Bearer!NotPersisted(p)
  BY DEF Bearer!NotPersisted, Bearer!Persisted, BearerInv, BearerTyped, ProcTyped, CallTold,
         StoreTold, PlansTold
<1>3. CASE Bearer!GiveUp(p) \/ Bearer!Crash(p)
  <2>1. Bearer!Leave(p) /\ Bearer!Abandoned(p)
    BY <1>3, Zenon DEF Bearer!GiveUp, Bearer!Crash
  <2>2. doing'[p] = "idle"
    BY <2>1, LeftIdle DEF BearerInv
  <2>3. requests \subseteq {plan[p]}
    BY DEF BearerInv, CallTold
  <2>4. requests' = {}
    BY <2>1, <2>3 DEF Bearer!Abandoned
  <2> QED
    BY <2>2, <2>4, QuietCall
<1> QED
  BY <1>1, <1>2, <1>3

\* The call: settling what the mint answered.
LEMMA SettlingCall ==
  ASSUME Bearer!ConstantsOK, BearerInv, NEW p \in Proc, Proc = {p},
         \/ Bearer!ResolveSuccess(p) \/ Bearer!ResolveFailed(p) \/ Bearer!MarkDead(p)
         \/ Bearer!NextRound(p) \/ Bearer!Return(p)
  PROVE  CallTold'
<1>1. doing[p] \in {"answered", "marking"} /\ plan[p] \in DOMAIN ops /\ plan[p] \in DOMAIN idem
  BY DEF Bearer!ResolveSuccess, Bearer!ResolveFailed, Bearer!MarkDead, Bearer!NextRound,
         Bearer!Return, BearerInv, BearerTyped, ProcTyped, CallTold
<1>2. requests' = {} /\ UNCHANGED idem
  BY <1>1, NoRequest
     DEF Bearer!ResolveSuccess, Bearer!ResolveFailed, Bearer!MarkDead, Bearer!NextRound,
         Bearer!Return, Bearer!mint
<1>3. ASSUME Bearer!Leave(p)
      PROVE  CallTold'
  BY <1>2, <1>3, LeftIdle, QuietCall DEF BearerInv
<1>4. CASE Bearer!ResolveSuccess(p)
  <2>1. /\ doing[p] = "answered" /\ idem[plan[p]].ok
        /\ UNCHANGED <<given, calling, plan, coins>> /\ doing'[p] = "marking"
    BY <1>4 DEF Bearer!ResolveSuccess, Bearer!Succeeded, Bearer!Goto, BearerInv, BearerTyped,
                ProcTyped
  <2>2. ops'[plan[p]].state = "done" /\ ops'[plan[p]].inputs = coins[p]
        /\ ops'[plan[p]].outputs = ops[plan[p]].outputs
    BY <1>1, <1>4, <2>1, Settling DEF Bearer!ResolveSuccess, BearerInv, CallTold
  <2>3. calling[p] # "pay" => coins[p] \subseteq given
    BY <1>1, <2>1 DEF BearerInv, StoreTold, PlansTold, CallTold, Bearer!KindOf
  <2>4. ASSUME NEW k \in ops[plan[p]].outputs, tokens'[k].role = "payment"
        PROVE  tokens'[k].state = "handed_over" /\ tokens'[k].reserved_by = None
    <3>1. /\ k \in DOMAIN tokens /\ tokens[k] \in Bearer!Token
          /\ tokens[k].op_id = plan[p] /\ tokens[k].state = "pending"
          /\ tokens[k].reserved_by = None /\ plan[p] # None
      BY <1>1, <2>1, BearerFields DEF BearerInv, StoreTold, RowsTold, PlansTold, CallTold
    <3>2. tokens'[k] = Bearer!SettleRow(plan[p], tokens[k])
      BY <1>4, <3>1 DEF Bearer!ResolveSuccess
    <3>3. CASE tokens[k].role = "payment"
      BY <3>1, <3>2, <3>3 DEF Bearer!SettleRow, Bearer!Token
    <3>4. CASE tokens[k].role # "payment"
      BY <2>4, <3>1, <3>2, <3>4 DEF Bearer!SettleRow, Bearer!Token
    <3> QED
      BY <3>3, <3>4
  <2> QED
    BY <1>1, <1>2, <2>1, <2>2, <2>3, <2>4 DEF CallTold
<1>5. CASE Bearer!ResolveFailed(p)
  <2>1. /\ doing[p] = "answered" /\ ~idem[plan[p]].ok /\ UNCHANGED given
        /\ \/ Bearer!Leave(p)
           \/ /\ UNCHANGED <<calling, plan, coins>> /\ doing'[p] = "marking"
              /\ calling[p] \in {"receive_batch", "handle_refused"}
    BY <1>5 DEF Bearer!ResolveFailed, Bearer!Succeeded, Bearer!Goto, BearerInv, BearerTyped,
                ProcTyped
  <2>2. ops'[plan[p]].state = "failed" /\ ops'[plan[p]].inputs = coins[p]
    BY <1>1, <1>5, <2>1, Settling DEF Bearer!ResolveFailed, BearerInv, CallTold
  <2>3. calling[p] \in {"receive_batch", "handle_refused"} => coins[p] \subseteq given
    BY <1>1, <2>1 DEF BearerInv, StoreTold, PlansTold, CallTold, Bearer!KindOf
  <2> QED
    BY <1>1, <1>2, <1>3, <2>1, <2>2, <2>3 DEF CallTold
<1>6. CASE Bearer!MarkDead(p)
  BY <1>1, <1>2, <1>6 DEF Bearer!MarkDead, Bearer!mem, BearerInv, CallTold
<1>7. CASE Bearer!NextRound(p)
  <2>1. /\ doing[p] = "marking" /\ ~idem[plan[p]].ok /\ UNCHANGED <<tokens, given>>
        /\ \/ Bearer!Leave(p)
           \/ /\ UNCHANGED calling /\ doing'[p] = "selected"
              /\ coins'[p] = coins[p] \ idem[plan[p]].bad
    BY <1>7 DEF Bearer!NextRound, Bearer!Succeeded, Bearer!Goto, Bearer!store,
                BearerInv, BearerTyped, ProcTyped
  <2>2. calling[p] # "pay" /\ coins[p] \subseteq given
    BY <2>1 DEF BearerInv, CallTold
  <2> QED
    BY <1>2, <1>3, <2>1, <2>2 DEF CallTold
<1>8. CASE Bearer!Return(p)
  BY <1>3, <1>8 DEF Bearer!Return
<1> QED
  BY <1>4, <1>5, <1>6, <1>7, <1>8

\* Recovery, the mint and the others leave what a call knows true.
LEMMA CallStep ==
  ASSUME Bearer!ConstantsOK, Alone, BearerInv, [Bearer!Next]_(Bearer!vars)
  PROVE  CallTold'
<1>1. PICK p : Proc = {p} /\ ~Lingering
  BY DEF Alone
<1>2. p \in Proc /\ \A q \in Proc : q = p
  BY <1>1
<1>3. CASE Bearer!Recovery(p) \/ Bearer!RecoverRaises(p)
  <2>1. doing[p] \in {"idle"} \cup Looking /\ UNCHANGED requests
    BY <1>3 DEF Bearer!Recovery, Bearer!RecoverRaises, Bearer!BeginRecover, Bearer!Probe,
                Bearer!Confirm, Bearer!Weigh, Bearer!Orphan, Bearer!RecoverReturns, Looking
  <2>2. requests' = {}
    BY <1>2, <2>1, NoRequest DEF Looking
  <2>3. CASE Bearer!RecoverReturns(p) \/ Bearer!RecoverRaises(p)
    BY <1>1, <1>2, <2>2, <2>3, LeftIdle, QuietCall
       DEF Bearer!RecoverReturns, Bearer!RecoverRaises, BearerInv
  <2>4. CASE Bearer!BeginRecover(p) \/ Bearer!Probe(p) \/ Bearer!Confirm(p) \/ Bearer!Weigh(p)
               \/ Bearer!Orphan(p)
    <3>1. \E label \in Looking : Bearer!Goto(p, label)
      BY <2>4, Zenon
         DEF Bearer!BeginRecover, Bearer!Probe, Bearer!Confirm, Bearer!Weigh, Bearer!Orphan,
             Bearer!NextOp, Looking
    <3>2. doing'[p] \in Looking
      BY <1>2, <3>1 DEF Bearer!Goto, BearerInv, BearerTyped, ProcTyped
    <3> QED
      BY <1>1, <2>2, <3>2, QuietCall
  <2> QED
    BY <1>3, <2>3, <2>4 DEF Bearer!Recovery
<1>4. CASE Bearer!Deliver
  <2>1. PICK o \in requests : Bearer!Execute(o) /\ requests' = requests \ {o}
    BY <1>4 DEF Bearer!Deliver
  <2>2. requests' = {} /\ doing[p] \in {"planned", "sent"}
    BY <1>2, <2>1 DEF BearerInv, CallTold
  <2>3. UNCHANGED <<tokens, ops, given, doing, calling, plan, coins>>
    BY <1>4 DEF Bearer!Deliver, Bearer!store, Bearer!mem
  <2>4. Bearer!KindOf(calling[p])' = Bearer!KindOf(calling[p])
    BY <2>3 DEF Bearer!KindOf
  <2> QED
    BY <1>1, <2>2, <2>3, <2>4 DEF BearerInv, CallTold
<1>5. CASE Bearer!Lose \/ Bearer!Redeem \/ Bearer!ChangePolicy \/ UNCHANGED Bearer!vars
  <2>1. /\ UNCHANGED <<tokens, ops, idem, given, doing, calling, plan, coins>>
        /\ requests' \subseteq requests
    BY <1>5 DEF Bearer!Lose, Bearer!Redeem, Bearer!ChangePolicy, Bearer!vars, Bearer!store,
                Bearer!mint, Bearer!mem
  <2>2. /\ Bearer!Free' = Bearer!Free
        /\ Bearer!KindOf(calling[p])' = Bearer!KindOf(calling[p])
    BY <2>1 DEF Bearer!Free, Bearer!KindOf
  <2> QED
    BY <1>1, <2>1, <2>2 DEF BearerInv, CallTold
<1>6. CASE \/ Bearer!SelectCoins(p) \/ Bearer!ReceiveToken(p) \/ Bearer!ReceiveBatch(p)
           \/ Bearer!HandleRefused(p) \/ Bearer!Steps(p) \/ Bearer!Crash(p)
  BY <1>1, <1>2, <1>6, PlanningCall, AskingCall, SettlingCall, Zenon DEF Bearer!Steps
<1>7. \/ \/ Bearer!SelectCoins(p) \/ Bearer!ReceiveToken(p) \/ Bearer!ReceiveBatch(p)
         \/ Bearer!HandleRefused(p) \/ Bearer!Steps(p) \/ Bearer!Crash(p)
      \/ Bearer!Recovery(p) \/ Bearer!RecoverRaises(p)
      \/ Bearer!Deliver \/ Bearer!Lose \/ Bearer!Redeem \/ Bearer!ChangePolicy
      \/ UNCHANGED Bearer!vars
  BY <1>2, Zenon DEF Bearer!Next
<1> QED
  BY <1>3, <1>4, <1>5, <1>6, <1>7

\* Outside recovery there is nothing to recall of one.
LEMMA QuietRecovery ==
  ASSUME NEW p, Proc = {p}, todo'[p] = {}, doing'[p] \notin Looking
  PROVE  RecoveryTold'
BY DEF RecoveryTold, Looking

\* What recovery has been told stays so: nobody else settles its plans, and
\* others spend only strings they hold.
LEMMA RecoveryStep ==
  ASSUME Bearer!ConstantsOK, Alone, BearerInv, [Bearer!Next]_(Bearer!vars)
  PROVE  RecoveryTold'
<1>1. PICK p : Proc = {p} /\ ~Lingering
  BY DEF Alone
<1>2. p \in Proc /\ \A q \in Proc : q = p
  BY <1>1
<1>3. ASSUME Bearer!Leave(p)
      PROVE  RecoveryTold'
  BY <1>1, <1>2, <1>3, LeftIdle, QuietRecovery DEF BearerInv, Looking
<1>4. ASSUME doing[p] \notin Looking, doing'[p] \notin Looking, UNCHANGED todo
      PROVE  RecoveryTold'
  BY <1>1, <1>2, <1>4, QuietRecovery DEF BearerInv, RecoveryTold, Looking
<1>5. ASSUME NEW c, NEW S, Bearer!Begin(p, c, S)
      PROVE  RecoveryTold'
  BY <1>2, <1>4, <1>5
     DEF Bearer!Begin, Bearer!Goto, BearerInv, BearerTyped, ProcTyped, Looking
<1>6. CASE \/ Bearer!SelectCoins(p) \/ Bearer!ReceiveToken(p) \/ Bearer!ReceiveBatch(p)
           \/ Bearer!HandleRefused(p)
  BY <1>5, <1>6, Zenon
     DEF Bearer!SelectCoins, Bearer!ReceiveToken, Bearer!ReceiveBatch, Bearer!HandleRefused
<1>7. CASE \/ Bearer!Persist(p) \/ Bearer!Send(p) \/ Bearer!GetAnswer(p) \/ Bearer!Retry(p)
           \/ Bearer!ResolveSuccess(p) \/ Bearer!MarkDead(p)
  <2>1. /\ doing[p] \notin Looking /\ UNCHANGED todo
        /\ \/ UNCHANGED doing
           \/ \E label \in {"planned", "sent", "answered", "marking"} : Bearer!Goto(p, label)
    BY <1>7, Zenon
       DEF Bearer!Persist, Bearer!Send, Bearer!GetAnswer, Bearer!Retry, Bearer!ResolveSuccess,
           Bearer!MarkDead, Bearer!mem, Looking
  <2>2. doing'[p] \notin Looking
    BY <1>2, <2>1 DEF Bearer!Goto, BearerInv, BearerTyped, ProcTyped, Looking
  <2> QED
    BY <1>4, <2>1, <2>2
<1>8. CASE Bearer!ResolveFailed(p) \/ Bearer!NextRound(p)
  <2>1. \/ Bearer!Leave(p)
        \/ /\ doing[p] \notin Looking /\ UNCHANGED todo
           /\ \E label \in {"marking", "selected"} : Bearer!Goto(p, label)
    BY <1>8 DEF Bearer!ResolveFailed, Bearer!NextRound, Looking
  <2>2. Bearer!Leave(p) \/ doing'[p] \notin Looking
    BY <1>2, <2>1 DEF Bearer!Goto, BearerInv, BearerTyped, ProcTyped, Looking
  <2> QED
    BY <1>3, <1>4, <2>1, <2>2
<1>9. CASE \/ Bearer!NotPersisted(p) \/ Bearer!GiveUp(p) \/ Bearer!Return(p)
           \/ Bearer!RecoverReturns(p) \/ Bearer!RecoverRaises(p) \/ Bearer!Crash(p)
  BY <1>3, <1>9, Zenon
     DEF Bearer!NotPersisted, Bearer!GiveUp, Bearer!Return, Bearer!RecoverReturns,
         Bearer!RecoverRaises, Bearer!Crash
<1>10. CASE Bearer!BeginRecover(p)
  <2>1. /\ doing'[p] = "recover" /\ UNCHANGED ops
        /\ todo'[p] = {o \in DOMAIN ops : ops[o].state = "planned"}
    BY <1>2, <1>10
       DEF Bearer!BeginRecover, Bearer!Goto, Bearer!store, BearerInv, BearerTyped, ProcTyped
  <2> QED
    BY <1>1, <2>1 DEF RecoveryTold
<1>11. CASE Bearer!Probe(p)
  <2>1. PICK o \in todo[p] :
          /\ plan'[p] = o /\ todo'[p] = todo[p] \ {o} /\ doing'[p] = "probed"
          /\ probed'[p] = [k \in Bearer!PendingOutputs(o) |-> Bearer!StatusOf(k)]
    BY <1>2, <1>11 DEF Bearer!Probe, Bearer!Goto, BearerInv, BearerTyped, ProcTyped
  <2>2. UNCHANGED <<tokens, ops, entries>>
    BY <1>11 DEF Bearer!Probe, Bearer!store, Bearer!mint
  <2>3. ops[o].state = "planned" /\ \A x \in todo[p] : ops[x].state = "planned"
    BY <1>2, <2>1 DEF BearerInv, RecoveryTold
  <2>4. Bearer!PendingOutputs(o)' = Bearer!PendingOutputs(o)
    BY <2>2 DEF Bearer!PendingOutputs
  <2>5. \A k \in Bearer!PendingOutputs(o) :
          /\ Bearer!StatusOf(k) \in Bearer!Status
          /\ Bearer!StatusOf(k) = "unknown" <=> k \notin DOMAIN entries
          /\ Bearer!StatusOf(k) = "spent" => Gone(k)
    BY DEF Bearer!StatusOf, Bearer!Status, Gone, BearerInv, BearerTyped, MintTyped
  <2>6. \A k : Gone(k)' <=> Gone(k)
    BY <2>2 DEF Gone
  <2>7. Bearer!PendingOutputs(plan[p])' = Bearer!PendingOutputs(o)
    BY <2>1, <2>2 DEF Bearer!PendingOutputs
  <2> QED
    BY <1>1, <2>1, <2>2, <2>3, <2>5, <2>6, <2>7 DEF RecoveryTold
<1>12. CASE Bearer!Weigh(p)
  <2>1. PICK o : o = plan[p]
    OBVIOUS
  <2>2. /\ plan'[p] = o /\ todo'[p] = todo[p] /\ doing'[p] = "weighed" /\ doing[p] = "probed"
        /\ probed'[p] = [k \in Bearer!PlanInputs(o) |-> Bearer!StatusOf(k)]
        /\ UNCHANGED <<tokens, ops, entries, idem, given>> /\ ~Bearer!Committed(p)
    BY <1>2, <1>12, <2>1
       DEF Bearer!Weigh, Bearer!Goto, Bearer!store, Bearer!mint, BearerInv, BearerTyped, ProcTyped
  <2>3. /\ o \in DOMAIN ops /\ ops[o].state = "planned" /\ o \notin todo[p]
        /\ \A x \in todo[p] : ops[x].state = "planned"
        /\ DOMAIN probed[p] = Bearer!PendingOutputs(o)
        /\ \A k \in DOMAIN probed[p] : probed[p][k] = "unknown" <=> k \notin DOMAIN entries
    BY <1>2, <2>1, <2>2 DEF BearerInv, BearerTyped, ProcTyped, RecoveryTold
  <2>4. ~Took(o)
    <3>1. PICK k \in ops[o].outputs : k \in Bearer!PendingOutputs(o)
      BY <2>3 DEF BearerInv, StoreTold, PlansTold, Bearer!PendingOutputs
    <3>2. k \notin DOMAIN entries
      BY <2>2, <2>3, <3>1 DEF Bearer!Committed
    <3> QED
      BY <2>3, <3>1, <3>2 DEF BearerInv, StoreTold, AnswersTold
  <2>5. \A k \in Bearer!PlanInputs(o) :
          /\ Bearer!StatusOf(k) \in {"unspent", "spent"}
          /\ Bearer!StatusOf(k) = "spent" => Gone(k)
          /\ Bearer!StatusOf(k) = "unspent" => ~Gone(k)
    BY <2>3 DEF Bearer!StatusOf, Bearer!PlanInputs, Bearer!Ours, Gone, BearerInv, BearerTyped,
                MintTyped, StoreTold, PlansTold
  <2>6. /\ \A k : Gone(k)' <=> Gone(k)
        /\ Took(plan[p])' <=> Took(o)
        /\ Bearer!PlanInputs(plan[p])' = Bearer!PlanInputs(o)
    BY <2>2 DEF Gone, Took, Bearer!PlanInputs, Bearer!Ours
  <2> QED
    BY <1>1, <2>2, <2>3, <2>4, <2>5, <2>6 DEF RecoveryTold
<1>13. CASE Bearer!Confirm(p) \/ Bearer!Orphan(p)
  <2>1. PICK state : Bearer!Settle(plan[p], state)
    BY <1>13, Zenon DEF Bearer!Confirm, Bearer!Orphan
  <2>2. Bearer!NextOp(p) /\ UNCHANGED todo /\ doing[p] \in {"probed", "weighed"}
    BY <1>13, Zenon DEF Bearer!Confirm, Bearer!Orphan
  <2>3. /\ doing'[p] = "recover" /\ todo'[p] = todo[p]
        /\ plan[p] \in DOMAIN ops /\ plan[p] \notin todo[p] /\ todo[p] \subseteq DOMAIN ops
        /\ \A o \in todo[p] : ops[o].state = "planned"
    BY <1>2, <2>2
       DEF Bearer!NextOp, Bearer!Goto, BearerInv, BearerTyped, ProcTyped, RecoveryTold
  <2>4. \A o \in todo[p] : ops'[o].state = "planned"
    BY <2>1, <2>3, Settling DEF BearerInv
  <2> QED
    BY <1>1, <2>3, <2>4 DEF RecoveryTold
<1>14. CASE Bearer!Deliver \/ Bearer!Lose
  <2>1. requests # {} /\ UNCHANGED <<doing, todo>>
    BY <1>14 DEF Bearer!Deliver, Bearer!Lose, Bearer!mem
  <2>2. doing[p] \notin Looking
    BY <1>2, <2>1 DEF BearerInv, CallTold, Looking
  <2> QED
    BY <1>4, <2>1, <2>2
<1>15. CASE Bearer!Redeem
  <2>1. PICK k \in given :
          entries' = [entries EXCEPT ![k] = "spent"]
          /\ UNCHANGED <<tokens, ops, idem, given, doing, plan, todo, probed>>
    BY <1>15 DEF Bearer!Redeem, Bearer!store, Bearer!mem
  <2>2. /\ DOMAIN entries' = DOMAIN entries
        /\ \A x : Gone(x) => Gone(x)'
        /\ \A x : x \notin given => (Gone(x)' <=> Gone(x))
    BY <2>1 DEF Gone, BearerInv, StoreTold, AnswersTold
  <2>3. /\ \A x : Took(x)' <=> Took(x)
        /\ \A x : /\ Bearer!PlanInputs(x)' = Bearer!PlanInputs(x)
                  /\ Bearer!PendingOutputs(x)' = Bearer!PendingOutputs(x)
    BY <2>1 DEF Took, Bearer!PlanInputs, Bearer!Ours, Bearer!PendingOutputs
  <2> QED
    BY <1>1, <2>1, <2>2, <2>3 DEF BearerInv, RecoveryTold
<1>16. CASE Bearer!ChangePolicy \/ UNCHANGED Bearer!vars
  <2>1. UNCHANGED <<tokens, ops, entries, idem, given, doing, plan, todo, probed>>
    BY <1>16 DEF Bearer!ChangePolicy, Bearer!vars, Bearer!store, Bearer!mem
  <2> QED
    BY <2>1 DEF BearerInv, RecoveryTold, Gone, Took, Bearer!PlanInputs, Bearer!Ours,
                Bearer!PendingOutputs
<1> QED
  BY <1>2, <1>6, <1>7, <1>8, <1>9, <1>10, <1>11, <1>12, <1>13, <1>14, <1>15, <1>16, Zenon
     DEF Bearer!Next, Bearer!Steps, Bearer!Recovery

-----------------------------------------------------------------------------
\* The rest of the types: counters, answers to recovery, and what the mint has.
CountsTyped ==
  /\ policy \in 0..MaxPolicy /\ deaths \in 0..MaxDeaths
  /\ DOMAIN entries \subseteq Coins
  /\ tries \in [Proc -> 0..MAX_ATTEMPTS]
  /\ \A p \in Proc : doing[p] = "planned" => tries[p] < MAX_ATTEMPTS
ProbesTyped ==
  /\ DOMAIN probed = Proc
  /\ \A p \in Proc : /\ DOMAIN probed[p] \subseteq Coins
                     /\ \A k \in DOMAIN probed[p] : probed[p][k] \in Bearer!Status

LEMMA CountsInit ==
  ASSUME Bearer!ConstantsOK, Bearer!Init
  PROVE  CountsTyped /\ ProbesTyped
BY DEF Bearer!ConstantsOK, Bearer!Init, Bearer!Nothing, Bearer!Status, CountsTyped, ProbesTyped

LEMMA CountsStep ==
  ASSUME Bearer!ConstantsOK, BearerTyped, CountsTyped, [Bearer!Next]_(Bearer!vars)
  PROVE  CountsTyped'
<1> USE DEF CountsTyped, Bearer!Goto, Bearer!store, Bearer!mint, Bearer!mem
<1>1. /\ MAX_ATTEMPTS \in Nat /\ MAX_ATTEMPTS > 0 /\ MaxPolicy \in Nat /\ MaxDeaths \in Nat
      /\ doing \in [Proc -> {"idle", "selected", "planned", "sent", "answered",
                             "marking", "recover", "probed", "weighed"}]
  BY DEF Bearer!ConstantsOK, BearerTyped, ProcTyped
<1>2. ASSUME NEW p \in Proc, Bearer!Leave(p), UNCHANGED <<policy, entries>>,
             deaths' = deaths \/ deaths' \in 0..MaxDeaths
      PROVE  CountsTyped'
  BY <1>1, <1>2 DEF Bearer!Leave
<1>3. CASE UNCHANGED Bearer!vars
  BY <1>3 DEF Bearer!vars
<1>4. ASSUME NEW p \in Proc,
             Bearer!SelectCoins(p) \/ Bearer!ReceiveToken(p) \/ Bearer!ReceiveBatch(p)
               \/ Bearer!HandleRefused(p)
      PROVE  CountsTyped'
  BY <1>1, <1>4 DEF Bearer!SelectCoins, Bearer!ReceiveToken, Bearer!ReceiveBatch,
     Bearer!HandleRefused, Bearer!Begin
<1>5. ASSUME NEW p \in Proc, Bearer!Persist(p) PROVE CountsTyped'
  <2>1. /\ UNCHANGED <<policy, entries, deaths>> /\ tries' = [tries EXCEPT ![p] = 0]
        /\ doing' = [doing EXCEPT ![p] = "planned"]
    BY <1>5 DEF Bearer!Persist
  <2> QED
    BY <1>1, <2>1
<1>6. ASSUME NEW p \in Proc, Bearer!Send(p) \/ Bearer!GetAnswer(p) \/ Bearer!Retry(p)
      PROVE  CountsTyped'
  BY <1>1, <1>6 DEF Bearer!Send, Bearer!GetAnswer, Bearer!Retry
<1>7. ASSUME NEW p \in Proc,
             Bearer!NotPersisted(p) \/ Bearer!GiveUp(p) \/ Bearer!Return(p)
               \/ Bearer!RecoverReturns(p) \/ Bearer!RecoverRaises(p)
      PROVE  CountsTyped'
  <2>1. Bearer!Leave(p) /\ UNCHANGED <<policy, entries, deaths>>
    BY <1>7 DEF Bearer!NotPersisted, Bearer!GiveUp, Bearer!Return, Bearer!RecoverReturns,
       Bearer!RecoverRaises
  <2> QED
    BY <1>2, <2>1
<1>8. ASSUME NEW p \in Proc, Bearer!ResolveSuccess(p) \/ Bearer!MarkDead(p)
      PROVE  CountsTyped'
  BY <1>1, <1>8 DEF Bearer!ResolveSuccess, Bearer!MarkDead
<1>9. ASSUME NEW p \in Proc, Bearer!ResolveFailed(p) \/ Bearer!NextRound(p)
      PROVE  CountsTyped'
  <2>1. /\ UNCHANGED <<policy, entries, deaths>>
        /\ \/ Bearer!Leave(p)
           \/ UNCHANGED tries /\ doing' = [doing EXCEPT ![p] = "marking"]
           \/ UNCHANGED tries /\ doing' = [doing EXCEPT ![p] = "selected"]
    BY <1>9 DEF Bearer!ResolveFailed, Bearer!NextRound
  <2> QED
    BY <1>1, <1>2, <2>1
<1>10. ASSUME NEW p \in Proc,
              Bearer!BeginRecover(p) \/ Bearer!Probe(p) \/ Bearer!Confirm(p)
                \/ Bearer!Weigh(p) \/ Bearer!Orphan(p)
       PROVE  CountsTyped'
  <2>1. /\ UNCHANGED <<policy, entries, deaths, tries>>
        /\ \E label \in {"recover", "probed", "weighed"} : doing' = [doing EXCEPT ![p] = label]
    BY <1>10 DEF Bearer!BeginRecover, Bearer!Probe, Bearer!Confirm, Bearer!Weigh,
       Bearer!Orphan, Bearer!NextOp
  <2> QED
    BY <1>1, <2>1
<1>11. ASSUME NEW p \in Proc, Bearer!Crash(p) PROVE CountsTyped'
  <2>1. Bearer!Leave(p) /\ UNCHANGED <<policy, entries>> /\ deaths' \in 0..MaxDeaths
    BY <1>1, <1>11 DEF Bearer!Crash
  <2> QED
    BY <1>2, <2>1
<1>12. CASE Bearer!Deliver
  <2>1. PICK o \in requests : Bearer!Execute(o) /\ UNCHANGED <<policy, deaths, tries, doing>>
    BY <1>12 DEF Bearer!Deliver
  <2>2. ops[o].outputs \subseteq Coins
    <3>1. o \in DOMAIN ops /\ ops \in Seq(Bearer!Operation)
      BY DEF BearerTyped, MintTyped, StoreTyped
    <3>2. ops[o] \in Bearer!Operation
      BY <3>1
    <3> QED
      BY <3>2 DEF Bearer!Operation
  <2>3. DOMAIN entries' \subseteq Coins
    BY <2>1, <2>2 DEF Bearer!Execute
  <2> QED
    BY <2>1, <2>3
<1>13. CASE Bearer!Lose \/ Bearer!Redeem \/ Bearer!ChangePolicy
  BY <1>1, <1>13 DEF Bearer!Lose, Bearer!Redeem, Bearer!ChangePolicy
<1> QED
  BY <1>3, <1>4, <1>5, <1>6, <1>7, <1>8, <1>9, <1>10, <1>11, <1>12, <1>13, Zenon
     DEF Bearer!Next, Bearer!Steps, Bearer!Recovery

LEMMA ProbesStep ==
  ASSUME Bearer!ConstantsOK, BearerTyped, ProbesTyped, [Bearer!Next]_(Bearer!vars)
  PROVE  ProbesTyped'
<1> USE DEF ProbesTyped
<1>1. CASE UNCHANGED probed
  BY <1>1
<1>2. ASSUME NEW p \in Proc, probed' = [probed EXCEPT ![p] = Bearer!Nothing]
      PROVE  ProbesTyped'
  BY <1>2 DEF Bearer!Nothing
<1>3. ASSUME NEW k \in DOMAIN tokens
      PROVE  k \in Coins /\ Bearer!StatusOf(k) \in Bearer!Status
  BY <1>3 DEF BearerTyped, StoreTyped, MintTyped, Bearer!StatusOf, Bearer!Status
<1>4. ASSUME NEW p \in Proc, NEW S \in SUBSET DOMAIN tokens,
             probed' = [probed EXCEPT ![p] = [k \in S |-> Bearer!StatusOf(k)]]
      PROVE  ProbesTyped'
  BY <1>3, <1>4
<1>5. ASSUME NEW p \in Proc, Bearer!Probe(p) \/ Bearer!Weigh(p)
      PROVE  ProbesTyped'
  <2>1. \E S \in SUBSET DOMAIN tokens :
          probed' = [probed EXCEPT ![p] = [k \in S |-> Bearer!StatusOf(k)]]
    BY <1>5 DEF Bearer!Probe, Bearer!Weigh, Bearer!PendingOutputs, Bearer!PlanInputs,
       Bearer!Ours
  <2> QED
    BY <1>4, <2>1
<1>6. ASSUME NEW p \in Proc,
             Bearer!NotPersisted(p) \/ Bearer!GiveUp(p) \/ Bearer!Return(p)
               \/ Bearer!RecoverReturns(p) \/ Bearer!RecoverRaises(p) \/ Bearer!Crash(p)
               \/ Bearer!Confirm(p) \/ Bearer!Orphan(p)
      PROVE  ProbesTyped'
  <2>1. probed' = [probed EXCEPT ![p] = Bearer!Nothing]
    BY <1>6, Zenon DEF Bearer!NotPersisted, Bearer!GiveUp, Bearer!Return,
       Bearer!RecoverReturns, Bearer!RecoverRaises, Bearer!Crash, Bearer!Confirm,
       Bearer!Orphan, Bearer!NextOp, Bearer!Leave
  <2> QED
    BY <1>2, <2>1
<1>7. ASSUME NEW p \in Proc, Bearer!ResolveFailed(p) \/ Bearer!NextRound(p)
      PROVE  ProbesTyped'
  <2>1. probed' = [probed EXCEPT ![p] = Bearer!Nothing] \/ probed' = probed
    BY <1>7 DEF Bearer!ResolveFailed, Bearer!NextRound, Bearer!Leave
  <2> QED
    BY <1>1, <1>2, <2>1
<1>8. ASSUME NEW p \in Proc,
             Bearer!SelectCoins(p) \/ Bearer!ReceiveToken(p) \/ Bearer!ReceiveBatch(p)
               \/ Bearer!HandleRefused(p) \/ Bearer!Persist(p) \/ Bearer!Send(p)
               \/ Bearer!GetAnswer(p) \/ Bearer!Retry(p) \/ Bearer!ResolveSuccess(p)
               \/ Bearer!MarkDead(p) \/ Bearer!BeginRecover(p)
      PROVE  ProbesTyped'
  BY <1>1, <1>8, Zenon
     DEF Bearer!SelectCoins, Bearer!ReceiveToken, Bearer!ReceiveBatch, Bearer!HandleRefused,
         Bearer!Begin, Bearer!Persist, Bearer!Send, Bearer!GetAnswer, Bearer!Retry,
         Bearer!ResolveSuccess, Bearer!MarkDead, Bearer!BeginRecover, Bearer!mem
<1>9. CASE \/ Bearer!Deliver \/ Bearer!Lose \/ Bearer!Redeem \/ Bearer!ChangePolicy
           \/ UNCHANGED Bearer!vars
  BY <1>1, <1>9 DEF Bearer!Deliver, Bearer!Lose, Bearer!Redeem, Bearer!ChangePolicy,
     Bearer!mem, Bearer!vars
<1> QED
  BY <1>5, <1>6, <1>7, <1>8, <1>9, Zenon DEF Bearer!Next, Bearer!Steps, Bearer!Recovery

LEMMA BearerTypeOK ==
  ASSUME Bearer!ConstantsOK, BearerTyped, CountsTyped, ProbesTyped
  PROVE  Bearer!TypeOK
<1>1. DOMAIN ops = 1..Len(ops) /\ Len(ops) \in Nat /\ Len(ops) <= MaxOps /\ MaxOps \in Nat
  BY DEF BearerTyped, StoreTyped, Bearer!ConstantsOK
<1>2. DOMAIN idem \subseteq 1..MaxOps
  BY <1>1 DEF BearerTyped, MintTyped
<1>3. \A o \in DOMAIN ops : ops[o] \in Bearer!Operation
  BY DEF BearerTyped, StoreTyped
<1> QED
  BY <1>1, <1>2, <1>3 DEF BearerTyped, StoreTyped, MintTyped, ProcTyped, CountsTyped,
     ProbesTyped, Bearer!TypeOK

\* The composition: a behaviour of the wallet keeps its invariants.
WalletInv == BearerInv /\ CountsTyped /\ ProbesTyped

LEMMA ProgramWallet ==
  ASSUME Bearer!ConstantsOK, Alone
  PROVE  ProgramSpec => [](program = "wallet" => WalletInv)
<1>1. ProgramInit => (program = "wallet" => WalletInv)
  <2> SUFFICES ASSUME ProgramInit, program = "wallet" PROVE WalletInv
    OBVIOUS
  <2>1. Bearer!Init
    BY Zenon DEF ProgramInit
  <2> QED
    BY <2>1, BearerInvInit, CountsInit DEF WalletInv
<1>2. (program = "wallet" => WalletInv) /\ [ProgramNext]_programVars =>
        (program = "wallet" => WalletInv)'
  <2> SUFFICES ASSUME program = "wallet" => WalletInv, [ProgramNext]_programVars,
                      program' = "wallet"
               PROVE  WalletInv'
    OBVIOUS
  <2>1. program = "wallet" /\ [Bearer!Next]_(Bearer!vars)
    BY DEF ProgramNext, programVars, walletVars, Bearer!vars
  <2>2. BearerInv /\ BearerTyped /\ CountsTyped /\ ProbesTyped
    BY <2>1 DEF WalletInv, BearerInv
  <2>3. BearerInv'
    BY <2>1, <2>2, BearerTypesStep, StoreStep, CallStep, RecoveryStep DEF BearerInv
  <2>4. CountsTyped' /\ ProbesTyped'
    BY <2>1, <2>2, CountsStep, ProbesStep
  <2> QED
    BY <2>3, <2>4 DEF WalletInv
<1> QED
  BY <1>1, <1>2, PTL DEF ProgramSpec

\* recover() and the order of the writes around an exchange (Wallet.recover,
\* _persist_plan, _resolve_success, _resolve_failed, impl/aicash/wallet.py): no
\* live coin whose secret this wallet made is in a row that no call and no
\* recovery will look at again.
THEOREM NothingIsStranded ==
  ASSUME Bearer!ConstantsOK, Alone
  PROVE  ProgramSpec => []NothingStranded
<1>1. BearerInv => Bearer!NothingStranded
  <2> SUFFICES ASSUME BearerInv, NEW k \in DOMAIN tokens, Bearer!Live(k)
               PROVE  \/ tokens[k].state \in {"confirmed", "handed_over"}
                      \/ tokens[k].state = "pending" /\ ops[tokens[k].op_id].state = "planned"
    BY DEF Bearer!NothingStranded
  <2>1. k \in DOMAIN entries /\ ~Gone(k)
    BY DEF Bearer!Live, Bearer!StatusOf, Gone
  <2>2. tokens[k] \in Bearer!Token
    BY DEF BearerInv, BearerTyped, StoreTyped
  <2>3. tokens[k].state # "spent_out"
    BY <2>1 DEF BearerInv, StoreTold, RowsTold
  <2>4. tokens[k].state # "orphan"
    BY <2>1 DEF BearerInv, StoreTold, RowsTold, AnswersTold
  <2> QED
    BY <2>2, <2>3, <2>4 DEF Bearer!Token, BearerInv, StoreTold, RowsTold
<1>2. (program = "wallet" => WalletInv) => NothingStranded
  BY <1>1, BearerTypeOK DEF WalletInv, BearerInv, NothingStranded
<1> QED
  BY <1>2, ProgramWallet, PTL

\* balance(), _held_coins and reserved_by (impl/aicash/wallet.py): a confirmed coin
\* that no operation reserves and whose string never left the wallet is live at
\* the mint, and a coin is reserved by the operation that spends it, as long as
\* that is planned and no longer.
THEOREM BalancesAreReal ==
  ASSUME Bearer!ConstantsOK, Alone
  PROVE  ProgramSpec => []BalanceReal
<1>1. BearerInv => Bearer!BalanceReal
  <2> SUFFICES ASSUME BearerInv, NEW k \in Bearer!Free \ given
               PROVE  Bearer!Live(k)
    BY DEF Bearer!BalanceReal
  <2>1. k \in DOMAIN tokens /\ tokens[k].state = "confirmed" /\ tokens[k].reserved_by = None
    BY DEF Bearer!Free
  <2>2. k \in DOMAIN entries /\ ~Gone(k)
    BY <2>1 DEF BearerInv, StoreTold, RowsTold, ReservationsTold
  <2> QED
    BY <2>2 DEF Bearer!Live, Bearer!StatusOf, Gone, BearerInv, BearerTyped, MintTyped
<1>2. BearerInv => Bearer!ReservationsExact
  BY DEF BearerInv, StoreTold, ReservationsTold, Bearer!ReservationsExact
<1>3. (program = "wallet" => WalletInv) => BalanceReal
  BY <1>1, <1>2 DEF WalletInv, BalanceReal
<1> QED
  BY <1>3, ProgramWallet, PTL

\* handle_refused (impl/aicash/wallet.py): once it has settled, none of the strings
\* it was given can be redeemed by whoever still holds them.
THEOREM RefusalsRetire ==
  ASSUME Bearer!ConstantsOK, Alone
  PROVE  ProgramSpec => []RefusedRetired
<1>1. BearerInv => Bearer!RefusedRetired
  <2> SUFFICES ASSUME BearerInv, NEW p \in Proc, Bearer!RefusalSettled(p), NEW k \in coins[p]
               PROVE  ~Bearer!Live(k)
    BY DEF Bearer!RefusedRetired
  <2>1. plan[p] \in DOMAIN ops /\ plan[p] \in DOMAIN idem /\ k \in ops[plan[p]].inputs
        /\ idem[plan[p]].ok
    BY DEF Bearer!RefusalSettled, BearerInv, BearerTyped, ProcTyped, CallTold
  <2>2. Gone(k)
    BY <2>1 DEF Took, BearerInv, StoreTold, AnswersTold
  <2> QED
    BY <2>2 DEF Gone, Bearer!Live, Bearer!StatusOf
<1>2. (program = "wallet" => WalletInv) => RefusedRetired
  BY <1>1 DEF WalletInv, RefusedRetired
<1> QED
  BY <1>2, ProgramWallet, PTL

\* pay and pay_many (impl/aicash/wallet.py): the strings a payment returns are
\* worth their face when it returns them.
THEOREM PaidStringsAreLive ==
  ASSUME Bearer!ConstantsOK, Alone
  PROVE  ProgramSpec => PaidStringsLive
<1>1. BearerInv /\ [Bearer!Next]_(Bearer!vars) => [Bearer!PaidLive]_(Bearer!vars)
  <2> SUFFICES ASSUME BearerInv, [Bearer!Next]_(Bearer!vars), NEW k \in given' \ given
               PROVE  Bearer!Live(k)
    BY DEF Bearer!PaidLive
  <2>1. PICK p \in Proc : Bearer!Return(p)
    <3>1. Telling
      BY BearerSteps
    <3> QED
      BY <3>1 DEF Telling, Bearer!Persist, Bearer!ResolveSuccess, Bearer!ResolveFailed,
                  Bearer!MarkDead, Bearer!Confirm, Bearer!Orphan, Bearer!Deliver, Bearer!Redeem
  <2>2. /\ calling[p] = "pay" /\ k \in ops[plan[p]].outputs /\ tokens[k].role = "payment"
        /\ doing[p] = "marking" /\ plan[p] \in DOMAIN ops /\ Took(plan[p])
    BY <2>1 DEF Bearer!Return, Bearer!Payments, Bearer!Succeeded, Took, BearerInv, BearerTyped,
                ProcTyped, CallTold
  <2>3. tokens[k].state = "handed_over" /\ tokens[k].reserved_by = None
    BY <2>2 DEF BearerInv, CallTold
  <2>4. k \in DOMAIN tokens /\ k \in DOMAIN entries
    BY <2>2 DEF BearerInv, StoreTold, PlansTold, AnswersTold
  <2>5. ~Gone(k)
    BY <2>3, <2>4 DEF BearerInv, StoreTold, ReservationsTold
  <2> QED
    BY <2>4, <2>5 DEF Bearer!Live, Bearer!StatusOf, Gone, BearerInv, BearerTyped, MintTyped
<1>2. (program = "wallet" => WalletInv) /\ [ProgramNext]_programVars =>
        [program = "wallet" => Bearer!PaidLive]_programVars
  <2> SUFFICES ASSUME program = "wallet", WalletInv, ProgramNext, ~UNCHANGED programVars
               PROVE  Bearer!PaidLive
    BY Zenon
  <2>1. Bearer!Next /\ UNCHANGED <<launcherVars, controlVars>> /\ UNCHANGED program
    BY DEF ProgramNext
  <2>2. ~UNCHANGED Bearer!vars
    BY <2>1 DEF programVars, walletVars, Bearer!vars
  <2> QED
    BY <1>1, <2>1, <2>2 DEF WalletInv
<1> QED
  BY <1>2, ProgramWallet, PTL DEF ProgramSpec, PaidStringsLive
=============================================================================
