------------------------------- MODULE Clients -------------------------------
(***************************************************************************)
(* The desktop wallet's record of its payments, and a connection to any of *)
(* the HTTP servers, side by side.  They share no state.  A behaviour is   *)
(* one client's, and the variables of the other keep one value.            *)
(***************************************************************************)
EXTENDS Integers

CONSTANTS
    NULL,
    \* PaymentJournal
    Payment, MaxCrashes, MaxStops,
    \* HttpConnection
    Server, Requests, Pipeline, MaxEmpty, TooLong

VARIABLES
    client,
    \* PaymentJournal
    up, op, row, ledger, stranded, intended, record, outside, credited,
    payer, payee, crashes, stops,
    \* HttpConnection
    kind, sent, arrived, pos, pc, cur, skipped, closing, reusable, answers, lost

journalVars == <<up, op, row, ledger, stranded, intended, record, outside,
                 credited, payer, payee, crashes, stops>>
httpVars == <<kind, sent, arrived, pos, pc, cur, skipped, closing, reusable,
              answers, lost>>
clientVars == <<client, journalVars, httpVars>>

Journal == INSTANCE PaymentJournal
Http == INSTANCE HttpConnection

----------------------------------------------------------------------------
\* The variables of a client that does not run.
NoJournal ==
    /\ up = 0 /\ op = 0 /\ row = 0 /\ ledger = 0 /\ stranded = 0 /\ intended = 0
    /\ record = 0 /\ outside = 0 /\ credited = 0 /\ payer = 0 /\ payee = 0
    /\ crashes = 0 /\ stops = 0
NoHttp ==
    /\ kind = 0 /\ sent = 0 /\ arrived = 0 /\ pos = 0 /\ pc = 0 /\ cur = 0
    /\ skipped = 0 /\ closing = 0 /\ reusable = 0 /\ answers = 0 /\ lost = 0
NoClient == client = "none" /\ NoJournal /\ NoHttp

ClientInit ==
    \/ client = "journal" /\ Journal!Init /\ NoHttp
    \/ client = "http" /\ Http!Init /\ NoJournal

ClientNext ==
    /\ UNCHANGED client
    /\ \/ client = "journal" /\ Journal!Next /\ UNCHANGED httpVars
       \/ client = "http" /\ Http!Next /\ UNCHANGED journalVars
ClientSpec == ClientInit /\ [][ClientNext]_clientVars

----------------------------------------------------------------------------
\* See module PaymentJournal; and its types.
ReportHonest == client = "journal" => Journal!TypeOK /\ Journal!ReportHonest

\* See module PaymentJournal.
JournalHonest == [][client = "journal" => Journal!RecordKept]_clientVars

\* See module HttpConnection; and its types.
InStep == client = "http" => Http!TypeOK /\ Http!InStep
=============================================================================
