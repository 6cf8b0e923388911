------------------------ MODULE HttpConnection ------------------------
(***************************************************************************)
(* One connection to one of the HTTP servers of the repository: the mint   *)
(* (impl/aicash/mintapi.py, and the supervision routes mounted on it), the *)
(* desktop GUI (gui/app.py) and the operator console (mint_console.py).    *)
(* They share one rule, framing_verdict, for how many octets behind a      *)
(* header block belong to the request, and each decides in its own order   *)
(* what it refuses and whether it goes on reading the connection.          *)
(*                                                                         *)
(* The peer's octets are units in a row: of each request its empty lines,  *)
(* its head, the parts of its body.  A place <<i, k>> is the k-th unit of  *)
(* request i.  Any suffix may be missing, when the peer stops or drips     *)
(* beyond the deadline.                                                    *)
(***************************************************************************)
EXTENDS Integers

CONSTANTS
    Server,       \* the servers: a subset of {"mint", "gui", "console"}
    Requests,     \* the requests a peer may send
    Pipeline,     \* bound: how many it sends
    MaxEmpty,     \* MAX_LEADING_EMPTY_LINES of the console
    TooLong       \* the first body length above MAX_BODY_BYTES, in units

VARIABLES
    kind,      \* the server that answers
    sent,      \* the requests the peer sends, in order
    arrived,   \* the place of the last unit that arrives, <<1, 0>> for none
    pos,       \* the place of the last unit consumed, <<1, 0>> for none
    pc,        \* line, head, route, body, dispatch, done
    cur,       \* the request under way, 0 for none
    skipped,   \* empty lines stepped over before this request line
    closing,   \* close_connection
    reusable,  \* the gui's peer_keeps_alive
    answers,   \* of each request, the final answers sent
    lost       \* has a write failed?

vars == <<kind, sent, arrived, pos, pc, cur, skipped, closing, reusable,
          answers, lost>>

(* What framing_verdict tells apart in a header block: one that was not    *)
(* read whole, a folded line, a name that is no token, a name some hop     *)
(* could read as a framing header, two lengths, a length that is no run of *)
(* digits, no length, one length.                                          *)
Unreadable == {"defective", "folded", "not_token", "confusable", "duplicated", "malformed"}
Framing == Unreadable \cup {"absent", "stated"}
Request == [method : {"GET", "POST", "PUT"}, framing : Framing, octets : 0..TooLong,
            empty : 0..(MaxEmpty + 1), version : {"1.1", "0.9", "bad"},
            target : BOOLEAN, keep : BOOLEAN, expect : BOOLEAN,
            session : BOOLEAN, known : BOOLEAN]

\* What the constants must be; the module that instantiates this one assumes it.
ConstantsOK ==
    /\ Server \subseteq {"mint", "gui", "console"} /\ Requests \subseteq Request
    /\ Pipeline \in Nat \ {0} /\ {MaxEmpty, TooLong} \subseteq Nat

\* What a peer may mean by it: a stated length is the length; without one only
\* a POST may carry octets, those a dropped header was about.
WellMeant(r) == r.framing = "absent" /\ r.method # "POST" => r.octets = 0

Framed(r, bodyExpected) ==
    r.framing = "stated" \/ (r.framing = "absent" /\ ~bodyExpected)
Length(r) == IF r.framing = "stated" THEN r.octets ELSE 0
MustClose(r, bodyExpected) ==
    ~Framed(r, bodyExpected) \/ (~bodyExpected /\ Length(r) # 0)

Size(r) == r.empty + 1 + r.octets
Unit(r, k) == IF k <= r.empty THEN "empty" ELSE IF k = r.empty + 1 THEN "head" ELSE "body"
Place == {<<1, 0>>} \cup {p \in (1..Pipeline) \X (1..(MaxEmpty + 2 + TooLong)) :
                            p[2] <= Size(sent[p[1]])}
Came(p) == p[1] < arrived[1] \/ (p[1] = arrived[1] /\ p[2] <= arrived[2])

\* What the server finds on the connection when it reads on.
Upcoming == IF pos[2] < Size(sent[pos[1]]) THEN <<pos[1], pos[2] + 1>> ELSE <<pos[1] + 1, 1>>
Finds(what) == Came(Upcoming) /\ Unit(sent[Upcoming[1]], Upcoming[2]) = what

Init ==
    /\ kind \in Server
    /\ sent \in [1..Pipeline -> {r \in Requests : WellMeant(r)}]
    /\ arrived \in Place
    /\ pos = <<1, 0>> /\ pc = "line" /\ cur = 0 /\ skipped = 0
    /\ closing = FALSE /\ reusable = FALSE
    /\ answers = [i \in 0..Pipeline |-> 0]
    /\ lost = FALSE

given == <<kind, sent, arrived>>
req == sent[cur]
BodyExpected == req.method = "POST"

----------------------------------------------------------------------------
\* _send: one final answer, which announces the close if there is to be one; a
\* write that fails costs the connection.  Then the next request, or the end.
After(close, failed) == IF close \/ failed THEN "done" ELSE "line"
Answer(i, close) ==
    \E failed \in BOOLEAN :
        /\ answers' = [answers EXCEPT ![i] = @ + 1]
        /\ lost' = (lost \/ failed)
        /\ pc' = After(close, failed)
        /\ closing' = (close \/ failed)
        /\ cur' = 0 /\ skipped' = 0
HangUp ==
    /\ pc' = "done" /\ closing' = TRUE
    /\ UNCHANGED <<cur, skipped, answers, lost>>
Stay(step) ==
    /\ pc' = step
    /\ UNCHANGED <<cur, skipped, answers, lost>>

\* The end of what arrives, where a request line is expected.  The mint goes
\* without a word ...
MintLineEnds == kind = "mint" /\ HangUp
\* ... the gui answers 408 when it was the clock that ran out ...
GuiLineEnds == kind = "gui" /\ (HangUp \/ Answer(0, TRUE))
\* ... and the console does so too, and also answers a peer that stopped after
\* empty lines.
ConsoleLineEnds == kind = "console" /\ (Answer(0, TRUE) \/ (skipped = 0 /\ HangUp))
LineEnds ==
    /\ pc = "line" /\ ~Came(Upcoming)
    /\ MintLineEnds \/ GuiLineEnds \/ ConsoleLineEnds
    /\ UNCHANGED <<given, pos, reusable>>

\* parse_request steps over one empty line (the console over a run of them).
Tolerated == IF kind = "console" THEN MaxEmpty ELSE 1
EmptyLine ==
    /\ pc = "line" /\ Finds("empty")
    /\ pos' = Upcoming
    /\ IF skipped < Tolerated
       THEN skipped' = skipped + 1 /\ UNCHANGED <<pc, cur, closing, answers, lost>>
       ELSE IF kind = "mint"
       THEN HangUp
       ELSE Answer(Upcoming[1], TRUE)
    /\ UNCHANGED <<given, reusable>>

\* A head: the library reads the line and the block and decides on keep-alive,
\* which the console, speaking HTTP/1.0, never grants.
ReadHead ==
    /\ pc = "line" /\ Finds("head")
    /\ pos' = Upcoming
    /\ cur' = Upcoming[1]
    /\ closing' = (kind = "console" \/ ~sent[cur'].keep \/ sent[cur'].version # "1.1")
    /\ pc' = "head"
    /\ UNCHANGED <<given, skipped, reusable, answers, lost>>

\* handle_expect_100, inside the library's own parsing: only the gui asks its
\* gate before it promises to read a body.
GuiExpects == kind = "gui" /\ req.expect /\ req.version = "1.1"
\* The refusals of parse_request, send_error among them: one answer, then close.
BadLine == req.version # "1.1" \/ ~req.target
MintRefuses == BadLine \/ req.method = "PUT"
GuiRefuses == BadLine \/ ~Framed(req, BodyExpected) \/ (GuiExpects /\ Length(req) >= TooLong)
ConsoleRefuses == BadLine \/ ~Framed(req, BodyExpected)
HeadRefused ==
    \/ kind = "mint" /\ MintRefuses
    \/ kind = "gui" /\ GuiRefuses
    \/ kind = "console" /\ ConsoleRefuses
RefuseHead ==
    /\ pc = "head" /\ HeadRefused
    /\ Answer(cur, TRUE)
    /\ UNCHANGED <<given, pos, reusable>>
\* The verdict, before dispatch.  The mint decides for a GET here, for a POST
\* with its body; the gui also closes for every body until it is off the wire.
MintCloses(r) == r.method = "GET" /\ MustClose(r, FALSE)
GuiCloses(r) == MustClose(r, BodyExpected) \/ Length(r) # 0
CloseForNone(r) ==   \* mutant: nobody closes for octets left unread
    kind = "gui" /\ Length(r) # 0
CloseFor(r) ==
    CASE kind = "mint" -> MintCloses(r)
      [] kind = "gui" -> GuiCloses(r)
      [] kind = "console" -> MustClose(r, BodyExpected)
AdmitHead ==
    /\ pc = "head" /\ ~HeadRefused
    /\ closing' = (closing \/ CloseFor(req))
    /\ reusable' = (~closing /\ ~MustClose(req, BodyExpected))
    /\ Stay(IF kind = "mint" /\ req.method = "POST" THEN "body" ELSE "route")
    /\ UNCHANGED <<given, pos>>

\* Authorization and routing.  The gui and the console refuse, and look up the
\* route, before they read a body; the mint reads it for every POST.
NoSession ==
    /\ pc = "route" /\ kind # "mint" /\ ~req.session
    /\ Answer(cur, TRUE)
    /\ UNCHANGED <<given, pos, reusable>>
\* The console gates every route but reads the body of a POST to any.
Unrouted ==
    /\ pc = "route" /\ kind = "gui" /\ req.session
    /\ ~req.known \/ req.method = "PUT"
    /\ Answer(cur, closing)
    /\ UNCHANGED <<given, pos, reusable>>
Routed ==
    /\ pc = "route"
    /\ kind # "mint" => req.session
    /\ kind = "gui" => req.known /\ req.method # "PUT"
    /\ Stay(IF req.method = "POST" THEN "body" ELSE "dispatch")
    /\ UNCHANGED <<given, pos, closing, reusable>>

\* _read_json, _read_body_bytes: no trusted length, too long, or octets that do
\* not all arrive: the rest stays on the wire, so the connection ends.
BodyEnd == <<pos[1], pos[2] + Length(req)>>
RefuseBody ==
    /\ pc = "body"
    /\ ~Framed(req, TRUE) \/ Length(req) >= TooLong \/ ~Came(BodyEnd)
    /\ Answer(cur, TRUE)
    /\ UNCHANGED <<given, pos, reusable>>
\* A peer that died while its body was read gets no answer from the console.
Reset ==
    /\ pc = "body" /\ kind = "console"
    /\ ~Came(BodyEnd)
    /\ pc' = "done" /\ closing' = TRUE /\ lost' = TRUE
    /\ UNCHANGED <<given, pos, cur, skipped, reusable, answers>>
\* The body is off the wire: what is wrong with its text costs nothing more.
ReadBody ==
    /\ pc = "body"
    /\ Framed(req, TRUE) /\ Length(req) < TooLong /\ Came(BodyEnd)
    /\ pos' = BodyEnd
    /\ closing' = IF kind = "gui" /\ reusable THEN FALSE ELSE closing
    /\ Stay("dispatch")
    /\ UNCHANGED <<given, reusable>>

\* The route answers: done, refused, or 500 for a fault inside it.
Dispatch ==
    /\ pc = "dispatch"
    /\ Answer(cur, closing)
    /\ UNCHANGED <<given, pos, reusable>>

Next ==
    \/ LineEnds \/ EmptyLine \/ ReadHead
    \/ RefuseHead \/ AdmitHead \/ NoSession \/ Unrouted \/ Routed
    \/ RefuseBody \/ Reset \/ ReadBody \/ Dispatch
Spec == Init /\ [][Next]_vars

----------------------------------------------------------------------------
TypeOK ==
    /\ pc \in {"line", "head", "route", "body", "dispatch", "done"}
    /\ pos \in Place /\ (pos = <<1, 0>> \/ Came(pos))
    /\ cur \in 0..Pipeline
    /\ pc \in {"head", "route", "body", "dispatch"} => cur # 0

\* Whatever the peer states and wherever it stops, no octet of a body is framed
\* as the next request, and the answers stay in step with the requests: each gets
\* at most one; one that was answered without "Connection: close" is followed by
\* another reading of the connection; and a head that was read is not left
\* without any, unless the socket itself failed.
HeadRead(i) == i < pos[1] \/ (i = pos[1] /\ pos[2] > sent[i].empty)
InStep ==
    /\ pc = "line" => ~Finds("body")
    /\ \A i \in 1..Pipeline : answers[i] <= 1
    /\ pc = "done" /\ ~lost => \A i \in 1..Pipeline : HeadRead(i) => answers[i] = 1
=============================================================================
