-------------------------------- MODULE Rewrite --------------------------------
(***************************************************************************)
(* What one exchange does to its messages: rules (src/rules/engine.ts),    *)
(* breakpoint edits (src/web/server.ts), content encodings                 *)
(* (src/core/encoding.ts) and the writing of both messages                 *)
(* (src/core/request-handler.ts, h2-handler.ts, upstream.ts).              *)
(*                                                                         *)
(* Bytes are a text and its coding.  A content-length is the bytes it was  *)
(* computed for, so bytes that differ differ in length.  Delays, failures  *)
(* and kills are FlowPipeline's.                                           *)
(***************************************************************************)
EXTENDS Naturals, Sequences, FiniteSetsExt, Filter

CONSTANTS
    Settings,   \* values of the options: rules, and one filter for both breakpoints
    Always      \* a pattern that holds of every flow

\* An operator with a value stands for itself; "no-" for a file or directory
\* that has nothing for the request; "resDrop" for resHeaders with an empty
\* value, "resEncoding" for one that sets content-encoding; "other" for those
\* that leave bodies, status and encodings alone.
Ops == {"host", "reqReplace", "block", "redirect", "file", "noFile", "dir", "noDir", "mock",
        "status", "resHeaders", "resDrop", "resEncoding", "resType", "resReplace", "other"}
BodyOps == {"resReplace", "mock", "file", "noFile"}

Rules == [pattern : Seq(Lexemes), op : Ops]

ASSUME RewriteAssumption ==
    /\ \A o \in Settings : o.rules \in Seq(Rules) /\ o.filter \in Seq(Lexemes)
    /\ CompileFilter(Always) = Views

VARIABLES
    rules, filter,   \* the options
    phase,
    req,             \* flow.request, as it came and as it is, and where it goes
    directive,
    applied,         \* places of the rules the request phase applied
    res,             \* flow.response
    raw,             \* the response as it came
    sent,            \* the request written to the origin
    reply,           \* the response written to the client
    reworked         \* whether a rule or an edit set content-encoding

vars == <<rules, filter, phase, req, directive, applied, res, raw, sent, reply, reworked>>

Plain(text) == [text |-> text, coding |-> "-"]
Nothing == Plain("none")
Bytes == [text : {"none", "word", "swapped", "junk", "mangled", "edited"},
          coding : {"-", "gzip", "zstd"}]

\* content-encoding ("set" by a rule or an edit), content-length (no more than
\* one) and the body.
Message(enc, len, body) == [enc |-> enc, len |-> len, body |-> body]
Messages == [enc : {"-", "gzip", "zstd", "set"}, len : {{}} \cup {{b} : b \in Bytes}, body : Bytes]
Empty == Message("-", {}, Nothing)

Requests == [came : Messages, msg : Messages, to : {"asked", "other"}]
Responses == [status : {0, 200, 302, 404, 418}, msg : Messages]
Fields == {"content-encoding", "content-type", "location", "note"}
Directives == [does : SUBSET {"block", "mock"}, status : {0, 200, 302, 404, 418},
               fields : SUBSET Fields, body : Bytes]
NoDirective == [does |-> {}, status |-> 0, fields |-> {}, body |-> Nothing]

TypeOK ==
    /\ rules \in Seq(Rules) /\ filter \in Seq(Lexemes)
    /\ phase \in {"asked", "pausedRequest", "ready", "waiting", "pausedResponse",
                  "complete", "done", "destroyed"}
    /\ req \in Requests
    /\ directive \in Directives
    /\ applied \in Seq(1 .. Len(rules))
    /\ res \in Responses
    /\ raw \in Messages /\ sent \in Messages /\ reply \in Messages
    /\ reworked \in BOOLEAN

Init ==
    /\ \E o \in Settings : rules = o.rules /\ filter = o.filter
    /\ phase = "asked"
    /\ req = [came |-> Empty, msg |-> Empty, to |-> "asked"]
    /\ directive = NoDirective /\ applied = <<>>
    /\ res = [status |-> 0, msg |-> Empty]
    /\ raw = Empty /\ sent = Empty /\ reply = Empty
    /\ reworked = FALSE

-----------------------------------------------------------------------------
(* Bodies and predicates.                                                  *)

IsDecodable(enc) == enc = "gzip"     \* gzip, x-gzip, deflate, br

\* What is not encoded as its header says is kept.
DecodeBody(body, enc) ==
    IF IsDecodable(enc) /\ body.coding = enc THEN Plain(body.text) ELSE body

\* The bytes pass through a UTF-8 string, which a coded body does not survive.
ReplaceBody(body) ==
    CASE body = Nothing -> body
      [] body.coding # "-" -> Plain("mangled")
      [] body.text = "word" -> Plain("swapped")
      [] OTHER -> body

\* The view a predicate has of the flow.
View(to, hasResponse, bodies) ==
    [s |-> hasResponse, u |-> to = "asked", b |-> Plain("word") \in bodies]

Matches(i, view) == view \in CompileFilter(rules[i].pattern)

\* An unset option never breaks.
Breaks(view) == filter # <<>> /\ view \in CompileFilter(filter)

-----------------------------------------------------------------------------
(* The rule engine.                                                        *)

GiveStatus(d, status) == [d EXCEPT !.status = status]
StatusOr200(d) == IF d.status = 0 THEN GiveStatus(d, 200) ELSE d
Mocking(d) == [d EXCEPT !.does = @ \cup {"mock"}]
SetField(d, name) == [d EXCEPT !.fields = @ \cup {name}]
SetBody(d, body) == [d EXCEPT !.body = body]

\* Broken: a body rule resets the status of a rule before it.
GiveBodyResets(d, body) == SetField(SetBody(GiveStatus(Mocking(d), 200), body), "content-type")

GiveBody(d, body) == SetField(SetBody(StatusOr200(Mocking(d)), body), "content-type")

\* resHeaders with an empty value deletes the field.
DropField(d, name) ==
    LET dropped == [d EXCEPT !.fields = @ \ {name}]
    IN  IF dropped.fields = {} THEN dropped ELSE Mocking(dropped)

\* What the operator of a rule does to the directive.
Direct(op, d) ==
    CASE op = "block" -> [d EXCEPT !.does = @ \cup {"block"}]
      [] op = "redirect" -> SetField(SetBody(GiveStatus(Mocking(d), 302), Nothing), "location")
      [] op \in {"mock", "file", "dir"} -> GiveBody(d, Plain("word"))
      [] op = "noDir" -> SetBody(GiveStatus(Mocking(d), 404), Plain("junk"))
      [] op = "status" -> GiveStatus(Mocking(d), 418)
      [] op = "resHeaders" -> SetField(Mocking(d), "note")
      [] op = "resEncoding" -> SetField(Mocking(d), "content-encoding")
      [] op = "resDrop" -> DropField(d, "note")
      [] op = "resType" -> SetField(d, "content-type")
      [] OTHER -> d

\* What it does to the request.
Redo(op, r) ==
    CASE op = "host" -> [r EXCEPT !.to = "other"]
      [] op = "reqReplace" -> [r EXCEPT !.msg.body = ReplaceBody(@)]
      [] OTHER -> r

\* applyRequest: each rule sees what the rules before it have made.
Request(got, i) ==
    IF Matches(i, View(got.req.to, FALSE, {got.req.msg.body}))
    THEN [req |-> Redo(rules[i].op, got.req),
          directive |-> Direct(rules[i].op, got.directive),
          applied |-> Append(got.applied, i)]
    ELSE got

ApplyRequest(r) ==
    LET got[n \in 0 .. Len(rules)] ==
            IF n = 0 THEN [req |-> r, directive |-> NoDirective, applied |-> <<>>]
            ELSE Request(got[n - 1], n)
    IN  got[Len(rules)]

\* Broken: replacements are not among the rules that need the whole body.
HasMockRule(view) ==
    \E i \in 1 .. Len(rules) : rules[i].op \in BodyOps \ {"resReplace"} /\ Matches(i, view)

HasResponseBodyRule(view) ==
    \E i \in 1 .. Len(rules) : rules[i].op \in BodyOps /\ Matches(i, view)

\* applyResponse.
Response(got, i) ==
    IF ~Matches(i, View(req.to, TRUE, {req.msg.body, got.msg.body})) THEN got
    ELSE CASE rules[i].op = "resEncoding" -> [got EXCEPT !.msg.enc = "set"]
           [] rules[i].op = "status" -> [got EXCEPT !.status = 418]
           [] rules[i].op = "resReplace" -> [got EXCEPT !.msg.body = ReplaceBody(@)]
           [] OTHER -> got

ApplyResponse(r) ==
    LET got[n \in 0 .. Len(rules)] == IF n = 0 THEN r ELSE Response(got[n - 1], n)
    IN  got[Len(rules)]

-----------------------------------------------------------------------------
(* The request.                                                            *)

\* What client and origin may send: bodies with a truthful content-encoding,
\* and some with a false one.
Traffic ==
    {[enc |-> c, body |-> [text |-> "word", coding |-> c]] : c \in {"-", "gzip", "zstd"}}
        \cup [enc : {"-", "gzip"}, body : {Nothing, Plain("junk")}]

\* Its body has come: decode it, which drops content-encoding, apply the rules,
\* and break.  Clients may be wrong about their encoding.
RequestArrives ==
    /\ phase = "asked"
    /\ \E m \in Traffic :
        LET came == Message(m.enc, {m.body}, m.body)
            msg == IF IsDecodable(m.enc)
                   THEN [came EXCEPT !.enc = "-", !.body = DecodeBody(@, m.enc)]
                   ELSE came
            got == ApplyRequest([came |-> came, msg |-> msg, to |-> "asked"])
        IN  /\ req' = got.req
            /\ directive' = IF "mock" \in got.directive.does THEN StatusOr200(got.directive)
                            ELSE got.directive
            /\ applied' = got.applied
            /\ phase' = IF Breaks(View(got.req.to, FALSE, {got.req.msg.body}))
                        THEN "pausedRequest" ELSE "ready"
    /\ UNCHANGED <<rules, filter, res, raw, sent, reply, reworked>>

\* applyFlowEdit at the breakpoint: the body, or the headers.
EditRequest ==
    /\ phase = "pausedRequest"
    /\ \/ req' = [req EXCEPT !.msg.body = Plain("edited")] /\ UNCHANGED reworked
       \/ req' = [req EXCEPT !.msg.enc = "set"] /\ reworked' = TRUE
    /\ UNCHANGED <<rules, filter, phase, directive, applied, res, raw, sent, reply>>

EditResponse ==
    /\ phase = "pausedResponse"
    /\ \/ res' = [res EXCEPT !.msg.body = Plain("edited")] /\ UNCHANGED reworked
       \/ res' = [res EXCEPT !.msg.enc = "set"] /\ reworked' = TRUE
    /\ UNCHANGED <<rules, filter, phase, req, directive, applied, raw, sent, reply>>

Resume ==
    /\ phase \in {"pausedRequest", "pausedResponse"}
    /\ phase' = IF phase = "pausedRequest" THEN "ready" ELSE "complete"
    /\ UNCHANGED <<rules, filter, req, directive, applied, res, raw, sent, reply, reworked>>

Block ==
    /\ phase = "ready" /\ "block" \in directive.does
    /\ phase' = "destroyed"
    /\ UNCHANGED <<rules, filter, req, directive, applied, res, raw, sent, reply, reworked>>

\* writeResponse, and respond of the HTTP/2 handler: content-length is counted
\* anew; the latter strips content-encoding from what is not relayed.
Mock ==
    /\ phase = "ready" /\ "block" \notin directive.does /\ "mock" \in directive.does
    /\ LET enc == IF "content-encoding" \in directive.fields THEN "set" ELSE "-"
           made == ApplyResponse([status |-> directive.status,
                                  msg |-> Message(enc, {}, directive.body)])
       IN  /\ res' = made
           /\ \E written \in {made.msg.enc, "-"} :
                 reply' = Message(written, {made.msg.body}, made.msg.body)
           /\ reworked' = (reworked \/ made.msg.enc = "set")
    /\ phase' = "done"
    /\ UNCHANGED <<rules, filter, req, directive, applied, raw, sent>>

\* buildHeaders hands the client's content-length on.
Send ==
    /\ phase = "ready" /\ "block" \notin directive.does /\ "mock" \notin directive.does
    /\ sent' = req.msg
    /\ phase' = "waiting"
    /\ UNCHANGED <<rules, filter, req, directive, applied, res, raw, reply, reworked>>

-----------------------------------------------------------------------------
(* The response.                                                           *)

CanStream(came, large, view) ==
    large /\ ~HasResponseBodyRule(view) /\ ~IsDecodable(came.enc) /\ ~Breaks(view)

\* The origin answers, and its response is streamed, or buffered and decoded.
\* A large one is an event stream or one of unknown or great length.
OriginAnswers ==
    /\ phase = "waiting"
    /\ \E m \in Traffic, large \in BOOLEAN :
        LET came == Message(m.enc, IF large THEN {} ELSE {m.body}, m.body)
            streams == CanStream(came, large, View(req.to, TRUE, {req.msg.body}))
            kept == IF streams THEN Nothing ELSE DecodeBody(m.body, m.enc)
            made == ApplyResponse([status |-> 200, msg |-> [came EXCEPT !.body = kept]])
        IN  /\ raw' = came
            /\ res' = made
            /\ reworked' = (reworked \/ made.msg.enc = "set")
            /\ reply' = IF streams THEN [made.msg EXCEPT !.body = m.body] ELSE reply
            /\ phase' = CASE streams -> "done"
                          [] ~streams /\ Breaks(View(req.to, TRUE, {req.msg.body, made.msg.body}))
                                 -> "pausedResponse"
                          [] OTHER -> "complete"
    /\ UNCHANGED <<rules, filter, req, directive, applied, sent>>

\* Broken: a modified body goes out under the encoding it came with.
WriteUnderOldHead ==
    /\ phase = "complete"
    /\ LET modified == res.msg.body # DecodeBody(raw.body, raw.enc)
           body == IF modified THEN res.msg.body ELSE raw.body
       IN  reply' = Message(res.msg.enc, {body}, body)
    /\ phase' = "done"
    /\ UNCHANGED <<rules, filter, req, directive, applied, res, raw, sent, reworked>>

\* What nobody modified is relayed as it came, else the decoded body is sent
\* without content-encoding.
Write ==
    /\ phase = "complete"
    /\ LET modified == res.msg.body # DecodeBody(raw.body, raw.enc)
           body == IF modified THEN res.msg.body ELSE raw.body
       IN  reply' = Message(IF modified THEN "-" ELSE res.msg.enc, {body}, body)
    /\ phase' = "done"
    /\ UNCHANGED <<rules, filter, req, directive, applied, res, raw, sent, reworked>>

Next ==
    \/ RequestArrives \/ EditRequest \/ Resume \/ Block \/ Mock \/ Send
    \/ OriginAnswers \/ EditResponse \/ Write

Spec == Init /\ [][Next]_vars

-----------------------------------------------------------------------------

\* An expression with a meaning is compiled to it: "!" binds tighter than
\* conjunction, written or implied, and that tighter than "|", whatever the
\* groups (filter.ts:160-232).
FilterReadsAsWritten ==
    phase = "asked" /\ Meanings(filter) # {} => Meanings(filter) = {CompileFilter(filter)}

Describes(msg) == msg.body = Nothing \/ msg.enc = msg.body.coding

\* "never a corrupt half-encoded buffer" (encoding.ts:8): unless someone set
\* content-encoding by hand, the client gets bytes that are encoded and framed
\* as their head says, if the origin's were; and so does the origin, if the
\* client's encoding could be decoded.  A replacement over an encoding that
\* cannot be decoded is out of this: it makes the text illegible.
NeverHalfEncoded ==
    /\ phase = "done" /\ ~reworked /\ Describes(raw) =>
          /\ Describes(reply) /\ reply.len \subseteq {reply.body}
          /\ reply.body.text = "mangled" => raw.body.coding = "zstd"
    /\ sent # Empty /\ ~reworked /\ req.came.enc # "zstd" => Describes(sent)

\* No text escapes a replacement for every flow: not by streaming, not under
\* an encoding, not by a mock or an edit (engine.ts:284-315).
ReplaceAlwaysApplies ==
    phase = "done" /\ (\E i \in 1 .. Len(rules) : rules[i] = [pattern |-> Always, op |-> "resReplace"])
        => reply.body.text # "word"

\* The last operator applied that is one of these.
Latest(ops) ==
    LET places == {applied[k] : k \in {k \in 1 .. Len(applied) : rules[applied[k]].op \in ops}}
    IN  IF places = {} THEN "none" ELSE rules[Max(places)].op

\* How the response phase sees a mock with this body, what the rules before the
\* i-th have left of the body there, and whether one of the first n sets a status.
Seen(body) == View(req.to, TRUE, {req.msg.body, body})
Left(i, body) ==
    IF \E j \in 1 .. i - 1 : rules[j].op = "resReplace" /\ Matches(j, Seen(body))
    THEN ReplaceBody(body) ELSE body
StatusSet(n, body) == \E i \in 1 .. n : rules[i].op = "status" /\ Matches(i, Seen(Left(i, body)))

\* A mocked reply is layered from the rules (engine.ts:163-264): the last rule
\* applied to the request that names a status and the last one that has a body
\* make the mock, neither undoing the other.  Then the mock is a response like
\* any (request-handler.ts:137): a status rule that matches it has the last word
\* on the status, even over a redirect that follows it, and replacements are
\* made in the body.
MockIsLayered ==
    LET status == Latest({"status", "redirect", "noDir"})
        answer == Latest({"redirect", "mock", "file", "dir", "noDir"})
        body == CASE answer \in {"none", "redirect"} -> Nothing
                  [] answer = "noDir" -> Plain("junk")
                  [] OTHER -> Plain("word")
    IN  phase = "done" /\ "mock" \in directive.does =>
            /\ reply.body = Left(Len(rules) + 1, body)
            /\ res.status = CASE StatusSet(Len(rules), body) \/ status = "status" -> 418
                              [] ~StatusSet(Len(rules), body) /\ status = "redirect" -> 302
                              [] ~StatusSet(Len(rules), body) /\ status = "noDir" -> 404
                              [] ~StatusSet(Len(rules), body) /\ status = "none" -> 200
=============================================================================
