---------------------------- MODULE FlowPipeline ----------------------------
(***************************************************************************)
(* The life of a captured exchange: handleRequest for HTTP/1, handleH2-    *)
(* Stream for HTTP/2 and replayFlow, run side by side on one event loop,   *)
(* with the Flow object's breakpoint, the flow store and the REST calls an *)
(* operator makes while exchanges are in flight.                           *)
(*                                                                         *)
(* An action is the code between two awaits.  `pc` names the await a       *)
(* handler is suspended at.  What a flow's summary shows is abstracted to  *)
(* the stage its fields have reached and whether it is marked intercepted. *)
(***************************************************************************)
EXTENDS FlowStore

CONSTANTS
    H1, H2, Replays,  \* exchanges by the handler that runs them
    Timed,            \* those whose upstream leg carries the idle timeout
    Operations,       \* the store and option operations the operator uses
    OpBudget          \* how many of those operations a behaviour contains

Flows == Ids

ASSUME FlowsAssumption ==
    /\ Flows = H1 \cup H2 \cup Replays
    /\ H1 \cap H2 = {} /\ H1 \cap Replays = {} /\ H2 \cap Replays = {}
    /\ Timed \subseteq Flows
    /\ Operations \subseteq {"filters", "remove", "clear", "resize", "sessions"}
    /\ OpBudget \in Nat

VARIABLES
    pc,         \* where the handler of each flow is suspended
    directive,  \* what the request rules decided, kept across the breakpoint
    decision,   \* the breakpoint's promise: none, pending, or how it was settled
    stage,      \* how far the flow's own fields have got
    seen,       \* what the last event about the flow told the inspector
    contacted,  \* whether the request was sent upstream
    held,       \* whether the response was ever paused for the operator
    caught,     \* what the response filter said of the flow when last asked
    reply,      \* what the client has been sent
    client,     \* the client's side of the connection
    session,    \* the ids in the last saved session
    breakReq,   \* the intercept option: every request matches, or none
    breakRes,   \* the interceptResponse option: whether there is a filter
    ops         \* operator operations so far

flowVars == <<pc, directive, decision, stage, seen, contacted, held, caught, reply,
              client>>
optVars == <<breakReq, breakRes>>
vars == <<flows, byId, max, pc, directive, decision, stage, seen, contacted, held,
          reply, client, session, breakReq, breakRes, ops, caught>>

Suspended == {"idle", "reqBody", "reqPaused", "delayed", "upstream",
              "resBody", "resPaused", "streaming", "stalled", "done"}
Directives == [act : {"forward", "block", "mock"}, delay : BOOLEAN]
NoDirective == [act |-> "forward", delay |-> FALSE]
Stages == {"new", "ruled", "responded", "failed"}
Summaries == [stage : Stages, paused : BOOLEAN]

TypeOK ==
    /\ StoreTypeOK
    /\ pc \in [Flows -> Suspended]
    /\ directive \in [Flows -> Directives]
    /\ decision \in [Flows -> {"none", "pending", "resume", "kill"}]
    /\ stage \in [Flows -> Stages]
    /\ seen \in [Flows -> Summaries]
    /\ contacted \in [Flows -> BOOLEAN]
    /\ held \in [Flows -> BOOLEAN]
    /\ caught \in [Flows -> BOOLEAN]
    /\ reply \in [Flows -> {"none", "head", "whole", "cut", "error", "dropped"}]
    /\ client \in [Flows -> {"open", "gone"}]
    /\ session \in Seq(Flows)
    /\ breakReq \in BOOLEAN
    /\ breakRes \in BOOLEAN
    /\ ops \in 0 .. OpBudget

Init ==
    /\ StoreInit
    /\ pc = [f \in Flows |-> "idle"]
    /\ directive = [f \in Flows |-> NoDirective]
    /\ decision = [f \in Flows |-> "none"]
    /\ stage = [f \in Flows |-> "new"]
    /\ seen = [f \in Flows |-> [stage |-> "new", paused |-> FALSE]]
    /\ contacted = [f \in Flows |-> FALSE]
    /\ held = [f \in Flows |-> FALSE]
    /\ caught = [f \in Flows |-> FALSE]
    /\ reply = [f \in Flows |-> "none"]
    /\ client = [f \in Flows |-> "open"]
    /\ session = <<>>
    /\ breakReq \in BOOLEAN
    /\ breakRes \in BOOLEAN
    /\ ops = 0

-----------------------------------------------------------------------------
(* The flow object.                                                        *)

\* Flow.intercepted: set by intercept(), cleared by resume() and kill().
Intercepted(f) == decision[f] = "pending"

\* toSummary(), as far as the model tells summaries apart.
Summary(st, paused) == [stage |-> st, paused |-> paused]

\* An event carries the summary as it is when the event is emitted.
Announce(f, summary) == seen' = [seen EXCEPT ![f] = summary]

\* Bytes written for a client that has gone, or for a replay, reach nobody.
Sent(f, r) ==
    IF f \in Replays \/ client[f] = "gone" THEN reply[f] ELSE r

(* How a handler suspends, or returns.                                     *)

\* Broken: its two fields the wrong way round.
SuspendSwapped(f, at, st) ==
    /\ pc' = [pc EXCEPT ![f] = st]
    /\ stage' = [stage EXCEPT ![f] = at]

Suspend(f, at, st) ==
    /\ pc' = [pc EXCEPT ![f] = at]
    /\ stage' = [stage EXCEPT ![f] = st]

Return(f, st, r) ==
    /\ Suspend(f, "done", st)
    /\ reply' = [reply EXCEPT ![f] = r]

\* The catch block: the error on the flow, a 502 if no head went out, an event.
Fail(f) ==
    /\ Return(f, "failed", Sent(f, "error"))
    /\ Announce(f, Summary("failed", FALSE))
    /\ UNCHANGED <<contacted, held, decision>>

\* Relaying a finished response.  Rules may have left a status or a header
\* that writeHead or respond refuses, which lands in the catch block.
Relay(f) ==
    \/ /\ Return(f, "responded", Sent(f, "whole"))
       /\ Announce(f, Summary("responded", FALSE))
       /\ UNCHANGED <<contacted, held, decision>>
    \/ /\ f \notin Replays
       /\ Fail(f)

\* Broken: the response head is written before the breakpoint.
PauseHeadSent(f, at, st) ==
    /\ Suspend(f, at, st)
    /\ Announce(f, Summary(st, FALSE))
    /\ decision' = [decision EXCEPT ![f] = "pending"]
    /\ reply' = [reply EXCEPT ![f] = IF at = "resPaused" THEN Sent(f, "head") ELSE @]
    /\ UNCHANGED contacted

\* The event goes out before intercept() marks the flow and makes the promise.
Pause(f, at, st) ==
    /\ Suspend(f, at, st)
    /\ Announce(f, Summary(st, FALSE))
    /\ decision' = [decision EXCEPT ![f] = "pending"]
    /\ UNCHANGED <<reply, contacted>>

-----------------------------------------------------------------------------
(* The request half of the handlers.                                       *)

\* A client request, or a replay of some flow the store still holds.
Accept(f) ==
    /\ pc[f] = "idle"
    /\ f \in Replays => \E s \in Flows : byId[s] # "absent"
    /\ pc' = [pc EXCEPT ![f] = "reqBody"]
    /\ StoreAdd(f)
    /\ Announce(f, Summary("new", FALSE))
    /\ UNCHANGED <<directive, decision, stage, contacted, held, reply, client>>
    /\ UNCHANGED <<session, breakReq, breakRes, ops, caught>>

\* HTTP/1 only: a target that does not parse is answered 400 and not captured.
RefuseTarget(f) ==
    /\ f \in H1
    /\ pc[f] = "idle"
    /\ pc' = [pc EXCEPT ![f] = "done"]
    /\ reply' = [reply EXCEPT ![f] = "error"]
    /\ UNCHANGED <<directive, decision, stage, seen, contacted, held, client>>
    /\ UNCHANGED <<storeVars, session, breakReq, breakRes, ops, caught>>

\* Past the breakpoint and the delay: block, answer from a rule, or go
\* upstream.  `told` is what the inspector knows when this code is reached.
\* Of the three handlers only the HTTP/1 one drops a blocked exchange without
\* an event; a replay stores the mocked response and writes to no client.
Dispatch(f, d, st, told) ==
    \/ /\ d.act = "block"
       /\ Return(f, st, Sent(f, "dropped"))
       /\ Announce(f, IF f \in H1 THEN told ELSE Summary(st, FALSE))
       /\ UNCHANGED <<contacted, held, decision>>
    \/ /\ d.act = "mock"
       /\ Relay(f)
    \/ /\ d.act = "forward"
       /\ Suspend(f, "upstream", st)
       /\ contacted' = [contacted EXCEPT ![f] = TRUE]
       /\ Announce(f, told)
       /\ UNCHANGED <<reply, held, decision>>

Proceed(f, d, st, told) ==
    IF d.delay /\ f \notin Replays
    THEN /\ Suspend(f, "delayed", st)
         /\ Announce(f, told)
         /\ UNCHANGED <<reply, contacted, held, decision>>
    ELSE Dispatch(f, d, st, told)

\* The body is in: request hook, request rules, then the breakpoint filter.
\* Rules that decide something also leave their names on the flow.
RequestBody(f) ==
    /\ pc[f] = "reqBody"
    /\ \E d \in Directives :
        LET st == IF d = NoDirective THEN stage[f] ELSE "ruled" IN
        /\ directive' = [directive EXCEPT ![f] = d]
        /\ IF breakReq /\ f \notin Replays
           THEN Pause(f, "reqPaused", st) /\ UNCHANGED held
           ELSE Proceed(f, d, st, seen[f])
    /\ UNCHANGED <<storeVars, client, session, breakReq, breakRes, ops, caught>>

\* The client went away in mid-body: collectBody rejects.
RequestBodyFails(f) ==
    /\ pc[f] = "reqBody"
    /\ client[f] = "gone"
    /\ Fail(f)
    /\ UNCHANGED <<storeVars, directive, client, session, breakReq, breakRes, ops, caught>>

\* Broken: the kill decision is read as a resume.
AfterRequestPauseIgnoresKill(f) ==
    /\ pc[f] = "reqPaused"
    /\ decision[f] \in {"resume", "kill"}
    /\ Proceed(f, directive[f], stage[f], Summary(stage[f], FALSE))
    /\ UNCHANGED <<storeVars, directive, client, session, breakReq, breakRes, ops, caught>>

\* The promise of the request breakpoint is settled and its await continues.
AfterRequestPause(f) ==
    /\ pc[f] = "reqPaused"
    /\ \/ /\ decision[f] = "kill"
          /\ Return(f, stage[f], Sent(f, "dropped"))
          /\ Announce(f, Summary(stage[f], FALSE))
          /\ UNCHANGED <<contacted, held, decision>>
       \/ /\ decision[f] = "resume"
          /\ Proceed(f, directive[f], stage[f], Summary(stage[f], FALSE))
    /\ UNCHANGED <<storeVars, directive, client, session, breakReq, breakRes, ops, caught>>

DelayElapsed(f) ==
    /\ pc[f] = "delayed"
    /\ Dispatch(f, directive[f], stage[f], seen[f])
    /\ UNCHANGED <<storeVars, directive, client, session, breakReq, breakRes, ops, caught>>

-----------------------------------------------------------------------------
(* The response half.                                                      *)

\* What interceptResponseMatch can say of the flow as it now is.  It is asked
\* of the origin's head and again once rules and hook have changed the status
\* and headers and the body is there, so the second answer is its own.
Verdicts(f) == IF breakRes /\ f \notin Replays THEN BOOLEAN ELSE {FALSE}

\* Broken: the response filter is forgotten when choosing to stream.
CanStreamAlways(f, match) == f \notin Replays

\* Streaming is allowed when nothing needs the whole body, the response filter
\* included.
CanStream(f, match) == f \notin Replays /\ ~match

\* streamResponse and streamResponseH2 up to their first chunk.  The HTTP/2
\* one returns at once, without an event, if the client has closed the stream.
StartStream(f) ==
    \/ /\ f \in H2 /\ client[f] = "gone"
       /\ Return(f, "responded", reply[f])
       /\ UNCHANGED <<seen, contacted, held, decision>>
    \/ /\ ~(f \in H2 /\ client[f] = "gone")
       /\ Suspend(f, "streaming", "responded")
       /\ reply' = [reply EXCEPT ![f] = Sent(f, "head")]
       /\ UNCHANGED <<seen, contacted, held, decision>>
    \/ Fail(f)

\* The origin's response head arrives.
UpstreamHead(f) ==
    /\ pc[f] = "upstream"
    /\ \E match \in Verdicts(f) :
        /\ caught' = [caught EXCEPT ![f] = match]
        /\ \/ /\ CanStream(f, match)
              /\ StartStream(f)
           \/ /\ Suspend(f, "resBody", "responded")
              /\ UNCHANGED <<seen, contacted, held, decision, reply>>
    /\ UNCHANGED <<storeVars, directive, client, session, breakReq, breakRes, ops>>

\* No response, or a response that breaks off while it is being collected.
UpstreamFails(f) ==
    /\ pc[f] \in {"upstream", "resBody"}
    /\ Fail(f)
    /\ UNCHANGED <<storeVars, directive, client, session, breakReq, breakRes, ops, caught>>

\* The whole response is in: response rules and hook, the breakpoint, relay.
ResponseBody(f) ==
    /\ pc[f] = "resBody"
    /\ \E match \in Verdicts(f) :
        /\ caught' = [caught EXCEPT ![f] = match]
        /\ IF match
           THEN /\ Pause(f, "resPaused", "responded")
                /\ held' = [held EXCEPT ![f] = TRUE]
           ELSE Relay(f)
    /\ UNCHANGED <<storeVars, directive, client, session, breakReq, breakRes, ops>>

\* Broken: a killed response is answered with an error page.
AfterResponsePauseAnswersKill(f) ==
    /\ pc[f] = "resPaused"
    /\ \/ decision[f] = "kill" /\ Fail(f)
       \/ decision[f] = "resume" /\ Relay(f)
    /\ UNCHANGED <<storeVars, directive, client, session, breakReq, breakRes, ops, caught>>

AfterResponsePause(f) ==
    /\ pc[f] = "resPaused"
    /\ \/ /\ decision[f] = "kill"
          /\ Return(f, stage[f], Sent(f, "dropped"))
          /\ Announce(f, Summary(stage[f], FALSE))
          /\ UNCHANGED <<contacted, held, decision>>
       \/ /\ decision[f] = "resume"
          /\ Relay(f)
    /\ UNCHANGED <<storeVars, directive, client, session, breakReq, breakRes, ops, caught>>

\* write() returned false: the upstream is paused until the client drains.
\* An HTTP/2 handler drops chunks for a closed stream instead of writing.
StreamBlocks(f) ==
    /\ pc[f] = "streaming"
    /\ ~(f \in H2 /\ client[f] = "gone")
    /\ pc' = [pc EXCEPT ![f] = "stalled"]
    /\ UNCHANGED <<storeVars, directive, decision, stage, seen, contacted, held>>
    /\ UNCHANGED <<reply, client, session, breakReq, breakRes, ops, caught>>

StreamDrains(f) ==
    /\ pc[f] = "stalled"
    /\ client[f] = "open"
    /\ pc' = [pc EXCEPT ![f] = "streaming"]
    /\ UNCHANGED <<storeVars, directive, decision, stage, seen, contacted, held>>
    /\ UNCHANGED <<reply, client, session, breakReq, breakRes, ops, caught>>

\* Broken: the stream's end is not announced.
StreamEndsQuietly(f) ==
    /\ pc[f] = "streaming"
    /\ Return(f, "responded", Sent(f, "whole"))
    /\ UNCHANGED <<storeVars, directive, decision, seen, contacted, held>>
    /\ UNCHANGED <<client, session, breakReq, breakRes, ops, caught>>

\* The origin's response is over: the client's is ended and an event emitted.
StreamEnds(f) ==
    /\ pc[f] = "streaming"
    /\ Return(f, "responded", Sent(f, "whole"))
    /\ Announce(f, Summary("responded", FALSE))
    /\ UNCHANGED <<storeVars, directive, decision, contacted, held>>
    /\ UNCHANGED <<client, session, breakReq, breakRes, ops, caught>>

\* Broken: an error page after the head has gone out.
StreamFailsWithPage(f) ==
    /\ pc[f] \in {"streaming", "stalled"}
    /\ Return(f, "responded", Sent(f, "error"))
    /\ Announce(f, Summary("responded", FALSE))
    /\ UNCHANGED <<storeVars, directive, decision, contacted, held>>
    /\ UNCHANGED <<client, session, breakReq, breakRes, ops, caught>>

\* Broken: nobody listens for the error while the upstream is paused.
StreamFailsUnheard(f) ==
    /\ pc[f] = "streaming"
    /\ Return(f, "responded", Sent(f, IF f \in H2 THEN "dropped" ELSE "cut"))
    /\ Announce(f, Summary("responded", FALSE))
    /\ UNCHANGED <<storeVars, directive, decision, contacted, held>>
    /\ UNCHANGED <<client, session, breakReq, breakRes, ops, caught>>

\* The origin breaks off in mid-stream, or its idle timeout fires.  HTTP/1
\* ends the client's response; HTTP/2 cancels the stream.
StreamFails(f) ==
    /\ pc[f] \in {"streaming", "stalled"}
    /\ Return(f, "responded", Sent(f, IF f \in H2 THEN "dropped" ELSE "cut"))
    /\ Announce(f, Summary("responded", FALSE))
    /\ UNCHANGED <<storeVars, directive, decision, contacted, held>>
    /\ UNCHANGED <<client, session, breakReq, breakRes, ops, caught>>

ClientLeaves(f) ==
    /\ f \notin Replays
    /\ pc[f] \notin {"idle", "done"}
    /\ client[f] = "open"
    /\ client' = [client EXCEPT ![f] = "gone"]
    /\ UNCHANGED <<storeVars, pc, directive, decision, stage, seen, contacted, held>>
    /\ UNCHANGED <<reply, session, breakReq, breakRes, ops, caught>>

-----------------------------------------------------------------------------
(* The operator, through the REST API.  A request names a flow by id and   *)
(* gets 404 unless the map has it; on a stored copy it changes nothing     *)
(* the pipeline reads.                                                     *)

\* Broken: the resolver survives its first call.
SettleAgain(f, how) ==
    /\ byId[f] = "live"
    /\ decision' = [decision EXCEPT ![f] = IF @ # "none" THEN how ELSE @]
    /\ Announce(f, Summary(stage[f], FALSE))
    /\ UNCHANGED <<storeVars, pc, directive, stage, contacted, held, reply, client>>
    /\ UNCHANGED <<session, breakReq, breakRes, ops, caught>>

Settle(f, how) ==
    /\ byId[f] = "live"
    /\ decision' = [decision EXCEPT ![f] = IF Intercepted(f) THEN how ELSE @]
    /\ Announce(f, Summary(stage[f], FALSE))
    /\ UNCHANGED <<storeVars, pc, directive, stage, contacted, held, reply, client>>
    /\ UNCHANGED <<session, breakReq, breakRes, ops, caught>>

\* POST /api/flows/:id/resume and /kill, on a paused flow or any other.
Resume(f) == Settle(f, "resume")
Kill(f) == Settle(f, "kill")

\* edit and mark change fields the model does not tell apart, and announce.
Touch(f) ==
    /\ byId[f] = "live"
    /\ Announce(f, Summary(stage[f], Intercepted(f)))
    /\ UNCHANGED <<storeVars, pc, directive, decision, stage, contacted, held>>
    /\ UNCHANGED <<reply, client, session, breakReq, breakRes, ops, caught>>

\* The operations below are the ones a behaviour has OpBudget of.
Operate(kind) ==
    /\ kind \in Operations
    /\ ops < OpBudget
    /\ ops' = ops + 1
    /\ UNCHANGED flowVars

SetFilters ==
    /\ Operate("filters")
    /\ breakReq' \in BOOLEAN
    /\ breakRes' \in BOOLEAN
    /\ UNCHANGED <<storeVars, session>>

RemoveFlow(f) ==
    /\ Operate("remove")
    /\ StoreRemove(f)
    /\ UNCHANGED <<session, breakReq, breakRes>>

ClearFlows ==
    /\ Operate("clear")
    /\ StoreClear
    /\ UNCHANGED <<session, breakReq, breakRes>>

ResizeStore(m) ==
    /\ Operate("resize")
    /\ StoreSetMax(m)
    /\ UNCHANGED <<session, breakReq, breakRes>>

SaveSession ==
    /\ Operate("sessions")
    /\ session' = flows
    /\ UNCHANGED <<storeVars, breakReq, breakRes>>

LoadSession ==
    /\ Operate("sessions")
    /\ StoreLoad(session)
    /\ UNCHANGED <<session, breakReq, breakRes>>

-----------------------------------------------------------------------------

\* Steps a handler takes by itself, and those of an upstream leg that is
\* bound to answer, fail or time out.
Continue(f) ==
    \/ RequestBody(f) \/ RequestBodyFails(f)
    \/ AfterRequestPause(f) \/ DelayElapsed(f) \/ AfterResponsePause(f)

UpstreamSettles(f) ==
    \/ UpstreamHead(f) \/ UpstreamFails(f) \/ ResponseBody(f)
    \/ (pc[f] = "stalled" /\ StreamFails(f))

Decide(f) == Intercepted(f) /\ (Resume(f) \/ Kill(f))

Next ==
    \/ \E f \in Flows :
        \/ Accept(f) \/ RefuseTarget(f)
        \/ RequestBody(f) \/ RequestBodyFails(f)
        \/ AfterRequestPause(f) \/ DelayElapsed(f)
        \/ UpstreamHead(f) \/ UpstreamFails(f)
        \/ ResponseBody(f) \/ AfterResponsePause(f)
        \/ StreamBlocks(f) \/ StreamDrains(f)
        \/ StreamEnds(f) \/ StreamFails(f)
        \/ ClientLeaves(f)
        \/ Resume(f) \/ Kill(f) \/ Touch(f)
        \/ RemoveFlow(f)
    \/ \E m \in Limits : ResizeStore(m)
    \/ SetFilters \/ ClearFlows \/ SaveSession \/ LoadSession

Spec == Init /\ [][Next]_vars

\* The event loop runs every handler whose await has settled; a client
\* finishes its request body or goes away; an upstream leg under the idle
\* timeout answers or is destroyed; the operator decides every paused flow
\* that the API can still find.  Nothing makes a client read.
Fairness ==
    /\ \A f \in Flows : WF_vars(Continue(f)) /\ WF_vars(Decide(f))
    /\ \A f \in Timed : WF_vars(UpstreamSettles(f))

FairSpec == Spec /\ Fairness

-----------------------------------------------------------------------------
(* Safety.                                                                 *)

\* While a flow waits at the request breakpoint nothing has gone to the
\* origin, and while it waits at either breakpoint the client has had no byte
\* (request-handler.ts:108-116, 199-207, and the same lines of h2-handler.ts).
NothingLeavesWhilePaused ==
    \A f \in Flows :
        Intercepted(f) =>
            /\ pc[f] \in {"reqPaused", "resPaused"}
            /\ pc[f] = "reqPaused" => ~contacted[f]
            /\ reply[f] = "none"

\* A killed exchange is answered with no bytes at all, by either handler and
\* at either breakpoint, not even the error page (intercept.test.ts, "client
\* connection is dropped with no response").
KilledGetsNoBytes ==
    \A f \in Flows : decision[f] = "kill" => reply[f] \in {"none", "dropped"}

\* A flow killed before it was sent is never sent, and an exchange the rules
\* block or answer themselves never reaches the origin, whatever pause, delay
\* and operator calls come between the decision and the send.
OriginSparedByRules ==
    \A f \in Flows :
        contacted[f] => /\ directive[f].act = "forward"
                        /\ ~held[f] => decision[f] # "kill"

\* A response the filter last matched is never relayed without having been
\* paused, neither streamed nor buffered, whatever the operator does to the
\* options between the two times it is asked (request-handler.ts:176-187 and
\* 199, h2-handler.ts:142 and 162).  Whether the two answers agree is up to the
\* rules: a response the filter matches as the origin sent it and no longer
\* matches once a status rule has changed it goes out unpaused.
FilterVerdictHolds ==
    \A f \in H1 \cup H2 :
        (contacted[f] /\ reply[f] \in {"head", "whole", "cut"} /\ caught[f]) =>
            held[f]

\* Once a handler has returned, the inspector has been told what the flow
\* finally shows.  Excepted are the two returns that emit no event: a blocked
\* HTTP/1 exchange, and an HTTP/2 stream found closed when streaming starts.
OutcomeAnnounced ==
    \A f \in Flows :
        pc[f] = "done" /\ byId[f] = "live" =>
            \/ seen[f] = Summary(stage[f], FALSE)
            \/ f \in H1 /\ directive[f].act = "block" /\ ~contacted[f]
            \/ f \in H2 /\ client[f] = "gone" /\ contacted[f]

-----------------------------------------------------------------------------
(* What a step may never do.                                               *)

\* Bytes already sent are never taken back, and after a response is complete,
\* refused or dropped nothing more is written to that exchange.
ReplyOnlyAdvances ==
    [][\A f \in Flows :
        reply'[f] # reply[f] =>
            \/ reply[f] = "none"
            \/ reply[f] = "head" /\ reply'[f] \in {"whole", "cut", "dropped"}]_vars

\* The breakpoint promise settles once: a later resume or kill, a second
\* operator's say, does not overturn the decision until a new pause begins.
DecisionStands ==
    [][\A f \in Flows :
        decision[f] \in {"resume", "kill"} /\ decision'[f] # decision[f] =>
            decision'[f] = "pending" /\ pc'[f] = "resPaused"]_vars

-----------------------------------------------------------------------------
(* Liveness.                                                               *)

\* A paused flow the store no longer has: no API call can settle it.
Stranded(f) == Intercepted(f) /\ byId[f] # "live"

\* An exchange whose upstream leg is timed waits for nothing for ever: from every
\* suspension it goes on to return, to be streamed, or to be stranded at a
\* breakpoint, even if its client goes away or stops reading.
EveryExchangeSettles ==
    \A f \in Timed :
        (pc[f] \notin {"idle", "streaming", "done"}) ~>
            (pc[f] \in {"done", "streaming"} \/ Stranded(f))

-----------------------------------------------------------------------------
(* What the code does not keep.                                            *)

\* A flow waiting at a breakpoint can be resumed through the API (README:
\* "POST /api/flows/:id/resume   resume a paused (intercepted) flow").
PausedCanBeResumed == \A f \in Flows : Intercepted(f) => byId[f] = "live"

=============================================================================
