------------------------------- MODULE Upstream -------------------------------
(***************************************************************************)
(* The upstream client (src/core/upstream.ts): how a request reaches one   *)
(* origin.  The protocol the origin negotiated is cached, HTTP/2 sessions  *)
(* are pooled, HTTP/1 connections are kept alive by an agent, and a        *)
(* request that fails over any of these is sent once more over a freshly   *)
(* negotiated connection.                                                  *)
(*                                                                         *)
(* `leg` says where the promise of sendUpstream is in that code.  The      *)
(* origin restarts, changes its protocol, closes connections and answers   *)
(* or does not answer as it pleases; the client learns of a closed         *)
(* connection later, only by its timeout, or never.                        *)
(***************************************************************************)
EXTENDS Naturals

CONSTANTS
    Reqs,         \* requests that may be under way at once
    Sessions,     \* identities of HTTP/2 sessions
    None,
    MaxRestarts   \* bound on restarts of the origin

ASSUME UpstreamAssumption ==
    None \notin Sessions /\ MaxRestarts \in Nat

Agents == {"http", "https"}

\* plain: on httpAgent.  agent: on httpsAgent.  opening, session: getH2Session
\* and a stream on its session.  tls, own1, own2: negotiateAndSend's handshake
\* and the request on its own socket or session.  connect, inside, through: a
\* CONNECT to the upstream proxy, TLS inside it, and the request inside that.
\* lost: on a session that went without an error, of which the promise never
\* hears: dispatchH2 listens for "response" and "error", not for "close".
Legs == {"idle", "plain", "agent", "opening", "session", "tls", "own1", "own2",
         "connect", "inside", "through", "lost", "answered", "failed"}
Settled == {"answered", "failed"}
Waiting == {"plain", "agent", "session", "own1", "own2", "through"}
OnSession == {"opening", "session", "own2"}
Over == Settled \cup {"idle", "lost"}

\* An agent arms the timer of its socket.  negotiateAndSend passes a socket of
\* its own, which nobody arms: its "timeout" handler is never called.
Timed == {"plain", "agent"}

VARIABLES
    origin,    \* the protocol the origin negotiates
    restarts,
    alpn,      \* originAlpnCache
    pool,      \* h2SessionPool
    sess,      \* HTTP/2 sessions; "gone": dead, and not noticed yet
    idle,      \* the kept-alive connection each agent would use next
    route,     \* how a request was to be sent
    leg,
    via,       \* the HTTP/2 session a request is on
    broken,    \* whether its connection can never bring an answer
    sent,      \* how often it has been written to a connection
    harmed     \* over TLS: whether the origin restarted or was late meanwhile

vars == <<origin, restarts, alpn, pool, sess, idle, route, leg, via, broken, sent, harmed>>

TypeOK ==
    /\ origin \in {"h1", "h2"}
    /\ restarts \in 0 .. MaxRestarts
    /\ alpn \in {"none", "h1", "h2"}
    /\ pool \in Sessions \cup {None}
    /\ sess \in [Sessions -> {"unused", "opening", "open", "gone"}]
    /\ idle \in [Agents -> {"none", "fresh", "stale"}]
    /\ route \in [Reqs -> {"none", "http", "https", "proxied"}]
    /\ leg \in [Reqs -> Legs]
    /\ via \in [Reqs -> Sessions \cup {None}]
    /\ broken \in [Reqs -> BOOLEAN]
    /\ sent \in [Reqs -> 0 .. 2]
    /\ harmed \in [Reqs -> BOOLEAN]

Init ==
    /\ origin \in {"h1", "h2"}
    /\ restarts = 0
    /\ alpn = "none"
    /\ pool = None
    /\ sess = [s \in Sessions |-> "unused"]
    /\ idle = [a \in Agents |-> "none"]
    /\ route = [e \in Reqs |-> "none"]
    /\ leg = [e \in Reqs |-> "idle"]
    /\ via = [e \in Reqs |-> None]
    /\ broken = [e \in Reqs |-> FALSE]
    /\ sent = [e \in Reqs |-> 0]
    /\ harmed = [e \in Reqs |-> FALSE]

-----------------------------------------------------------------------------
(* Steps of a promise.                                                     *)

Go(e, l) == leg' = [leg EXCEPT ![e] = l]
Write(e) == sent' = [sent EXCEPT ![e] = @ + 1]
Break(e, b) == broken' = [broken EXCEPT ![e] = b]

Riders(s) == {e \in Reqs : leg[e] \in OnSession /\ via[e] = s}
Free(s) == sess[s] = "unused" /\ Riders(s) = {}

\* A request goes out over a new or an idle connection of an agent.  Without
\* ALPN an origin that prefers h2 may or may not answer it.
OverAgent(e, a, l) ==
    /\ \/ /\ Break(e, idle[a] = "stale")
          /\ idle[a] # "none"
          /\ idle' = [idle EXCEPT ![a] = "none"]
       \/ /\ \E b \in BOOLEAN : (b => a = "https" /\ origin = "h2") /\ Break(e, b)
          /\ UNCHANGED idle
    /\ Go(e, l)
    /\ Write(e)

\* getH2Session: the pooled session, or a TLS connection for a new one.
OverSession(e) ==
    \/ /\ pool # None
       /\ Go(e, "session")
       /\ Write(e)
       /\ via' = [via EXCEPT ![e] = pool]
       /\ Break(e, sess[pool] = "gone")
       /\ UNCHANGED sess
    \/ /\ pool = None
       /\ \E s \in Sessions :
            /\ Free(s)
            /\ sess' = [sess EXCEPT ![s] = "opening"]
            /\ via' = [via EXCEPT ![e] = s]
       /\ Go(e, "opening")
       /\ UNCHANGED <<sent, broken>>

Leave(e) == Break(e, FALSE) /\ via' = [via EXCEPT ![e] = None]

\* Broken: any failure is retried, and a retry that fails is one more.
FailAlwaysRetries(e) ==
    /\ Go(e, IF leg[e] \in {"plain", "through"} THEN "failed" ELSE "tls")
    /\ alpn' = IF leg[e] \in {"plain", "through"} THEN alpn ELSE "none"
    /\ Leave(e)

\* Broken: a failure over a kept-alive connection is final.
FailWithoutRetry(e) ==
    /\ Go(e, IF leg[e] \in {"session", "opening"} THEN "tls" ELSE "failed")
    /\ alpn' = IF leg[e] \in {"session", "opening"} THEN "none" ELSE alpn
    /\ Leave(e)

\* The attempt of a request rejects.  A reused protocol, session or connection
\* is forgiven once: the cache entry goes and the request is negotiated anew.
Fail(e) ==
    LET retried == leg[e] \in {"agent", "session", "opening"} IN
    /\ Go(e, IF retried THEN "tls" ELSE "failed")
    /\ alpn' = IF retried THEN "none" ELSE alpn
    /\ Leave(e)

-----------------------------------------------------------------------------
(* The client.                                                             *)

\* sendUpstream.
Send(e) ==
    /\ leg[e] = "idle"
    /\ \/ /\ route' = [route EXCEPT ![e] = "http"]
          /\ OverAgent(e, "http", "plain")
          /\ UNCHANGED <<sess, via>>
       \/ /\ route' = [route EXCEPT ![e] = "proxied"]
          /\ Go(e, "connect")
          /\ UNCHANGED <<sess, idle, via, broken, sent>>
       \/ /\ route' = [route EXCEPT ![e] = "https"]
          /\ \/ /\ alpn = "none"
                /\ Go(e, "tls")
                /\ UNCHANGED <<sess, idle, via, broken, sent>>
             \/ alpn = "h1" /\ OverAgent(e, "https", "agent") /\ UNCHANGED <<sess, via>>
             \/ alpn = "h2" /\ OverSession(e) /\ UNCHANGED idle
    /\ UNCHANGED <<origin, restarts, alpn, pool, harmed>>

\* getH2Session's session is connected, pooled and used.
SessionOpens(e) ==
    LET dead == broken[e] \/ origin = "h1" IN
    /\ leg[e] = "opening"
    /\ sess' = [sess EXCEPT ![via[e]] = IF dead THEN "gone" ELSE "open"]
    /\ pool' = via[e]
    /\ Go(e, "session")
    /\ Write(e)
    /\ Break(e, dead)
    /\ UNCHANGED <<origin, restarts, alpn, idle, route, via, harmed>>

\* Its connection fails, or the origin does not speak h2.
SessionFails(e) ==
    /\ leg[e] = "opening"
    /\ broken[e] \/ origin = "h1"
    /\ sess' = [sess EXCEPT ![via[e]] = "unused"]
    /\ Fail(e)
    /\ UNCHANGED <<origin, restarts, pool, idle, route, sent, harmed>>

\* negotiateAndSend's handshake is over: cache the protocol and send.  A
\* session it makes is not put into the pool.
Negotiated(e) ==
    /\ leg[e] = "tls"
    /\ ~broken[e]
    /\ alpn' = origin
    /\ Write(e)
    /\ \/ /\ origin = "h1"
          /\ Go(e, "own1")
          /\ UNCHANGED <<sess, via>>
       \/ /\ origin = "h2"
          /\ Go(e, "own2")
          /\ \E s \in Sessions :
                /\ Free(s)
                /\ sess' = [sess EXCEPT ![s] = "open"]
                /\ via' = [via EXCEPT ![e] = s]
    /\ UNCHANGED <<origin, restarts, pool, idle, route, broken, harmed>>

\* The upstream proxy answers the CONNECT, whatever its status.
TunnelOpens(e) ==
    /\ leg[e] = "connect"
    /\ Go(e, "inside")
    /\ \E refused \in BOOLEAN : Break(e, refused)
    /\ UNCHANGED <<origin, restarts, alpn, pool, sess, idle, route, via, sent, harmed>>

\* The handshake inside the tunnel is over.
TunnelSecure(e) ==
    /\ leg[e] = "inside"
    /\ ~broken[e]
    /\ Go(e, "through")
    /\ Write(e)
    /\ UNCHANGED <<origin, restarts, alpn, pool, sess, idle, route, via, broken, harmed>>

\* The response's head arrives.  An agent keeps the connection.
Head(e) ==
    /\ leg[e] \in Waiting
    /\ ~broken[e]
    /\ idle' = CASE leg[e] = "plain" -> [idle EXCEPT !["http"] = "fresh"]
                 [] leg[e] = "agent" -> [idle EXCEPT !["https"] = "fresh"]
                 [] OTHER -> idle
    /\ Go(e, "answered")
    /\ Leave(e)
    /\ UNCHANGED <<origin, restarts, alpn, pool, sess, route, sent, harmed>>

\* Broken: an agent's connection fails and nobody is told.
ConnectionFailsUnheard(e) ==
    /\ \/ leg[e] = "connect"
       \/ leg[e] \in (Waiting \ {"agent"}) \cup {"tls", "inside"} /\ broken[e]
    /\ Fail(e)
    /\ UNCHANGED <<origin, restarts, pool, sess, idle, route, sent, harmed>>

\* The client learns that a connection is broken, or cannot reach the proxy.
ConnectionFails(e) ==
    /\ \/ leg[e] = "connect"
       \/ leg[e] \in Waiting \cup {"tls", "inside"} /\ broken[e]
    /\ Fail(e)
    /\ UNCHANGED <<origin, restarts, pool, sess, idle, route, sent, harmed>>

\* Its session is over without an error: the stream closes, and that is all.
StreamCloses(e) ==
    /\ leg[e] \in {"session", "own2"}
    /\ broken[e]
    /\ Go(e, "lost")
    /\ Leave(e)
    /\ UNCHANGED <<origin, restarts, alpn, pool, sess, idle, route, sent, harmed>>

\* "upstream timeout" destroys the request and its connection.
Timeout(e) ==
    /\ leg[e] \in Timed
    /\ Fail(e)
    /\ harmed' = [harmed EXCEPT ![e] = (route[e] = "https")]
    /\ UNCHANGED <<origin, restarts, pool, sess, idle, route, sent>>

\* Broken: the pool is not told.
SessionClosesUnheard(s) ==
    /\ sess[s] = "gone"
    /\ sess' = [sess EXCEPT ![s] = "unused"]
    /\ UNCHANGED <<origin, restarts, alpn, pool, idle, route, leg, via, broken, sent, harmed>>

\* The "close", "error" or "goaway" of a session: the pool's entry for the
\* origin goes, whichever session it is.
SessionCloses(s) ==
    /\ sess[s] = "gone"
    /\ sess' = [sess EXCEPT ![s] = "unused"]
    /\ pool' = None
    /\ UNCHANGED <<origin, restarts, alpn, idle, route, leg, via, broken, sent, harmed>>

\* An agent drops an idle connection that was closed.
IdleCloses(a) ==
    /\ idle[a] = "stale"
    /\ idle' = [idle EXCEPT ![a] = "none"]
    /\ UNCHANGED <<origin, restarts, alpn, pool, sess, route, leg, via, broken, sent, harmed>>

\* resetUpstreamPool, at any time: pooled sessions are destroyed, without an
\* error, and what was under way on them is lost.
Reset ==
    LET on == IF pool = None THEN {} ELSE Riders(pool) IN
    /\ alpn # "none" \/ pool # None
    /\ alpn' = "none"
    /\ pool' = None
    /\ sess' = [s \in Sessions |-> IF s = pool THEN "gone" ELSE sess[s]]
    /\ leg' = [e \in Reqs |-> IF e \in on THEN "lost" ELSE leg[e]]
    /\ via' = [e \in Reqs |-> IF e \in on THEN None ELSE via[e]]
    /\ broken' = [e \in Reqs |-> e \notin on /\ broken[e]]
    /\ UNCHANGED <<origin, restarts, idle, route, sent, harmed>>

\* The exchange is over; a further request takes its place.
Forget(e) ==
    /\ leg[e] \in Settled
    /\ Go(e, "idle")
    /\ route' = [route EXCEPT ![e] = "none"]
    /\ sent' = [sent EXCEPT ![e] = 0]
    /\ harmed' = [harmed EXCEPT ![e] = FALSE]
    /\ UNCHANGED <<origin, restarts, alpn, pool, sess, idle, via, broken>>

-----------------------------------------------------------------------------
(* The origin.                                                             *)

\* Connections are lost; the protocol may change.
Restart ==
    /\ restarts < MaxRestarts
    /\ restarts' = restarts + 1
    /\ origin' \in {"h1", "h2"}
    /\ sess' = [s \in Sessions |-> IF sess[s] = "open" THEN "gone" ELSE sess[s]]
    /\ idle' = [a \in Agents |-> IF idle[a] = "none" THEN "none" ELSE "stale"]
    /\ broken' = [e \in Reqs |-> broken[e] \/ leg[e] \notin Over \cup {"connect"}]
    /\ harmed' = [e \in Reqs |-> harmed[e] \/ (route[e] = "https" /\ leg[e] \notin Over)]
    /\ UNCHANGED <<alpn, pool, route, leg, via, sent>>

\* A healthy origin closes what has been idle, as a request may be arriving:
\* a keep-alive connection, a pooled session, a session nobody uses.
ClosesIdle(a) ==
    /\ idle[a] = "fresh"
    /\ idle' = [idle EXCEPT ![a] = "stale"]
    /\ UNCHANGED <<origin, restarts, alpn, pool, sess, route, leg, via, broken, sent, harmed>>

ClosesSession(s) ==
    /\ sess[s] = "open"
    /\ s = pool \/ Riders(s) = {}
    /\ sess' = [sess EXCEPT ![s] = "gone"]
    /\ broken' = [e \in Reqs |-> broken[e] \/ e \in Riders(s)]
    /\ UNCHANGED <<origin, restarts, alpn, pool, idle, route, leg, via, sent, harmed>>

-----------------------------------------------------------------------------

Next ==
    \/ \E e \in Reqs :
        \/ Send(e) \/ SessionOpens(e) \/ SessionFails(e) \/ Negotiated(e)
        \/ TunnelOpens(e) \/ TunnelSecure(e) \/ Head(e)
        \/ ConnectionFails(e) \/ StreamCloses(e) \/ Timeout(e) \/ Forget(e)
    \/ \E s \in Sessions : SessionCloses(s) \/ ClosesSession(s)
    \/ \E a \in Agents : IdleCloses(a) \/ ClosesIdle(a)
    \/ Reset
    \/ Restart

Spec == Init /\ [][Next]_vars

\* What a request waits for comes: a connection, the answer of an origin that is
\* up, or the news that the connection is broken.
Progress(e) ==
    SessionOpens(e) \/ SessionFails(e) \/ Head(e) \/ ConnectionFails(e) \/ StreamCloses(e)

\* The closes only return identities of sessions: the code has as many as it
\* asks for, and a handshake waits for none.
FairSpec ==
    /\ Spec
    /\ \A e \in Reqs : WF_vars(Progress(e)) /\ SF_vars(Negotiated(e))
    /\ \A s \in Sessions : WF_vars(SessionCloses(s) \/ ClosesSession(s))

-----------------------------------------------------------------------------

Promise == INSTANCE Delivery WITH
    tries <- sent,
    outcome <- [e \in Reqs |-> IF leg[e] \in Settled THEN leg[e] ELSE "pending"]

\* The client with its caches, pool and retry implements Delivery: a request is
\* on the wire at most twice, one attempt after the other, and its promise is
\* settled once (upstream.ts:257-306).
KeepsPromise == Promise!Spec

\* However stale the caches, the pool and the kept-alive connections are, a
\* request over TLS does not fail as long as the origin is up and in time: what
\* it meets stale costs it one retry (upstream.ts:276-303).  It may still be
\* lost with its session, which this does not speak of.
StaleCostsOneRetry ==
    \A e \in Reqs : route[e] = "https" /\ leg[e] = "failed" => harmed[e]

\* The pool never holds a session whose end has been noticed, although the end
\* of any session of the origin removes the entry of any other (85-89, 120).
PoolIsLive == pool # None => sess[pool] \in {"open", "gone"}

\* A request over TLS does not wait for ever: it is answered or fails, or it is
\* lost with its HTTP/2 session (upstream.ts:276-306).
TlsRequestEnds(e) == (route[e] = "https") ~> (leg[e] \in Over)

=============================================================================
