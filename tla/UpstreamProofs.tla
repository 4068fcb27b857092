---------------------------- MODULE UpstreamProofs ----------------------------
(***************************************************************************)
(* The upstream client keeps the promise of Delivery and fails no request  *)
(* of a healthy origin over what is stale, for any number of requests,     *)
(* sessions and restarts.  Two things are needed that no property states:  *)
(* how often a request has been sent at each leg of its way, and that a    *)
(* session somebody opens or uses alone is nobody else's and not the       *)
(* pool's, so that a connection closed as idle is never the one a retry    *)
(* depends on.                                                             *)
(***************************************************************************)
EXTENDS Upstream, TLAPS

Counted(l, n) ==
    /\ l \in {"idle", "opening", "connect", "inside"} => n = 0
    /\ l \in {"plain", "agent", "session", "through"} => n = 1
    /\ l = "tls" => n \in {0, 1}
    /\ l \in {"own1", "own2", "lost", "answered"} => n \in {1, 2}

\* Which legs a route leads over.
Routed(l, r) ==
    /\ l = "plain" => r = "http"
    /\ l \in {"agent", "opening", "session", "tls", "own1", "own2"} => r = "https"
    /\ l \in {"connect", "inside", "through"} => r = "proxied"

\* Nothing is broken that has no connection; past the retry it takes a restart.
Sound(l, b, h) ==
    /\ l \in Over => ~b
    /\ l \in {"tls", "own1", "own2"} /\ b => h

Riding(e) == leg[e] \in OnSession

\* The session of a request that opens or made one is its own.
OwnSession(e) ==
    /\ Riding(e) => via[e] \in Sessions
    /\ leg[e] = "opening" => sess[via[e]] = "opening"
    /\ leg[e] = "own2" => via[e] # pool
    /\ leg[e] \in {"opening", "own2"} =>
         \A o \in Reqs \ {e} : Riding(o) => via[o] # via[e]

CountInv == \A e \in Reqs : Counted(leg[e], sent[e])
RouteInv == \A e \in Reqs : Routed(leg[e], route[e])
SoundInv == \A e \in Reqs : Sound(leg[e], broken[e], harmed[e])
SessionInv == \A e \in Reqs : OwnSession(e)

UpstreamInv ==
    /\ TypeOK
    /\ CountInv /\ RouteInv /\ SoundInv /\ SessionInv
    /\ PoolIsLive /\ StaleCostsOneRetry

-----------------------------------------------------------------------------

\* A reset loses requests that wait on the pooled session and touches no other.
LEMMA ResetLoses ==
    ASSUME TypeOK, SessionInv, PoolIsLive, Reset, NEW e \in Reqs
    PROVE  /\ sent' = sent /\ route' = route /\ harmed' = harmed
           /\ \/ leg'[e] = leg[e] /\ via'[e] = via[e] /\ broken'[e] = broken[e]
              \/ leg[e] \in {"session", "own2"} /\ leg'[e] = "lost" /\ ~broken'[e]
<1> DEFINE on == IF pool = None THEN {} ELSE Riders(pool)
<1>1. /\ sent' = sent /\ route' = route /\ harmed' = harmed
      /\ leg'[e] = (IF e \in on THEN "lost" ELSE leg[e])
      /\ via'[e] = (IF e \in on THEN None ELSE via[e])
      /\ broken'[e] = (e \notin on /\ broken[e])
  BY Zenon DEF Reset
<1>2. broken[e] \in BOOLEAN
  BY DEF TypeOK
<1>3. CASE e \in on
  <2>1. pool # None /\ leg[e] \in OnSession /\ via[e] = pool
    BY <1>3 DEF Riders
  <2>2. leg[e] # "opening"
    BY <2>1 DEF PoolIsLive, SessionInv, OwnSession
  <2>. QED  BY <1>1, <1>3, <2>1, <2>2 DEF OnSession
<1>4. CASE e \notin on
  <2>1. (e \notin on /\ broken[e]) = broken[e]
    BY <1>2, <1>4
  <2>. QED  BY <1>1, <1>4, <2>1
<1>. QED  BY <1>3, <1>4

\* At each leg of its way a request has been sent as often as its past allows.
LEMMA CountStep ==
    TypeOK /\ CountInv /\ SessionInv /\ PoolIsLive /\ [Next]_vars => CountInv'
<1> SUFFICES ASSUME TypeOK, CountInv, SessionInv, PoolIsLive, [Next]_vars  PROVE CountInv'
  OBVIOUS
<1> USE DEF TypeOK, Legs, Settled, Over, Waiting, Timed, CountInv, Counted
<1>1. ASSUME NEW e \in Reqs, Send(e)  PROVE CountInv'
  BY <1>1 DEF Send, OverAgent, OverSession, Go, Write, Break
<1>2. ASSUME NEW e \in Reqs, SessionOpens(e)  PROVE CountInv'
  BY <1>2 DEF SessionOpens, Go, Write, Break
<1>3. ASSUME NEW e \in Reqs, SessionFails(e)  PROVE CountInv'
  BY <1>3 DEF SessionFails, Fail, Go, Leave, Break
<1>4. ASSUME NEW e \in Reqs, Negotiated(e)  PROVE CountInv'
  BY <1>4 DEF Negotiated, Go, Write
<1>5. ASSUME NEW e \in Reqs, TunnelOpens(e)  PROVE CountInv'
  BY <1>5 DEF TunnelOpens, Go, Break
<1>6. ASSUME NEW e \in Reqs, TunnelSecure(e)  PROVE CountInv'
  BY <1>6 DEF TunnelSecure, Go, Write
<1>7. ASSUME NEW e \in Reqs, Head(e)  PROVE CountInv'
  BY <1>7 DEF Head, Go, Leave, Break
<1>8. ASSUME NEW e \in Reqs, ConnectionFails(e)  PROVE CountInv'
  BY <1>8 DEF ConnectionFails, Fail, Go, Leave, Break
<1>9. ASSUME NEW e \in Reqs, Timeout(e)  PROVE CountInv'
  BY <1>9 DEF Timeout, Fail, Go, Leave, Break
<1>10. ASSUME NEW e \in Reqs, Forget(e)  PROVE CountInv'
  BY <1>10 DEF Forget, Go
<1>11. ASSUME NEW s \in Sessions, SessionCloses(s)  PROVE CountInv'
  BY <1>11 DEF SessionCloses
<1>12. ASSUME NEW s \in Sessions, ClosesSession(s)  PROVE CountInv'
  BY <1>12 DEF ClosesSession
<1>13. ASSUME NEW a \in Agents, IdleCloses(a)  PROVE CountInv'
  BY <1>13 DEF IdleCloses
<1>14. ASSUME NEW a \in Agents, ClosesIdle(a)  PROVE CountInv'
  BY <1>14 DEF ClosesIdle
<1>15. CASE Reset
  BY <1>15, ResetLoses
<1>16. CASE Restart
  BY <1>16 DEF Restart
<1>17. ASSUME NEW e \in Reqs, StreamCloses(e)  PROVE CountInv'
  BY <1>17 DEF StreamCloses, Go, Leave, Break
<1>18. CASE UNCHANGED vars
  BY <1>18 DEF vars
<1>. QED
  BY <1>1, <1>2, <1>3, <1>4, <1>5, <1>6, <1>7, <1>8, <1>9, <1>10, <1>11, <1>12, <1>13,
     <1>14, <1>15, <1>16, <1>17, <1>18 DEF Next

\* No leg is reached from another route.
LEMMA RouteStep ==
    TypeOK /\ RouteInv /\ [Next]_vars => RouteInv'
<1> SUFFICES ASSUME TypeOK, RouteInv, [Next]_vars  PROVE RouteInv'
  OBVIOUS
<1> USE DEF TypeOK, Legs, Settled, Over, Waiting, Timed, RouteInv, Routed
<1>1. ASSUME NEW e \in Reqs, Send(e)  PROVE RouteInv'
  BY <1>1 DEF Send, OverAgent, OverSession, Go, Write, Break
<1>2. ASSUME NEW e \in Reqs, SessionOpens(e)  PROVE RouteInv'
  BY <1>2 DEF SessionOpens, Go, Write, Break
<1>3. ASSUME NEW e \in Reqs, SessionFails(e)  PROVE RouteInv'
  BY <1>3 DEF SessionFails, Fail, Go, Leave, Break
<1>4. ASSUME NEW e \in Reqs, Negotiated(e)  PROVE RouteInv'
  BY <1>4 DEF Negotiated, Go, Write
<1>5. ASSUME NEW e \in Reqs, TunnelOpens(e)  PROVE RouteInv'
  BY <1>5 DEF TunnelOpens, Go, Break
<1>6. ASSUME NEW e \in Reqs, TunnelSecure(e)  PROVE RouteInv'
  BY <1>6 DEF TunnelSecure, Go, Write
<1>7. ASSUME NEW e \in Reqs, Head(e)  PROVE RouteInv'
  BY <1>7 DEF Head, Go, Leave, Break
<1>8. ASSUME NEW e \in Reqs, ConnectionFails(e)  PROVE RouteInv'
  BY <1>8 DEF ConnectionFails, Fail, Go, Leave, Break
<1>9. ASSUME NEW e \in Reqs, Timeout(e)  PROVE RouteInv'
  BY <1>9 DEF Timeout, Fail, Go, Leave, Break
<1>10. ASSUME NEW e \in Reqs, Forget(e)  PROVE RouteInv'
  BY <1>10 DEF Forget, Go
<1>11. ASSUME NEW s \in Sessions, SessionCloses(s)  PROVE RouteInv'
  BY <1>11 DEF SessionCloses
<1>12. ASSUME NEW s \in Sessions, ClosesSession(s)  PROVE RouteInv'
  BY <1>12 DEF ClosesSession
<1>13. ASSUME NEW a \in Agents, IdleCloses(a)  PROVE RouteInv'
  BY <1>13 DEF IdleCloses
<1>14. ASSUME NEW a \in Agents, ClosesIdle(a)  PROVE RouteInv'
  BY <1>14 DEF ClosesIdle
<1>15. CASE Reset
  BY <1>15 DEF Reset
<1>16. CASE Restart
  BY <1>16 DEF Restart
<1>17. ASSUME NEW e \in Reqs, StreamCloses(e)  PROVE RouteInv'
  BY <1>17 DEF StreamCloses, Go, Leave, Break
<1>18. CASE UNCHANGED vars
  BY <1>18 DEF vars
<1>. QED
  BY <1>1, <1>2, <1>3, <1>4, <1>5, <1>6, <1>7, <1>8, <1>9, <1>10, <1>11, <1>12, <1>13,
     <1>14, <1>15, <1>16, <1>17, <1>18 DEF Next

\* What closes idle connections does not break the ones made for a retry.
LEMMA SoundStep ==
    TypeOK /\ RouteInv /\ SoundInv /\ SessionInv /\ PoolIsLive /\ [Next]_vars => SoundInv'
<1> SUFFICES ASSUME TypeOK, RouteInv, SoundInv, SessionInv, PoolIsLive, [Next]_vars
             PROVE  SoundInv'
  OBVIOUS
<1> USE DEF TypeOK, Legs, Settled, Over, Waiting, Timed, OnSession, Riding, Riders, PoolIsLive,
           SessionInv, OwnSession, SoundInv, Sound
<1>1. ASSUME NEW e \in Reqs, Send(e)  PROVE SoundInv'
  BY <1>1 DEF Send, OverAgent, OverSession, Go, Write, Break
<1>2. ASSUME NEW e \in Reqs, SessionOpens(e)  PROVE SoundInv'
  BY <1>2 DEF SessionOpens, Go, Write, Break
<1>3. ASSUME NEW e \in Reqs, SessionFails(e)  PROVE SoundInv'
  BY <1>3 DEF SessionFails, Fail, Go, Leave, Break
<1>4. ASSUME NEW e \in Reqs, Negotiated(e)  PROVE SoundInv'
  BY <1>4 DEF Negotiated, Go, Write
<1>5. ASSUME NEW e \in Reqs, TunnelOpens(e)  PROVE SoundInv'
  BY <1>5 DEF TunnelOpens, Go, Break
<1>6. ASSUME NEW e \in Reqs, TunnelSecure(e)  PROVE SoundInv'
  BY <1>6 DEF TunnelSecure, Go, Write
<1>7. ASSUME NEW e \in Reqs, Head(e)  PROVE SoundInv'
  BY <1>7 DEF Head, Go, Leave, Break
<1>8. ASSUME NEW e \in Reqs, ConnectionFails(e)  PROVE SoundInv'
  BY <1>8 DEF ConnectionFails, Fail, Go, Leave, Break
<1>9. ASSUME NEW e \in Reqs, Timeout(e)  PROVE SoundInv'
  BY <1>9 DEF Timeout, Fail, Go, Leave, Break
<1>10. ASSUME NEW e \in Reqs, Forget(e)  PROVE SoundInv'
  BY <1>10 DEF Forget, Go
<1>11. ASSUME NEW s \in Sessions, SessionCloses(s)  PROVE SoundInv'
  BY <1>11 DEF SessionCloses
<1>12. ASSUME NEW s \in Sessions, ClosesSession(s)  PROVE SoundInv'
  BY <1>12 DEF ClosesSession
<1>13. ASSUME NEW a \in Agents, IdleCloses(a)  PROVE SoundInv'
  BY <1>13 DEF IdleCloses
<1>14. ASSUME NEW a \in Agents, ClosesIdle(a)  PROVE SoundInv'
  BY <1>14 DEF ClosesIdle
<1>15. CASE Reset
  <2>1. ASSUME NEW e \in Reqs  PROVE Sound(leg'[e], broken'[e], harmed'[e])
    BY <1>15, <2>1, ResetLoses
  <2>. QED  BY <2>1
<1>16. CASE Restart
  <2>1. ASSUME NEW e \in Reqs  PROVE Sound(leg'[e], broken'[e], harmed'[e])
    BY <1>16, <2>1 DEF Restart, RouteInv, Routed
  <2>. QED  BY <2>1
<1>17. ASSUME NEW e \in Reqs, StreamCloses(e)  PROVE SoundInv'
  BY <1>17 DEF StreamCloses, Go, Leave, Break
<1>18. CASE UNCHANGED vars
  BY <1>18 DEF vars
<1>. QED
  BY <1>1, <1>2, <1>3, <1>4, <1>5, <1>6, <1>7, <1>8, <1>9, <1>10, <1>11, <1>12, <1>13,
     <1>14, <1>15, <1>16, <1>17, <1>18 DEF Next

\* Two requests share a session only through the pool.
LEMMA SessionStep ==
    TypeOK /\ SessionInv /\ PoolIsLive /\ [Next]_vars => SessionInv'
<1> SUFFICES ASSUME TypeOK, SessionInv, PoolIsLive, [Next]_vars  PROVE SessionInv'
  OBVIOUS
<1> USE DEF TypeOK, Legs, Settled, Over, Waiting, Timed, OnSession, Riding, Riders, Free,
           PoolIsLive, SessionInv, OwnSession
<1>1. ASSUME NEW e \in Reqs, Send(e)  PROVE SessionInv'
  BY <1>1 DEF Send, OverAgent, OverSession, Go, Write, Break
<1>2. ASSUME NEW e \in Reqs, SessionOpens(e)  PROVE SessionInv'
  BY <1>2 DEF SessionOpens, Go, Write, Break
<1>3. ASSUME NEW e \in Reqs, SessionFails(e)  PROVE SessionInv'
  BY <1>3 DEF SessionFails, Fail, Go, Leave, Break
<1>4. ASSUME NEW e \in Reqs, Negotiated(e)  PROVE SessionInv'
  BY <1>4, UpstreamAssumption DEF Negotiated, Go, Write
<1>5. ASSUME NEW e \in Reqs, TunnelOpens(e)  PROVE SessionInv'
  BY <1>5 DEF TunnelOpens, Go, Break
<1>6. ASSUME NEW e \in Reqs, TunnelSecure(e)  PROVE SessionInv'
  BY <1>6 DEF TunnelSecure, Go, Write
<1>7. ASSUME NEW e \in Reqs, Head(e)  PROVE SessionInv'
  BY <1>7 DEF Head, Go, Leave, Break
<1>8. ASSUME NEW e \in Reqs, ConnectionFails(e)  PROVE SessionInv'
  BY <1>8 DEF ConnectionFails, Fail, Go, Leave, Break
<1>9. ASSUME NEW e \in Reqs, Timeout(e)  PROVE SessionInv'
  BY <1>9 DEF Timeout, Fail, Go, Leave, Break
<1>10. ASSUME NEW e \in Reqs, Forget(e)  PROVE SessionInv'
  BY <1>10 DEF Forget, Go
<1>11. ASSUME NEW s \in Sessions, SessionCloses(s)  PROVE SessionInv'
  BY <1>11, UpstreamAssumption DEF SessionCloses
<1>12. ASSUME NEW s \in Sessions, ClosesSession(s)  PROVE SessionInv'
  BY <1>12 DEF ClosesSession
<1>13. ASSUME NEW a \in Agents, IdleCloses(a)  PROVE SessionInv'
  BY <1>13 DEF IdleCloses
<1>14. ASSUME NEW a \in Agents, ClosesIdle(a)  PROVE SessionInv'
  BY <1>14 DEF ClosesIdle
<1>15. CASE Reset
  BY <1>15, UpstreamAssumption DEF Reset
<1>16. CASE Restart
  BY <1>16 DEF Restart
<1>17. ASSUME NEW e \in Reqs, StreamCloses(e)  PROVE SessionInv'
  BY <1>17 DEF StreamCloses, Go, Leave, Break
<1>18. CASE UNCHANGED vars
  BY <1>18 DEF vars
<1>. QED
  BY <1>1, <1>2, <1>3, <1>4, <1>5, <1>6, <1>7, <1>8, <1>9, <1>10, <1>11, <1>12, <1>13,
     <1>14, <1>15, <1>16, <1>17, <1>18 DEF Next

\* The session of a failed opening is not the pooled one.
LEMMA PoolStep ==
    TypeOK /\ SessionInv /\ PoolIsLive /\ [Next]_vars => PoolIsLive'
<1> SUFFICES ASSUME TypeOK, SessionInv, PoolIsLive, [Next]_vars  PROVE PoolIsLive'
  OBVIOUS
<1> USE DEF TypeOK, OnSession, Riding, PoolIsLive, SessionInv, OwnSession
<1>1. ASSUME NEW e \in Reqs, Send(e)  PROVE PoolIsLive'
  BY <1>1 DEF Send, OverAgent, OverSession, Go, Write, Break
<1>2. ASSUME NEW e \in Reqs, SessionOpens(e)  PROVE PoolIsLive'
  BY <1>2 DEF SessionOpens, Go, Write, Break
<1>3. ASSUME NEW e \in Reqs, SessionFails(e)  PROVE PoolIsLive'
  BY <1>3 DEF SessionFails, Fail, Go, Leave, Break
<1>4. ASSUME NEW e \in Reqs, Negotiated(e)  PROVE PoolIsLive'
  BY <1>4 DEF Negotiated, Go, Write
<1>5. ASSUME NEW e \in Reqs, TunnelOpens(e)  PROVE PoolIsLive'
  BY <1>5 DEF TunnelOpens, Go, Break
<1>6. ASSUME NEW e \in Reqs, TunnelSecure(e)  PROVE PoolIsLive'
  BY <1>6 DEF TunnelSecure, Go, Write
<1>7. ASSUME NEW e \in Reqs, Head(e)  PROVE PoolIsLive'
  BY <1>7 DEF Head, Go, Leave, Break
<1>8. ASSUME NEW e \in Reqs, ConnectionFails(e)  PROVE PoolIsLive'
  BY <1>8 DEF ConnectionFails, Fail, Go, Leave, Break
<1>9. ASSUME NEW e \in Reqs, Timeout(e)  PROVE PoolIsLive'
  BY <1>9 DEF Timeout, Fail, Go, Leave, Break
<1>10. ASSUME NEW e \in Reqs, Forget(e)  PROVE PoolIsLive'
  BY <1>10 DEF Forget, Go
<1>11. ASSUME NEW s \in Sessions, SessionCloses(s)  PROVE PoolIsLive'
  BY <1>11, UpstreamAssumption DEF SessionCloses
<1>12. ASSUME NEW s \in Sessions, ClosesSession(s)  PROVE PoolIsLive'
  BY <1>12 DEF ClosesSession
<1>13. ASSUME NEW a \in Agents, IdleCloses(a)  PROVE PoolIsLive'
  BY <1>13 DEF IdleCloses
<1>14. ASSUME NEW a \in Agents, ClosesIdle(a)  PROVE PoolIsLive'
  BY <1>14 DEF ClosesIdle
<1>15. CASE Reset
  BY <1>15, UpstreamAssumption DEF Reset
<1>16. CASE Restart
  BY <1>16 DEF Restart
<1>17. ASSUME NEW e \in Reqs, StreamCloses(e)  PROVE PoolIsLive'
  BY <1>17 DEF StreamCloses, Go, Leave, Break
<1>18. CASE UNCHANGED vars
  BY <1>18 DEF vars
<1>. QED
  BY <1>1, <1>2, <1>3, <1>4, <1>5, <1>6, <1>7, <1>8, <1>9, <1>10, <1>11, <1>12, <1>13,
     <1>14, <1>15, <1>16, <1>17, <1>18 DEF Next

\* After the retry only a restart or a timeout lets a request fail.
LEMMA FailedStep ==
    TypeOK /\ RouteInv /\ SoundInv /\ StaleCostsOneRetry /\ [Next]_vars => StaleCostsOneRetry'
<1> SUFFICES ASSUME TypeOK, RouteInv, SoundInv, StaleCostsOneRetry, [Next]_vars
             PROVE  StaleCostsOneRetry'
  OBVIOUS
<1> USE DEF TypeOK, Legs, Settled, Over, Waiting, Timed, RouteInv, Routed, SoundInv, Sound,
           StaleCostsOneRetry
<1>1. ASSUME NEW e \in Reqs, Send(e)  PROVE StaleCostsOneRetry'
  BY <1>1 DEF Send, OverAgent, OverSession, Go, Write, Break
<1>2. ASSUME NEW e \in Reqs, SessionOpens(e)  PROVE StaleCostsOneRetry'
  BY <1>2 DEF SessionOpens, Go, Write, Break
<1>3. ASSUME NEW e \in Reqs, SessionFails(e)  PROVE StaleCostsOneRetry'
  BY <1>3 DEF SessionFails, Fail, Go, Leave, Break
<1>4. ASSUME NEW e \in Reqs, Negotiated(e)  PROVE StaleCostsOneRetry'
  BY <1>4 DEF Negotiated, Go, Write
<1>5. ASSUME NEW e \in Reqs, TunnelOpens(e)  PROVE StaleCostsOneRetry'
  BY <1>5 DEF TunnelOpens, Go, Break
<1>6. ASSUME NEW e \in Reqs, TunnelSecure(e)  PROVE StaleCostsOneRetry'
  BY <1>6 DEF TunnelSecure, Go, Write
<1>7. ASSUME NEW e \in Reqs, Head(e)  PROVE StaleCostsOneRetry'
  BY <1>7 DEF Head, Go, Leave, Break
<1>8. ASSUME NEW e \in Reqs, ConnectionFails(e)  PROVE StaleCostsOneRetry'
  BY <1>8 DEF ConnectionFails, Fail, Go, Leave, Break
<1>9. ASSUME NEW e \in Reqs, Timeout(e)  PROVE StaleCostsOneRetry'
  BY <1>9 DEF Timeout, Fail, Go, Leave, Break
<1>10. ASSUME NEW e \in Reqs, Forget(e)  PROVE StaleCostsOneRetry'
  BY <1>10 DEF Forget, Go
<1>11. ASSUME NEW s \in Sessions, SessionCloses(s)  PROVE StaleCostsOneRetry'
  BY <1>11 DEF SessionCloses
<1>12. ASSUME NEW s \in Sessions, ClosesSession(s)  PROVE StaleCostsOneRetry'
  BY <1>12 DEF ClosesSession
<1>13. ASSUME NEW a \in Agents, IdleCloses(a)  PROVE StaleCostsOneRetry'
  BY <1>13 DEF IdleCloses
<1>14. ASSUME NEW a \in Agents, ClosesIdle(a)  PROVE StaleCostsOneRetry'
  BY <1>14 DEF ClosesIdle
<1>15. CASE Reset
  BY <1>15 DEF Reset
<1>16. CASE Restart
  BY <1>16 DEF Restart
<1>17. ASSUME NEW e \in Reqs, StreamCloses(e)  PROVE StaleCostsOneRetry'
  BY <1>17 DEF StreamCloses, Go, Leave, Break
<1>18. CASE UNCHANGED vars
  BY <1>18 DEF vars
<1>. QED
  BY <1>1, <1>2, <1>3, <1>4, <1>5, <1>6, <1>7, <1>8, <1>9, <1>10, <1>11, <1>12, <1>13,
     <1>14, <1>15, <1>16, <1>17, <1>18 DEF Next

\* Every step keeps the types; a request is not sent a third time.
LEMMA TypeStep ==
    TypeOK /\ CountInv /\ SessionInv /\ [Next]_vars => TypeOK'
<1> SUFFICES ASSUME TypeOK, CountInv, SessionInv, [Next]_vars  PROVE TypeOK'
  OBVIOUS
<1> USE DEF TypeOK, Legs, Agents, Settled, Over, Waiting, Timed, OnSession, Riding,
           CountInv, Counted, SessionInv, OwnSession
<1>1. ASSUME NEW e \in Reqs, Send(e)  PROVE TypeOK'
  <2>1. leg[e] = "idle" /\ sent[e] = 0
    BY <1>1 DEF Send
  <2>2. UNCHANGED <<origin, restarts, alpn, pool, harmed>>
    BY <1>1 DEF Send
  <2>3. CASE /\ UNCHANGED <<sess, via>>
             /\ \E a \in Agents, l \in {"plain", "agent"} : OverAgent(e, a, l)
    <3>1. PICK a \in Agents, l \in {"plain", "agent"} : OverAgent(e, a, l)
      BY <2>3
    <3>2. broken' \in [Reqs -> BOOLEAN]
      BY <3>1, Zenon DEF OverAgent, Break
    <3>3. route' \in [Reqs -> {"none", "http", "https", "proxied"}]
      BY <1>1 DEF Send
    <3>4. idle' = idle \/ idle' = [idle EXCEPT ![a] = "none"]
      BY <3>1, Zenon DEF OverAgent
    <3>5. Go(e, l) /\ Write(e)
      BY <3>1, Zenon DEF OverAgent
    <3>. QED  BY <2>1, <2>2, <2>3, <3>2, <3>3, <3>4, <3>5 DEF Go, Write
  <2>4. CASE UNCHANGED idle /\ OverSession(e)
    <3>1. route' \in [Reqs -> {"none", "http", "https", "proxied"}]
      BY <1>1 DEF Send
    <3>2. broken' \in [Reqs -> BOOLEAN]
      BY <2>4, Zenon DEF OverSession, Break
    <3>. QED  BY <2>1, <2>2, <2>4, <3>1, <3>2 DEF OverSession, Go, Write
  <2>5. CASE /\ Go(e, "connect") \/ Go(e, "tls")
             /\ UNCHANGED <<sess, idle, via, broken, sent>>
    <3>1. route' \in [Reqs -> {"none", "http", "https", "proxied"}]
      BY <1>1 DEF Send
    <3>. QED  BY <2>2, <2>5, <3>1 DEF Go
  <2>. QED  BY <1>1, <2>3, <2>4, <2>5 DEF Send
<1>2. ASSUME NEW e \in Reqs, SessionOpens(e)  PROVE TypeOK'
  BY <1>2 DEF SessionOpens, Go, Write, Break
<1>3. ASSUME NEW e \in Reqs, SessionFails(e)  PROVE TypeOK'
  BY <1>3 DEF SessionFails, Fail, Go, Leave, Break
<1>4. ASSUME NEW e \in Reqs, Negotiated(e)  PROVE TypeOK'
  BY <1>4 DEF Negotiated, Go, Write
<1>5. ASSUME NEW e \in Reqs, TunnelOpens(e)  PROVE TypeOK'
  BY <1>5 DEF TunnelOpens, Go, Break
<1>6. ASSUME NEW e \in Reqs, TunnelSecure(e)  PROVE TypeOK'
  BY <1>6 DEF TunnelSecure, Go, Write
<1>7. ASSUME NEW e \in Reqs, Head(e)  PROVE TypeOK'
  BY <1>7 DEF Head, Go, Leave, Break
<1>8. ASSUME NEW e \in Reqs, ConnectionFails(e)  PROVE TypeOK'
  BY <1>8 DEF ConnectionFails, Fail, Go, Leave, Break
<1>9. ASSUME NEW e \in Reqs, Timeout(e)  PROVE TypeOK'
  BY <1>9 DEF Timeout, Fail, Go, Leave, Break
<1>10. ASSUME NEW e \in Reqs, Forget(e)  PROVE TypeOK'
  BY <1>10 DEF Forget, Go
<1>11. ASSUME NEW s \in Sessions, SessionCloses(s)  PROVE TypeOK'
  BY <1>11 DEF SessionCloses
<1>12. ASSUME NEW s \in Sessions, ClosesSession(s)  PROVE TypeOK'
  BY <1>12 DEF ClosesSession
<1>13. ASSUME NEW a \in Agents, IdleCloses(a)  PROVE TypeOK'
  BY <1>13 DEF IdleCloses
<1>14. ASSUME NEW a \in Agents, ClosesIdle(a)  PROVE TypeOK'
  BY <1>14 DEF ClosesIdle
<1>15. CASE Reset
  <2>1. broken' \in [Reqs -> BOOLEAN]
    <3>1. ASSUME NEW on, NEW e \in Reqs  PROVE (e \notin on /\ broken[e]) \in BOOLEAN
      OBVIOUS
    <3>2. broken' = [e \in Reqs |-> e \notin (IF pool = None THEN {} ELSE Riders(pool))
                                    /\ broken[e]]
      BY <1>15, Zenon DEF Reset
    <3>. QED  BY <3>1, <3>2, Zenon
  <2>2. sess' \in [Sessions -> {"unused", "opening", "open", "gone"}]
    BY <1>15 DEF Reset
  <2>. QED  BY <1>15, <2>1, <2>2 DEF Reset
<1>16. CASE Restart
  BY <1>16, UpstreamAssumption DEF Restart
<1>17. ASSUME NEW e \in Reqs, StreamCloses(e)  PROVE TypeOK'
  BY <1>17 DEF StreamCloses, Go, Leave, Break
<1>18. CASE UNCHANGED vars
  BY <1>18 DEF vars
<1>. QED
  BY <1>1, <1>2, <1>3, <1>4, <1>5, <1>6, <1>7, <1>8, <1>9, <1>10, <1>11, <1>12, <1>13,
     <1>14, <1>15, <1>16, <1>17, <1>18 DEF Next

-----------------------------------------------------------------------------

\* The invariant holds of a client that has sent nothing.
LEMMA UpstreamInvInit == Init => UpstreamInv
<1> SUFFICES ASSUME Init  PROVE UpstreamInv
  OBVIOUS
<1>1. TypeOK
  BY UpstreamAssumption DEF Init, TypeOK, Legs
<1>2. CountInv /\ RouteInv /\ SoundInv /\ SessionInv
  BY DEF Init, CountInv, Counted, RouteInv, Routed, SoundInv, Sound, SessionInv,
         OwnSession, Riding, OnSession
<1>3. PoolIsLive /\ StaleCostsOneRetry
  BY DEF Init, PoolIsLive, StaleCostsOneRetry
<1>. QED  BY <1>1, <1>2, <1>3 DEF UpstreamInv

\* The inductive invariant holds in every reachable state.
THEOREM UpstreamInvariant == Spec => []UpstreamInv
<1>1. UpstreamInv /\ [Next]_vars => UpstreamInv'
  BY TypeStep, CountStep, RouteStep, SoundStep, SessionStep, PoolStep, FailedStep
     DEF UpstreamInv
<1>. QED  BY <1>1, UpstreamInvInit, PTL DEF Spec

\* A request over TLS to an origin that is up and in time does not fail, whatever
\* was cached (upstream.ts:276-303).
THEOREM OneRetryIsEnough == Spec => []StaleCostsOneRetry
<1>1. UpstreamInv => StaleCostsOneRetry
  BY DEF UpstreamInv
<1>. QED  BY <1>1, UpstreamInvariant, PTL

\* The pool's session has not been noticed to end (upstream.ts:85-89, 120).
THEOREM PoolStaysLive == Spec => []PoolIsLive
<1>1. UpstreamInv => PoolIsLive
  BY DEF UpstreamInv
<1>. QED  BY <1>1, UpstreamInvariant, PTL

-----------------------------------------------------------------------------
(* The refinement.                                                         *)

\* What the handlers see of a request's promise.
Outcome == [e \in Reqs |-> IF leg[e] \in Settled THEN leg[e] ELSE "pending"]

\* A step of the abstract promises, or none.
Promised == Promise!Next \/ (sent' = sent /\ Outcome' = Outcome)

\* A request's promise is untouched while it goes from one unsettled leg to
\* another without being sent.
LEMMA Unseen ==
    ASSUME TypeOK, NEW e \in Reqs, NEW l \in Legs \ Settled, Go(e, l),
           leg[e] \notin Settled
    PROVE  Outcome' = Outcome
BY DEF Go, Outcome, TypeOK

\* Sending it is a Put.
LEMMA SendingIsPut ==
    ASSUME TypeOK, NEW e \in Reqs, NEW l \in Legs \ Settled, Go(e, l), Write(e),
           leg[e] \notin Settled, sent[e] < 2
    PROVE  Promise!Next
<1>1. Outcome' = Outcome /\ Outcome[e] = "pending"
  BY Unseen DEF Outcome
<1>2. Promise!Put(e)
  BY <1>1 DEF Promise!Put, Write, Outcome
<1>. QED  BY <1>2 DEF Promise!Next

\* A rejected attempt is retried, which is not seen, or given up.
LEMMA FailingIsGivingUp ==
    ASSUME TypeOK, NEW e \in Reqs, Fail(e), sent' = sent, leg[e] \notin Settled
    PROVE  Promised
<1>1. CASE Go(e, "tls")
  BY <1>1, Unseen DEF Promised, Legs, Settled
<1>2. CASE Go(e, "failed")
  <2>1. Outcome' = [Outcome EXCEPT ![e] = "failed"] /\ Outcome[e] = "pending"
    BY <1>2 DEF Go, Outcome, Settled, TypeOK
  <2>2. Promise!GiveUp(e)
    BY <2>1 DEF Promise!GiveUp, Outcome
  <2>. QED  BY <2>2 DEF Promised, Promise!Next
<1>. QED  BY <1>1, <1>2 DEF Fail

\* Every step of the client is a step of the promises or is not seen.
LEMMA StepKeepsPromise == UpstreamInv /\ [Next]_vars => Promised
<1> SUFFICES ASSUME TypeOK, CountInv, SessionInv, PoolIsLive, [Next]_vars  PROVE Promised
  BY DEF UpstreamInv
<1> USE DEF Legs, Settled
<1>1. ASSUME NEW e \in Reqs, Send(e)  PROVE Promised
  <2>1. leg[e] = "idle" /\ sent[e] = 0
    BY <1>1 DEF Send, CountInv, Counted
  <2>2. PICK l \in Legs \ Settled : Go(e, l) /\ (sent' = sent \/ Write(e))
    BY <1>1 DEF Send, OverAgent, OverSession
  <2>. QED  BY <2>1, <2>2, Unseen, SendingIsPut DEF Promised
<1>2. ASSUME NEW e \in Reqs, SessionOpens(e)  PROVE Promised
  BY <1>2, SendingIsPut DEF SessionOpens, Promised, CountInv, Counted
<1>3. ASSUME NEW e \in Reqs, SessionFails(e)  PROVE Promised
  BY <1>3, FailingIsGivingUp DEF SessionFails
<1>4. ASSUME NEW e \in Reqs, Negotiated(e)  PROVE Promised
  <2>1. leg[e] = "tls" /\ sent[e] < 2 /\ Write(e)
    BY <1>4 DEF Negotiated, CountInv, Counted
  <2>2. Go(e, "own1") \/ Go(e, "own2")
    BY <1>4 DEF Negotiated
  <2>. QED  BY <2>1, <2>2, SendingIsPut DEF Promised
<1>5. ASSUME NEW e \in Reqs, TunnelOpens(e)  PROVE Promised
  BY <1>5, Unseen DEF TunnelOpens, Promised
<1>6. ASSUME NEW e \in Reqs, TunnelSecure(e)  PROVE Promised
  BY <1>6, SendingIsPut DEF TunnelSecure, Promised, CountInv, Counted
<1>7. ASSUME NEW e \in Reqs, Head(e)  PROVE Promised
  <2>1. /\ leg[e] \in Waiting /\ sent[e] > 0 /\ sent' = sent
        /\ leg' = [leg EXCEPT ![e] = "answered"]
    BY <1>7 DEF Head, Go, Waiting, TypeOK, CountInv, Counted
  <2>2. Outcome' = [Outcome EXCEPT ![e] = "answered"] /\ Outcome[e] = "pending"
    BY <2>1 DEF Outcome, Waiting, TypeOK
  <2>3. Promise!Answer(e)
    BY <2>1, <2>2 DEF Promise!Answer, Outcome
  <2>. QED  BY <2>3 DEF Promised, Promise!Next
<1>8. ASSUME NEW e \in Reqs, ConnectionFails(e)  PROVE Promised
  BY <1>8, FailingIsGivingUp DEF ConnectionFails, Waiting
<1>9. ASSUME NEW e \in Reqs, Timeout(e)  PROVE Promised
  BY <1>9, FailingIsGivingUp DEF Timeout, Timed
<1>10. ASSUME NEW e \in Reqs, Forget(e)  PROVE Promised
  <2>1. /\ leg[e] \in Settled /\ leg' = [leg EXCEPT ![e] = "idle"]
        /\ sent' = [sent EXCEPT ![e] = 0]
    BY <1>10 DEF Forget, Go
  <2>2. Outcome' = [Outcome EXCEPT ![e] = "pending"] /\ Outcome[e] # "pending"
    BY <2>1 DEF Outcome, TypeOK
  <2>3. Promise!Renew(e)
    BY <2>1, <2>2 DEF Promise!Renew, Outcome
  <2>. QED  BY <2>3 DEF Promised, Promise!Next
<1>11. CASE \/ \E s \in Sessions : SessionCloses(s) \/ ClosesSession(s)
            \/ \E a \in Agents : IdleCloses(a) \/ ClosesIdle(a)
            \/ Restart \/ UNCHANGED vars
  <2>1. leg' = leg /\ sent' = sent
    BY <1>11 DEF SessionCloses, ClosesSession, IdleCloses, ClosesIdle, Restart, vars
  <2>. QED  BY <2>1 DEF Outcome, Promised
<1>12. ASSUME NEW e \in Reqs, StreamCloses(e)  PROVE Promised
  BY <1>12, Unseen DEF StreamCloses, Promised
<1>13. CASE Reset
  <2>1. sent' = sent
    BY <1>13 DEF Reset
  <2>2. ASSUME NEW e \in Reqs
        PROVE  (IF leg'[e] \in Settled THEN leg'[e] ELSE "pending")
                 = (IF leg[e] \in Settled THEN leg[e] ELSE "pending")
    BY <1>13, ResetLoses
  <2>. QED  BY <2>1, <2>2, Zenon DEF Outcome, Promised
<1>. QED
  BY <1>1, <1>2, <1>3, <1>4, <1>5, <1>6, <1>7, <1>8, <1>9, <1>10, <1>11, <1>12, <1>13
     DEF Next

\* The client implements Delivery: every request is on the wire at most twice
\* and its promise settles once (upstream.ts, sendUpstream).
THEOREM ImplementsDelivery == Spec => KeepsPromise
<1>1. Init => Promise!Init
  BY DEF Init, Promise!Init, Settled
<1>2. UpstreamInv /\ [Next]_vars => [Promise!Next]_<<sent, Outcome>>
  BY StepKeepsPromise DEF Promised
<1>. QED
  BY <1>1, <1>2, UpstreamInvariant, PTL DEF Spec, KeepsPromise, Promise!Spec, Outcome

=============================================================================
