----------------------------- MODULE BridgeProofs -----------------------------
(***************************************************************************)
(* For any number of connections and ports: a request is handled under its *)
(* own connection's scheme and target unless its hops' ports clash.        *)
(* The argument is about ports.  A live hop that has not clashed shares    *)
(* its port with no other live hop, so the entry under it is the one it    *)
(* has made itself, or none; and the values copied from the entry on the   *)
(* way are right while nothing closes.                                     *)
(***************************************************************************)
EXTENDS Bridge, TLAPS

\* Nothing on the way of c has closed, and no port on it clashes.
Good(c) ==
    /\ client[c] = "open"
    /\ server[TlsHop(c)] # "closed" /\ server[HttpHop(c)] # "closed"
    /\ TlsHop(c) \notin clashed /\ HttpHop(c) \notin clashed

\* Which hops a connection has, by what it asked for.
ConnOK(c) ==
    /\ client[c] \in {"new", "tunnelled"} => kind[c] = "unknown"
    /\ client[c] = "open" => kind[c] # "unknown"
    /\ bridge[TlsHop(c)] # "none" <=> kind[c] = "tunnel"
    /\ kind[c] = "plain" => bridge[HttpHop(c)] # "none"
    /\ bridge[HttpHop(c)] # "none" =>
         kind[c] = "plain" \/ (kind[c] = "tunnel" /\ alpn[c] = "http/1.1")
    /\ alpn[c] # "none" => kind[c] = "tunnel" /\ TlsHop(c) \in sent

\* How far a hop has got.
HopOK(h) ==
    /\ bridge[h] # "none" => port[h] \in Ports
    /\ bridge[h] = "none" => server[h] = "none"
    /\ h \in sent => bridge[h] \in {"open", "closed"}

ShapeInv == (\A c \in Conns : ConnOK(c)) /\ (\A h \in Hops : HopOK(h))

PortInv ==
    \A g, h \in Hops :
        g # h /\ Live(g) /\ Live(h) /\ h \notin clashed => port[g] # port[h]

EntryInv ==
    \A h \in Hops :
        Live(h) /\ h \notin clashed =>
            connMeta[port[h]] = IF bridge[h] = "open" THEN MetaOf(h) ELSE NoMeta

\* What has been read from the entries of a connection that is whole.
CopiesOK(c) ==
    Good(c) =>
        /\ bridge[TlsHop(c)] # "closed" /\ bridge[HttpHop(c)] # "closed"
        /\ alpn[c] = "http/1.1" => target[c] = c
        /\ tag[c] \in {NoMeta, Own(c)}
        /\ used[c] \in {NoMeta, Own(c)}

\* Nothing has been read for a connection nothing is known of.
UnknownOK(c) == kind[c] = "unknown" => tag[c] = NoMeta /\ used[c] = NoMeta

CopyInv == \A c \in Conns : CopiesOK(c) /\ UnknownOK(c)

BridgeInv == TypeOK /\ ShapeInv /\ PortInv /\ EntryInv /\ CopyInv
-----------------------------------------------------------------------------

\* Once clashed, always clashed.
LEMMA ClashedGrows ==
    ASSUME [Next]_vars
    PROVE  clashed \subseteq clashed'
BY Zenon DEF Next, vars, RouteFront, SecureConnection, RouteDecrypted, H2Stream, Request,
          ClientCloses, Connected, Accepted, ServerCloses, BridgeCloses, Connect

\* What a new hop is given: a port, and if another live hop has it or there is
\* an entry under it, both are marked.
LEMMA ConnectFacts ==
    ASSUME NEW h \in Hops, Connect(h)
    PROVE  \E p \in Ports :
             /\ port' = [port EXCEPT ![h] = p]
             /\ bridge' = [bridge EXCEPT ![h] = "connecting"]
             /\ clashed \subseteq clashed' /\ clashed' \subseteq Hops \cup clashed
             /\ \A g \in Hops : port[g] = p /\ Live(g) => {g, h} \subseteq clashed'
             /\ connMeta[p] # NoMeta => h \in clashed'
BY DEF Connect, Free, Clash

\* The hops are two for each connection, all different.
LEMMA HopFacts ==
    /\ \A c \in Conns : TlsHop(c) \in Hops /\ HttpHop(c) \in Hops
    /\ \A h \in Hops : /\ h[1] \in Conns
                       /\ h[2] = "tls" => h = TlsHop(h[1])
                       /\ h[2] # "tls" => h[2] = "http" /\ h = HttpHop(h[1])
    /\ \A c, d \in Conns : /\ TlsHop(c) # HttpHop(d)
                           /\ TlsHop(c) = TlsHop(d) => c = d
                           /\ HttpHop(c) = HttpHop(d) => c = d
    /\ \A c \in Conns : /\ TlsHop(c)[1] = c /\ TlsHop(c)[2] = "tls"
                        /\ HttpHop(c)[1] = c /\ HttpHop(c)[2] = "http"
BY DEF Hops, TlsHop, HttpHop

\* What a bridge records, by the kind of its hop.
LEMMA MetaFacts ==
    ASSUME NEW c \in Conns
    PROVE  /\ MetaOf(TlsHop(c)) = [scheme |-> "https", target |-> c]
           /\ MetaOf(HttpHop(c)) = IF kind[c] = "tunnel"
                                   THEN [scheme |-> "https", target |-> target[c]]
                                   ELSE [scheme |-> "http", target |-> None]
BY HopFacts DEF MetaOf, Inner

\* A connection's hops come in their order.
LEMMA ShapeStep ==
    TypeOK /\ ShapeInv /\ [Next]_vars => ShapeInv'
<1> SUFFICES ASSUME TypeOK, ShapeInv, [Next]_vars  PROVE ShapeInv'
  OBVIOUS
<1> USE DEF TypeOK, ShapeInv, ConnOK, HopOK, BridgeUp
<1>1. ASSUME NEW c \in Conns, RouteFront(c)  PROVE ShapeInv'
  <2>1. ASSUME NEW h \in {TlsHop(c), HttpHop(c)}, Connect(h),
               client' = [client EXCEPT ![c] = "open"],
               kind' = [kind EXCEPT ![c] = IF h = TlsHop(c) THEN "tunnel" ELSE "plain"]
        PROVE  ShapeInv'
    <3>1. PICK p \in Ports : /\ port' = [port EXCEPT ![h] = p]
                             /\ bridge' = [bridge EXCEPT ![h] = "connecting"]
      BY <2>1 DEF Connect, Free
    <3>2. /\ client[c] = "new" /\ kind[c] = "unknown" /\ alpn[c] = "none"
          /\ bridge[TlsHop(c)] = "none" /\ bridge[HttpHop(c)] = "none"
          /\ UNCHANGED <<alpn, server, sent>>
      BY <1>1, HopFacts DEF RouteFront
    <3>. QED  BY <2>1, <3>1, <3>2, HopFacts
  <2>2. CASE UNCHANGED <<kind, port, bridge>> /\ client' = [client EXCEPT ![c] = "tunnelled"]
    BY <1>1, <2>2 DEF RouteFront
  <2>. QED  BY <1>1, <2>1, <2>2, HopFacts DEF RouteFront
<1>2. ASSUME NEW c \in Conns, SecureConnection(c)  PROVE ShapeInv'
  BY <1>2, HopFacts DEF SecureConnection
<1>3. ASSUME NEW c \in Conns, RouteDecrypted(c)  PROVE ShapeInv'
  BY <1>3, HopFacts DEF RouteDecrypted, Connect, Free
<1>4. ASSUME NEW c \in Conns, H2Stream(c)  PROVE ShapeInv'
  BY <1>4, HopFacts DEF H2Stream
<1>5. ASSUME NEW c \in Conns, Request(c)  PROVE ShapeInv'
  BY <1>5, HopFacts DEF Request
<1>6. ASSUME NEW c \in Conns, ClientCloses(c)  PROVE ShapeInv'
  BY <1>6, HopFacts DEF ClientCloses, Cleanup
<1>7. ASSUME NEW h \in Hops, Connected(h)  PROVE ShapeInv'
  BY <1>7, HopFacts DEF Connected
<1>8. ASSUME NEW h \in Hops, Accepted(h)  PROVE ShapeInv'
  BY <1>8, HopFacts DEF Accepted
<1>9. ASSUME NEW h \in Hops, ServerCloses(h)  PROVE ShapeInv'
  <2>1. PICK g \in Hops :
          \/ bridge' = bridge
          \/ BridgeUp(g) /\ bridge' = [bridge EXCEPT ![g] = "closed"]
    BY <1>9, HopFacts DEF ServerCloses, Cleanup
  <2>2. /\ server[h] = "accepted" /\ server' = [server EXCEPT ![h] = "closed"]
        /\ UNCHANGED <<kind, alpn, port, sent, client>>
    BY <1>9 DEF ServerCloses
  <2>. QED  BY <2>1, <2>2, HopFacts
<1>10. ASSUME NEW h \in Hops, BridgeCloses(h)  PROVE ShapeInv'
  BY <1>10, HopFacts DEF BridgeCloses, Inner
<1>11. CASE UNCHANGED vars
  BY <1>11 DEF vars
<1>. QED
  BY <1>1, <1>2, <1>3, <1>4, <1>5, <1>6, <1>7, <1>8, <1>9, <1>10, <1>11 DEF Next

\* A new hop gets a port no live one has, or both of them have clashed.
LEMMA ConnectPorts ==
    ASSUME TypeOK, PortInv, NEW h \in Hops, Connect(h), server' = server
    PROVE  PortInv'
<1>1. PICK p \in Ports :
        /\ port' = [port EXCEPT ![h] = p]
        /\ bridge' = [bridge EXCEPT ![h] = "connecting"]
        /\ clashed \subseteq clashed'
        /\ \A g \in Hops : port[g] = p /\ Live(g) => {g, h} \subseteq clashed'
  BY ConnectFacts
<1>2. port'[h] = p /\ \A g \in Hops \ {h} : port'[g] = port[g] /\ (Live(g)' <=> Live(g))
  BY <1>1 DEF TypeOK, Live, BridgeUp
<1>. QED  BY <1>1, <1>2, Zenon DEF PortInv

\* A hop that has not clashed shares its port with no live one.
LEMMA PortStep ==
    TypeOK /\ ShapeInv /\ PortInv /\ [Next]_vars => PortInv'
<1> SUFFICES ASSUME TypeOK, ShapeInv, PortInv, [Next]_vars  PROVE PortInv'
  OBVIOUS
<1> USE DEF TypeOK, PortInv, Live, BridgeUp
<1>1. ASSUME NEW c \in Conns, RouteFront(c)  PROVE PortInv'
  <2>1. CASE UNCHANGED <<port, bridge, clashed>>
    BY <1>1, <2>1 DEF RouteFront
  <2>. QED  BY <1>1, <2>1, HopFacts, ConnectPorts DEF RouteFront
<1>2. ASSUME NEW c \in Conns, SecureConnection(c)  PROVE PortInv'
  BY <1>2, HopFacts DEF SecureConnection
<1>3. ASSUME NEW c \in Conns, RouteDecrypted(c)  PROVE PortInv'
  <2>1. CASE UNCHANGED <<port, bridge, clashed>>
    BY <1>3, <2>1 DEF RouteDecrypted
  <2>. QED  BY <1>3, <2>1, HopFacts, ConnectPorts DEF RouteDecrypted
<1>4. ASSUME NEW c \in Conns, H2Stream(c)  PROVE PortInv'
  BY <1>4, HopFacts DEF H2Stream
<1>5. ASSUME NEW c \in Conns, Request(c)  PROVE PortInv'
  BY <1>5, HopFacts DEF Request
<1>6. ASSUME NEW c \in Conns, ClientCloses(c)  PROVE PortInv'
  BY <1>6, HopFacts DEF ClientCloses, Cleanup
<1>7. ASSUME NEW h \in Hops, Connected(h)  PROVE PortInv'
  BY <1>7, HopFacts DEF Connected
<1>8. ASSUME NEW h \in Hops, Accepted(h)  PROVE PortInv'
  BY <1>8, HopFacts DEF Accepted
<1>9. ASSUME NEW h \in Hops, ServerCloses(h)  PROVE PortInv'
  BY <1>9, HopFacts DEF ServerCloses, Cleanup
<1>10. ASSUME NEW h \in Hops, BridgeCloses(h)  PROVE PortInv'
  BY <1>10, HopFacts DEF BridgeCloses, Inner
<1>11. CASE UNCHANGED vars
  BY <1>11 DEF vars
<1>. QED
  BY <1>1, <1>2, <1>3, <1>4, <1>5, <1>6, <1>7, <1>8, <1>9, <1>10, <1>11 DEF Next

\* What a bridge has to record does not change once there is the bridge.
LEMMA MetaStable ==
    ASSUME TypeOK, ShapeInv, [Next]_vars, NEW h \in Hops, bridge[h] # "none"
    PROVE  MetaOf(h)' = MetaOf(h)
<1> DEFINE c == h[1]
<1>1. c \in Conns /\ (h = TlsHop(c) \/ h = HttpHop(c))
  BY HopFacts
<1>2. kind[c] # "unknown" => kind'[c] = kind[c]
  BY <1>1 DEF Next, vars, RouteFront, SecureConnection, RouteDecrypted, H2Stream, Request,
              ClientCloses, Connected, Accepted, ServerCloses, BridgeCloses, ShapeInv,
              ConnOK, TypeOK
<1>3. alpn[c] # "none" => target'[c] = target[c]
  BY <1>1 DEF Next, vars, RouteFront, SecureConnection, RouteDecrypted, H2Stream, Request,
              ClientCloses, Connected, Accepted, ServerCloses, BridgeCloses, TypeOK
<1>4. ConnOK(c)
  BY <1>1 DEF ShapeInv
<1>5. CASE h = TlsHop(c)
  BY <1>1, <1>5, HopFacts DEF MetaOf
<1>6. CASE h = HttpHop(c)
  <2>1. kind'[c] = kind[c] /\ (kind[c] = "tunnel" => target'[c] = target[c])
    BY <1>2, <1>3, <1>4, <1>6 DEF ConnOK
  <2>. QED  BY <1>1, <1>6, <2>1, HopFacts DEF MetaOf, Inner
<1>. QED  BY <1>1, <1>5, <1>6

\* A new hop finds no entry under its port, or it has clashed.
LEMMA ConnectEntries ==
    ASSUME TypeOK, ShapeInv, EntryInv, [Next]_vars, NEW h \in Hops, Connect(h),
           server' = server, connMeta' = connMeta
    PROVE  EntryInv'
<1>1. PICK p \in Ports :
        /\ port' = [port EXCEPT ![h] = p]
        /\ bridge' = [bridge EXCEPT ![h] = "connecting"]
        /\ clashed \subseteq clashed'
        /\ connMeta[p] # NoMeta => h \in clashed'
  BY ConnectFacts
<1>2. /\ port'[h] = p /\ bridge'[h] = "connecting"
      /\ \A g \in Hops \ {h} : /\ port'[g] = port[g] /\ bridge'[g] = bridge[g]
                               /\ Live(g)' <=> Live(g)
  BY <1>1 DEF TypeOK, Live, BridgeUp
<1>3. \A g \in Hops \ {h} : Live(g) => MetaOf(g)' = MetaOf(g)
  BY MetaStable DEF Live
<1>. QED  BY <1>1, <1>2, <1>3, Zenon DEF EntryInv

\* The entry of a live hop that has not clashed is what the hop has made of it.
LEMMA EntryStep ==
    TypeOK /\ ShapeInv /\ PortInv /\ EntryInv /\ [Next]_vars => EntryInv'
<1> SUFFICES ASSUME TypeOK, ShapeInv, PortInv, EntryInv, [Next]_vars
             PROVE  EntryInv'
  OBVIOUS
<1> USE DEF TypeOK, ShapeInv, HopOK, PortInv, EntryInv, Live, BridgeUp
<1>1. ASSUME NEW c \in Conns, RouteFront(c)  PROVE EntryInv'
  <2>1. CASE UNCHANGED <<port, bridge, clashed>>
    BY <1>1, <2>1, MetaStable DEF RouteFront
  <2>. QED  BY <1>1, <2>1, HopFacts, ConnectEntries DEF RouteFront
<1>2. ASSUME NEW c \in Conns, SecureConnection(c)  PROVE EntryInv'
  BY <1>2, HopFacts, MetaStable DEF SecureConnection
<1>3. ASSUME NEW c \in Conns, RouteDecrypted(c)  PROVE EntryInv'
  <2>1. CASE UNCHANGED <<port, bridge, clashed>>
    BY <1>3, <2>1, MetaStable DEF RouteDecrypted
  <2>. QED  BY <1>3, <2>1, HopFacts, ConnectEntries DEF RouteDecrypted
<1>4. ASSUME NEW c \in Conns, H2Stream(c)  PROVE EntryInv'
  BY <1>4, HopFacts, MetaStable DEF H2Stream
<1>5. ASSUME NEW c \in Conns, Request(c)  PROVE EntryInv'
  BY <1>5, HopFacts, MetaStable DEF Request
<1>6. ASSUME NEW c \in Conns, ClientCloses(c)  PROVE EntryInv'
  BY <1>6, HopFacts, MetaStable DEF ClientCloses, Cleanup
<1>7. ASSUME NEW h \in Hops, Connected(h)  PROVE EntryInv'
  BY <1>7, HopFacts, MetaStable DEF Connected
<1>8. ASSUME NEW h \in Hops, Accepted(h)  PROVE EntryInv'
  BY <1>8, HopFacts, MetaStable DEF Accepted
<1>9. ASSUME NEW h \in Hops, ServerCloses(h)  PROVE EntryInv'
  BY <1>9, HopFacts, MetaStable DEF ServerCloses, Cleanup
<1>10. ASSUME NEW h \in Hops, BridgeCloses(h)  PROVE EntryInv'
  BY <1>10, HopFacts, MetaStable DEF BridgeCloses, Inner
<1>11. CASE UNCHANGED vars
  BY <1>11, MetaStable DEF vars
<1>. QED
  BY <1>1, <1>2, <1>3, <1>4, <1>5, <1>6, <1>7, <1>8, <1>9, <1>10, <1>11 DEF Next

Targets == Conns \cup {None, Sni}

\* The fields of what connMeta holds and hands out.
LEMMA MetaFields ==
    /\ NoMeta.target = None /\ NoMeta.scheme = "none" /\ NoMeta \notin Metas
    /\ \A m \in Metas : m.scheme \in {"http", "https"} /\ m.target \in Targets
    /\ \A scheme \in {"http", "https"}, to \in Targets :
         [scheme |-> scheme, target |-> to] \in Metas
BY DEF NoMeta, Metas, Targets

\* Every step keeps the types.
LEMMA BridgeTypeStep == TypeOK /\ ShapeInv /\ [Next]_vars => TypeOK'
<1> SUFFICES ASSUME TypeOK, ShapeInv, [Next]_vars  PROVE TypeOK'
  OBVIOUS
<1> USE DEF TypeOK
<1>f. \A p \in Ports : /\ connMeta[p].target \in Targets
                       /\ connMeta[p] # NoMeta => connMeta[p].scheme \in {"http", "https"}
  BY MetaFields DEF Targets
<1>1. ASSUME NEW c \in Conns, NEW h \in Hops, Connect(h)
      PROVE  /\ port' \in [Hops -> Ports \cup {None}]
             /\ bridge' \in [Hops -> {"none", "connecting", "open", "closed"}]
             /\ clashed' \subseteq Hops
  BY <1>1, ConnectFacts
<1>2. ASSUME NEW h \in Hops, BridgeUp(h) => port[h] \in Ports, Cleanup(h)
      PROVE  /\ connMeta' \in [Ports -> Metas \cup {NoMeta}]
             /\ bridge' \in [Hops -> {"none", "connecting", "open", "closed"}]
  BY <1>2 DEF Cleanup
<1>3. \A h \in Hops : bridge[h] # "none" => port[h] \in Ports
  BY DEF ShapeInv, HopOK
<1>4. ASSUME NEW c \in Conns, RouteFront(c)  PROVE TypeOK'
  <2>1. kind' \in [Conns -> {"unknown", "plain", "tunnel"}]
    BY <1>4 DEF RouteFront
  <2>2. client' \in [Conns -> {"new", "open", "tunnelled", "closed"}]
    BY <1>4 DEF RouteFront
  <2>3. UNCHANGED <<port, bridge, clashed>> \/ Connect(HttpHop(c)) \/ Connect(TlsHop(c))
    BY <1>4 DEF RouteFront
  <2>4. /\ port' \in [Hops -> Ports \cup {None}]
        /\ bridge' \in [Hops -> {"none", "connecting", "open", "closed"}]
        /\ clashed' \subseteq Hops
    BY <2>3, <1>1, HopFacts
  <2>. QED  BY <1>4, <2>1, <2>2, <2>4 DEF RouteFront
<1>5. ASSUME NEW c \in Conns, SecureConnection(c)  PROVE TypeOK'
  <2>1. port[TlsHop(c)] \in Ports
    BY <1>3, <1>5, HopFacts DEF SecureConnection, ShapeInv, ConnOK
  <2>2. target' = target \/ \E to \in Targets : target' = [target EXCEPT ![c] = to]
    BY <1>5, <1>f, <2>1 DEF SecureConnection, Targets
  <2>3. target' \in [Conns -> Conns \cup {None, Sni}]
    BY <2>2 DEF Targets
  <2>4. alpn' \in [Conns -> {"none", "http/1.1", "h2"}]
    BY <1>5 DEF SecureConnection
  <2>. QED  BY <1>5, <2>3, <2>4 DEF SecureConnection
<1>6. ASSUME NEW c \in Conns, RouteDecrypted(c)  PROVE TypeOK'
  <2>1. CASE Connect(HttpHop(c)) /\ UNCHANGED used
    <3>1. /\ port' \in [Hops -> Ports \cup {None}]
          /\ bridge' \in [Hops -> {"none", "connecting", "open", "closed"}]
          /\ clashed' \subseteq Hops
      BY <1>1, <2>1, HopFacts
    <3>. QED  BY <1>6, <2>1, <3>1 DEF RouteDecrypted
  <2>2. CASE /\ used' = [used EXCEPT ![c] = [scheme |-> "https", target |-> target[c]]]
             /\ UNCHANGED <<port, bridge, clashed>>
    <3>1. [scheme |-> "https", target |-> target[c]] \in Metas
      BY MetaFields DEF Targets
    <3>. QED  BY <1>6, <2>2, <3>1 DEF RouteDecrypted
  <2>. QED  BY <1>6, <2>1, <2>2 DEF RouteDecrypted
<1>7. ASSUME NEW c \in Conns, H2Stream(c)  PROVE TypeOK'
  <2>1. port[TlsHop(c)] \in Ports
    BY <1>3, <1>7, HopFacts DEF H2Stream, ShapeInv, ConnOK
  <2>2. [scheme |-> "https", target |-> connMeta[port[TlsHop(c)]].target] \in Metas
    BY <1>f, <2>1, MetaFields
  <2>. QED  BY <1>7, <2>2 DEF H2Stream
<1>8. ASSUME NEW c \in Conns, Request(c)  PROVE TypeOK'
  <2>1. port[HttpHop(c)] \in Ports
    BY <1>3, <1>8, HopFacts DEF Request, ShapeInv, HopOK
  <2>2. tag[c].target \in Targets /\ tag[c].scheme \in {"none", "http", "https"}
    BY MetaFields DEF Targets
  <2>3. PICK m \in Metas : used' = [used EXCEPT ![c] = m]
    BY <1>8, <1>f, <2>1, <2>2, MetaFields DEF Request
  <2>. QED  BY <1>8, <2>3 DEF Request
<1>9. ASSUME NEW c \in Conns, ClientCloses(c)  PROVE TypeOK'
  <2>1. client' \in [Conns -> {"new", "open", "tunnelled", "closed"}]
    BY <1>9 DEF ClientCloses
  <2>2. Cleanup(HttpHop(c)) \/ Cleanup(TlsHop(c))
    BY <1>9 DEF ClientCloses
  <2>3. /\ connMeta' \in [Ports -> Metas \cup {NoMeta}]
        /\ bridge' \in [Hops -> {"none", "connecting", "open", "closed"}]
    BY <1>2, <1>3, <2>2, HopFacts DEF BridgeUp
  <2>. QED  BY <1>9, <2>1, <2>3 DEF ClientCloses
<1>10. ASSUME NEW h \in Hops, Connected(h)  PROVE TypeOK'
  <2>1. MetaOf(h) \in Metas /\ port[h] \in Ports
    BY <1>3, <1>10, HopFacts, MetaFields DEF Connected, MetaOf, Targets
  <2>2. connMeta' \in [Ports -> Metas \cup {NoMeta}]
    BY <1>10, <2>1 DEF Connected
  <2>3. bridge' \in [Hops -> {"none", "connecting", "open", "closed"}]
    BY <1>10 DEF Connected
  <2>. QED  BY <1>10, <2>2, <2>3 DEF Connected
<1>11. ASSUME NEW h \in Hops, Accepted(h)  PROVE TypeOK'
  <2>1. port[h] \in Ports /\ h[1] \in Conns
    BY <1>3, <1>11, HopFacts DEF Accepted
  <2>2. tag' \in [Conns -> Metas \cup {NoMeta}]
    BY <1>11, <2>1 DEF Accepted
  <2>3. server' \in [Hops -> {"none", "accepted", "closed"}]
    BY <1>11 DEF Accepted
  <2>. QED  BY <1>11, <2>2, <2>3 DEF Accepted
<1>12. ASSUME NEW h \in Hops, ServerCloses(h)  PROVE TypeOK'
  <2>1. UNCHANGED <<connMeta, bridge>> \/ Cleanup(HttpHop(h[1]))
    BY <1>12 DEF ServerCloses
  <2>2. /\ connMeta' \in [Ports -> Metas \cup {NoMeta}]
        /\ bridge' \in [Hops -> {"none", "connecting", "open", "closed"}]
    BY <1>2, <1>3, <2>1, HopFacts DEF BridgeUp
  <2>3. server' \in [Hops -> {"none", "accepted", "closed"}]
    BY <1>12 DEF ServerCloses
  <2>. QED  BY <1>12, <2>2, <2>3 DEF ServerCloses
<1>13. ASSUME NEW h \in Hops, BridgeCloses(h)  PROVE TypeOK'
  <2>1. h[1] \in Conns /\ TlsHop(h[1]) \in Hops
    BY HopFacts
  <2>2. bridge' \in [Hops -> {"none", "connecting", "open", "closed"}]
    BY <1>13 DEF BridgeCloses
  <2>3. server' \in [Hops -> {"none", "accepted", "closed"}]
    BY <1>13, <2>1 DEF BridgeCloses
  <2>4. client' \in [Conns -> {"new", "open", "tunnelled", "closed"}]
    BY <1>13, <2>1 DEF BridgeCloses
  <2>. QED  BY <1>13, <2>2, <2>3, <2>4 DEF BridgeCloses
<1>14. CASE UNCHANGED vars
  BY <1>14 DEF vars
<1>. QED
  BY <1>4, <1>5, <1>6, <1>7, <1>8, <1>9, <1>10, <1>11, <1>12, <1>13, <1>14 DEF Next

\* While a connection is whole, an entry of its hops is its own, or not there yet.
LEMMA OwnEntries ==
    ASSUME TypeOK, ShapeInv, EntryInv, CopyInv, NEW c \in Conns, Good(c)
    PROVE  /\ \A h \in {TlsHop(c), HttpHop(c)} :
                bridge[h] # "none" => connMeta[port[h]] \in {NoMeta, Own(c)}
           /\ \A h \in {TlsHop(c), HttpHop(c)} : h \in sent => connMeta[port[h]] = Own(c)
<1>1. TlsHop(c) \in Hops /\ HttpHop(c) \in Hops
  BY HopFacts
<1>2. /\ bridge[TlsHop(c)] # "closed" /\ bridge[HttpHop(c)] # "closed"
      /\ server[TlsHop(c)] # "closed" /\ server[HttpHop(c)] # "closed"
      /\ TlsHop(c) \notin clashed /\ HttpHop(c) \notin clashed
      /\ alpn[c] = "http/1.1" => target[c] = c
  BY DEF CopyInv, CopiesOK, Good
<1>3. ASSUME NEW h \in {TlsHop(c), HttpHop(c)}, bridge[h] # "none"
      PROVE  connMeta[port[h]] = IF bridge[h] = "open" THEN MetaOf(h) ELSE NoMeta
  BY <1>1, <1>2, <1>3 DEF EntryInv, Live, BridgeUp
<1>4. bridge[TlsHop(c)] # "none" => MetaOf(TlsHop(c)) = Own(c)
  BY MetaFacts DEF ShapeInv, ConnOK, Own
<1>5. bridge[HttpHop(c)] # "none" => MetaOf(HttpHop(c)) = Own(c)
  BY <1>2, MetaFacts DEF ShapeInv, ConnOK, Own
<1>6. \A h \in {TlsHop(c), HttpHop(c)} : h \in sent => bridge[h] = "open"
  BY <1>1, <1>2 DEF ShapeInv, HopOK
<1>. QED  BY <1>3, <1>4, <1>5, <1>6

\* What a connection asked for is settled once its first bytes are read.
LEMMA OwnFields ==
    ASSUME NEW c \in Conns
    PROVE  /\ Own(c) # NoMeta
           /\ Own(c) = [scheme |-> Own(c).scheme, target |-> Own(c).target]
           /\ Own(c).scheme \in {"http", "https"}
           /\ kind[c] = "tunnel" => Own(c) = [scheme |-> "https", target |-> c]
           /\ kind[c] # "plain" => Own(c).target # None
BY ConnsAssumption DEF Own, NoMeta

\* What is read for a connection that stays whole is its own.
LEMMA CopyStep ==
    ASSUME TypeOK, ShapeInv, EntryInv, CopyInv, [Next]_vars, NEW c \in Conns
    PROVE  CopiesOK(c)' /\ UnknownOK(c)'
<1> USE DEF TypeOK
<1>0. ConnOK(c) /\ CopiesOK(c) /\ UnknownOK(c) /\ HopOK(TlsHop(c)) /\ HopOK(HttpHop(c))
  BY HopFacts DEF ShapeInv, CopyInv
<1>g. Good(c)' => /\ client'[c] = "open"
                  /\ server'[TlsHop(c)] # "closed" /\ server'[HttpHop(c)] # "closed"
                  /\ TlsHop(c) \notin clashed /\ HttpHop(c) \notin clashed
  BY ClashedGrows DEF Good
<1>1. ASSUME NEW d \in Conns, RouteFront(d)  PROVE CopiesOK(c)' /\ UnknownOK(c)'
  <2>1. CASE c = d
    <3>1. /\ alpn[c] = "none" /\ kind[c] = "unknown" /\ UNCHANGED <<alpn, tag, used>>
          /\ bridge[TlsHop(c)] = "none" /\ bridge[HttpHop(c)] = "none"
      BY <1>0, <1>1, <2>1 DEF RouteFront, ConnOK
    <3>2. bridge'[TlsHop(c)] # "closed" /\ bridge'[HttpHop(c)] # "closed"
      BY <1>1, <3>1, HopFacts DEF RouteFront, Connect
    <3>. QED  BY <1>0, <3>1, <3>2 DEF CopiesOK, UnknownOK
  <2>2. CASE c # d
    <3>1. /\ UNCHANGED <<alpn, tag, used, server, target>>
          /\ client'[c] = client[c] /\ kind'[c] = kind[c]
          /\ bridge'[TlsHop(c)] = bridge[TlsHop(c)] /\ bridge'[HttpHop(c)] = bridge[HttpHop(c)]
      BY <1>1, <2>2, HopFacts DEF RouteFront, Connect
    <3>2. Good(c)' => Good(c)
      BY <1>g, <3>1 DEF Good
    <3>. QED  BY <1>0, <3>1, <3>2 DEF CopiesOK, UnknownOK, Own
  <2>. QED  BY <2>1, <2>2
<1>2. ASSUME NEW d \in Conns, SecureConnection(d)  PROVE CopiesOK(c)' /\ UnknownOK(c)'
  <2>1. CASE c = d /\ Good(c)
    <3>1. connMeta[port[TlsHop(c)]] = Own(c) /\ kind[c] = "tunnel"
      BY <1>2, <2>1, OwnEntries DEF SecureConnection
    <3>2. connMeta[port[TlsHop(c)]].target = c /\ c # None
      BY <3>1, OwnFields, ConnsAssumption
    <3>3. alpn'[c] = "http/1.1" => target'[c] = c
      BY <1>2, <2>1, <3>2 DEF SecureConnection
    <3>. QED  BY <1>0, <1>2, <3>3 DEF SecureConnection, CopiesOK, UnknownOK, Good, Own
  <2>2. CASE c # d
    BY <1>0, <1>2, <2>2 DEF SecureConnection, CopiesOK, UnknownOK, Good, Own
  <2>3. CASE c = d /\ ~Good(c)
    BY <1>0, <1>2, <2>3 DEF SecureConnection, CopiesOK, UnknownOK, Good
  <2>. QED  BY <2>1, <2>2, <2>3
<1>3. ASSUME NEW d \in Conns, RouteDecrypted(d)  PROVE CopiesOK(c)' /\ UnknownOK(c)'
  <2>1. UNCHANGED <<kind, alpn, server, tag, target, client>>
    BY <1>3 DEF RouteDecrypted
  <2>2. bridge'[TlsHop(c)] = "closed" => bridge[TlsHop(c)] = "closed"
    BY <1>3, HopFacts DEF RouteDecrypted, Connect
  <2>3. bridge'[HttpHop(c)] = "closed" => bridge[HttpHop(c)] = "closed"
    BY <1>3, HopFacts DEF RouteDecrypted, Connect
  <2>4. \/ used'[c] = used[c]
        \/ /\ c = d /\ kind[c] = "tunnel" /\ alpn[c] = "http/1.1"
           /\ used'[c] = [scheme |-> "https", target |-> target[c]]
    BY <1>0, <1>3 DEF RouteDecrypted, ConnOK
  <2>g. Good(c)' => Good(c)
    BY <1>g, <2>1 DEF Good
  <2>5. CASE used'[c] = used[c]
    BY <1>0, <2>g, <2>1, <2>2, <2>3, <2>5 DEF CopiesOK, UnknownOK, Own
  <2>6. CASE /\ kind[c] = "tunnel" /\ alpn[c] = "http/1.1"
             /\ used'[c] = [scheme |-> "https", target |-> target[c]]
    <3>1. Good(c) => used'[c] = Own(c)
      BY <1>0, <2>6, OwnFields DEF CopiesOK
    <3>. QED  BY <1>0, <2>g, <2>1, <2>2, <2>3, <2>6, <3>1 DEF CopiesOK, UnknownOK, Own
  <2>. QED  BY <2>4, <2>5, <2>6
<1>4. ASSUME NEW d \in Conns, H2Stream(d)  PROVE CopiesOK(c)' /\ UnknownOK(c)'
  <2>1. CASE c # d
    BY <1>0, <1>4, <2>1 DEF H2Stream, CopiesOK, UnknownOK, Good, Own
  <2>2. CASE c = d
    <3>1. kind[c] = "tunnel" /\ TlsHop(c) \in sent
      BY <1>0, <1>4, <2>2 DEF H2Stream, ConnOK
    <3>2. Good(c) => used'[c] = Own(c)
      <4>1. SUFFICES ASSUME Good(c)  PROVE used'[c] = Own(c)
        OBVIOUS
      <4>2. connMeta[port[TlsHop(c)]] = Own(c)
        BY <3>1, <4>1, OwnEntries
      <4>3. used'[c] = [scheme |-> "https", target |-> Own(c).target]
        BY <1>4, <2>2, <4>2 DEF H2Stream
      <4>. QED  BY <3>1, <4>3, OwnFields
    <3>. QED  BY <1>0, <1>4, <3>1, <3>2 DEF H2Stream, CopiesOK, UnknownOK, Good, Own
  <2>. QED  BY <2>1, <2>2
<1>5. ASSUME NEW d \in Conns, Request(d)  PROVE CopiesOK(c)' /\ UnknownOK(c)'
  <2>1. CASE c # d
    BY <1>0, <1>5, <2>1 DEF Request, CopiesOK, UnknownOK, Good, Own
  <2>2. CASE c = d
    <3>1. kind[c] # "unknown" /\ HttpHop(c) \in sent
      BY <1>0, <1>5, <2>2 DEF Request, ConnOK, HopOK
    <3>2. Good(c) => used'[c] = Own(c)
      <4>1. SUFFICES ASSUME Good(c)  PROVE used'[c] = Own(c)
        OBVIOUS
      <4>2. connMeta[port[HttpHop(c)]] = Own(c)
        BY <3>1, <4>1, OwnEntries
      <4>3. tag[c] \in {NoMeta, Own(c)}
        BY <1>0, <4>1 DEF CopiesOK
      <4>4. Own(c).target = None => tag[c].target = None
        BY <4>3 DEF NoMeta
      <4>5. used'[c] = [scheme |-> Own(c).scheme, target |-> Own(c).target]
        <5>1. used'[c] =
                [scheme |-> IF Own(c).scheme = "none" THEN "http" ELSE Own(c).scheme,
                 target |-> IF Own(c).target # None THEN Own(c).target ELSE tag[c].target]
          BY <1>5, <2>2, <4>2, OwnFields DEF Request
        <5>. QED  BY <4>4, <5>1, OwnFields
      <4>. QED  BY <4>5, OwnFields
    <3>. QED  BY <1>0, <1>5, <3>1, <3>2 DEF Request, CopiesOK, UnknownOK, Good, Own
  <2>. QED  BY <2>1, <2>2
<1>6. ASSUME NEW d \in Conns, ClientCloses(d)  PROVE CopiesOK(c)' /\ UnknownOK(c)'
  <2>1. UNCHANGED <<kind, alpn, server, tag, target, used>>
    BY <1>6 DEF ClientCloses
  <2>2. Good(c)' => c # d /\ Good(c)
    BY <1>6 DEF ClientCloses, Good
  <2>3. /\ c # d => bridge'[TlsHop(c)] = bridge[TlsHop(c)]
        /\ c # d => bridge'[HttpHop(c)] = bridge[HttpHop(c)]
    BY <1>6, HopFacts DEF ClientCloses, Cleanup
  <2>. QED  BY <1>0, <2>1, <2>2, <2>3 DEF CopiesOK, UnknownOK, Own
<1>7. ASSUME NEW h \in Hops, Connected(h)  PROVE CopiesOK(c)' /\ UnknownOK(c)'
  <2>1. UNCHANGED <<kind, alpn, server, tag, target, client, used>>
    BY <1>7 DEF Connected
  <2>2. /\ bridge'[TlsHop(c)] = "closed" => bridge[TlsHop(c)] = "closed"
        /\ bridge'[HttpHop(c)] = "closed" => bridge[HttpHop(c)] = "closed"
    BY <1>7, HopFacts DEF Connected
  <2>3. Good(c)' => Good(c)
    BY <1>g, <2>1 DEF Good
  <2>. QED  BY <1>0, <2>1, <2>2, <2>3 DEF CopiesOK, UnknownOK, Own
<1>8. ASSUME NEW h \in Hops, Accepted(h)  PROVE CopiesOK(c)' /\ UnknownOK(c)'
  <2>1. UNCHANGED <<kind, alpn, bridge, target, client, used>>
    BY <1>8 DEF Accepted
  <2>2. Good(c)' => Good(c)
    BY <1>8, HopFacts DEF Accepted, Good
  <2>3. tag'[c] = tag[c] \/ (h = HttpHop(c) /\ tag'[c] = connMeta[port[h]])
    BY <1>8, HopFacts DEF Accepted
  <2>4. CASE tag'[c] = tag[c]
    BY <1>0, <2>1, <2>2, <2>4 DEF CopiesOK, UnknownOK, Own
  <2>5. CASE h = HttpHop(c) /\ tag'[c] = connMeta[port[h]]
    <3>1. bridge[HttpHop(c)] # "none" /\ kind[c] # "unknown"
      BY <1>0, <1>8, <2>5 DEF Accepted, ConnOK
    <3>2. Good(c) => tag'[c] \in {NoMeta, Own(c)}
      BY <2>5, <3>1, OwnEntries
    <3>. QED  BY <1>0, <2>1, <2>2, <3>1, <3>2 DEF CopiesOK, UnknownOK, Own
  <2>. QED  BY <2>3, <2>4, <2>5
<1>9. ASSUME NEW h \in Hops, ServerCloses(h)  PROVE CopiesOK(c)' /\ UnknownOK(c)'
  <2>1. UNCHANGED <<kind, alpn, tag, target, client, used>>
    BY <1>9 DEF ServerCloses
  <2>2. Good(c)' => Good(c) /\ h # TlsHop(c)
    BY <1>9, HopFacts DEF ServerCloses, Good
  <2>3. h # TlsHop(c) =>
          /\ bridge'[TlsHop(c)] = bridge[TlsHop(c)]
          /\ bridge'[HttpHop(c)] = bridge[HttpHop(c)]
    BY <1>9, HopFacts DEF ServerCloses, Cleanup
  <2>. QED  BY <1>0, <2>1, <2>2, <2>3 DEF CopiesOK, UnknownOK, Own
<1>10. ASSUME NEW h \in Hops, BridgeCloses(h)  PROVE CopiesOK(c)' /\ UnknownOK(c)'
  <2>1. UNCHANGED <<kind, alpn, tag, target, used>>
    BY <1>10 DEF BridgeCloses
  <2>2. Good(c)' => Good(c) /\ h # TlsHop(c) /\ h # HttpHop(c)
    BY <1>10, HopFacts DEF BridgeCloses, Good, Inner
  <2>3. h # TlsHop(c) /\ h # HttpHop(c) =>
          /\ bridge'[TlsHop(c)] = bridge[TlsHop(c)]
          /\ bridge'[HttpHop(c)] = bridge[HttpHop(c)]
    BY <1>10, HopFacts DEF BridgeCloses
  <2>. QED  BY <1>0, <2>1, <2>2, <2>3 DEF CopiesOK, UnknownOK, Own
<1>11. CASE UNCHANGED vars
  BY <1>0, <1>11 DEF vars, CopiesOK, UnknownOK, Good, Own
<1>. QED
  BY <1>1, <1>2, <1>3, <1>4, <1>5, <1>6, <1>7, <1>8, <1>9, <1>10, <1>11 DEF Next

-----------------------------------------------------------------------------

\* The invariant holds at the start.
LEMMA BridgeInvInit == Init => BridgeInv
<1> SUFFICES ASSUME Init  PROVE BridgeInv
  OBVIOUS
<1>1. TypeOK
  BY DEF Init, TypeOK
<1>2. ShapeInv
  BY HopFacts DEF Init, ShapeInv, ConnOK, HopOK
<1>3. PortInv /\ EntryInv
  BY DEF Init, PortInv, EntryInv, Live
<1>4. CopyInv
  BY HopFacts DEF Init, CopyInv, CopiesOK, UnknownOK, Good
<1>. QED  BY <1>1, <1>2, <1>3, <1>4 DEF BridgeInv

\* Whatever ports the kernel gives out: no live hop shares one with a live hop
\* that has not clashed, the entry of such a hop is its own, and what has been
\* copied from it is right while nothing closes.
THEOREM BridgeInvariant == Spec => []BridgeInv
<1>1. BridgeInv /\ [Next]_vars => BridgeInv'
  BY ShapeStep, PortStep, EntryStep, BridgeTypeStep, CopyStep DEF BridgeInv, CopyInv
<1>. QED  BY BridgeInvInit, <1>1, PTL DEF Spec

\* A request is handled under its own connection's scheme and target unless a
\* port clashes, for any number of connections and ports (proxy.ts:180-200,
\* 207-212, 231-242).
THEOREM OwnMeta == Spec => []OwnMetaUnlessClash
<1>1. BridgeInv => OwnMetaUnlessClash
  BY DEF BridgeInv, CopyInv, CopiesOK, Good, WayOpen, OwnMetaUnlessClash
<1>. QED  BY <1>1, BridgeInvariant, PTL

\* Every variable stays in its type.
THEOREM BridgeTypes == Spec => []TypeOK
<1>1. Init => TypeOK /\ ShapeInv
  BY BridgeInvInit DEF BridgeInv
<1>2. TypeOK /\ ShapeInv /\ [Next]_vars => (TypeOK /\ ShapeInv)'
  BY BridgeTypeStep, ShapeStep
<1>. QED  BY <1>1, <1>2, PTL DEF Spec

=============================================================================
