-------------------------------- MODULE Bridge --------------------------------
(***************************************************************************)
(* How a client connection reaches a request handler (src/core/proxy.ts).  *)
(*                                                                         *)
(* The public port peeks at a connection and bridges it, over loopback     *)
(* TCP, into an internal server: a TLS terminator for what it decrypts,    *)
(* then an HTTP server for the request itself.  Scheme and CONNECT target  *)
(* do not travel on the wire.  They are left in `connMeta` under the       *)
(* bridge's source port, where the internal server looks them up.          *)
(*                                                                         *)
(* A hop is one bridge.  The kernel gives a hop a source port no live hop  *)
(* to the same server has.  It knows nothing of `connMeta`, and the two    *)
(* servers listen on different ports, so a hop may be given a port whose   *)
(* entry an earlier hop left behind, or one a live hop to the other server *)
(* has as well.  `clashed` remembers the hops such a thing happened to.    *)
(***************************************************************************)
CONSTANTS
    Conns,   \* client connections
    Ports,   \* ephemeral ports
    None,    \* no connection, no port
    Sni      \* the target taken from the TLS server name

ASSUME ConnsAssumption ==
    /\ None \notin Conns /\ None \notin Ports
    /\ Sni \notin Conns /\ Sni # None

Hops == Conns \X {"http", "tls"}
TlsHop(c) == <<c, "tls">>
HttpHop(c) == <<c, "http">>

\* A scheme and a CONNECT target.  The target is named after the connection
\* that asked for it; Sni is the fallback when no entry is found.
Metas == [scheme : {"http", "https"}, target : Conns \cup {None, Sni}]
NoMeta == [scheme |-> "none", target |-> None]

VARIABLES
    kind,      \* what the first bytes of a connection asked for
    alpn,      \* what a tunnel negotiated inside, "none" until its handshake is over
    connMeta,  \* by port: what the last bridge to set it left there
    port,      \* the source port of each hop
    bridge,    \* the client end of each hop
    server,    \* the server end of each hop
    sent,      \* hops over which the head has been written
    tag,       \* what the "connection" handler put on the server-end socket
    target,    \* the target a decrypted http/1.1 connection is routed with
    client,    \* the client's own socket
    used,      \* scheme and target the request handler was called with
    clashed    \* hops that share a port, or were given one with an old entry

vars == <<kind, alpn, connMeta, port, bridge, server, sent, tag, target, client, used,
          clashed>>

TypeOK ==
    /\ kind \in [Conns -> {"unknown", "plain", "tunnel"}]
    /\ alpn \in [Conns -> {"none", "http/1.1", "h2"}]
    /\ connMeta \in [Ports -> Metas \cup {NoMeta}]
    /\ port \in [Hops -> Ports \cup {None}]
    /\ bridge \in [Hops -> {"none", "connecting", "open", "closed"}]
    /\ server \in [Hops -> {"none", "accepted", "closed"}]
    /\ sent \subseteq Hops
    /\ tag \in [Conns -> Metas \cup {NoMeta}]
    /\ target \in [Conns -> Conns \cup {None, Sni}]
    /\ client \in [Conns -> {"new", "open", "tunnelled", "closed"}]
    /\ used \in [Conns -> Metas \cup {NoMeta}]
    /\ clashed \subseteq Hops

Init ==
    /\ kind = [c \in Conns |-> "unknown"]
    /\ alpn = [c \in Conns |-> "none"]
    /\ connMeta = [p \in Ports |-> NoMeta]
    /\ port = [h \in Hops |-> None]
    /\ bridge = [h \in Hops |-> "none"]
    /\ server = [h \in Hops |-> "none"]
    /\ sent = {}
    /\ tag = [c \in Conns |-> NoMeta]
    /\ target = [c \in Conns |-> None]
    /\ client = [c \in Conns |-> "new"]
    /\ used = [c \in Conns |-> NoMeta]
    /\ clashed = {}

-----------------------------------------------------------------------------
(* Hops.                                                                   *)

\* The server end a hop's bytes come from: the client, or the TLS terminator.
Inner(h) == h[2] = "http" /\ kind[h[1]] = "tunnel"

BridgeUp(h) == bridge[h] \in {"connecting", "open"}
Live(h) == bridge[h] # "none" /\ (BridgeUp(h) \/ server[h] # "closed")

\* What the bridge of a hop records once it is connected.
MetaOf(h) ==
    CASE h[2] = "tls" -> [scheme |-> "https", target |-> h[1]]
      [] Inner(h) -> [scheme |-> "https", target |-> target[h[1]]]
      [] OTHER -> [scheme |-> "http", target |-> None]

\* The ports the kernel may give a hop.
Free(h) == {p \in Ports : \A g \in Hops : port[g] = p /\ Live(g) => g[2] # h[2]}

\* The hops that come to grief when h is given p: itself and those that have p,
\* or itself if there is an entry under p already.
Clash(h, p) ==
    LET sharing == {g \in Hops : port[g] = p /\ Live(g)} IN
    IF sharing # {} \/ connMeta[p] # NoMeta THEN sharing \cup {h} ELSE {}

\* net.connect on a new hop: the kernel picks its source port.
Connect(h) ==
    \E p \in Free(h) :
        /\ port' = [port EXCEPT ![h] = p]
        /\ bridge' = [bridge EXCEPT ![h] = "connecting"]
        /\ clashed' = clashed \cup Clash(h, p)

\* The cleanup of a bridge whose own socket still has its handle: localPort is
\* known and the entry under it goes.
Cleanup(h) ==
    IF BridgeUp(h)
    THEN /\ connMeta' = [connMeta EXCEPT ![port[h]] = NoMeta]
         /\ bridge' = [bridge EXCEPT ![h] = "closed"]
    ELSE UNCHANGED <<connMeta, bridge>>

-----------------------------------------------------------------------------
(* Events.  Each is one callback of the event loop.                        *)

\* The first bytes of a connection are a plain request: bridge it.  A tunnel
\* that is to be decrypted is bridged into the TLS terminator.  Tunnels the
\* options exempt, plain WebSocket handshakes, and traffic to the inspector
\* itself are piped on without an internal server.
RouteFront(c) ==
    /\ client[c] = "new"
    /\ \/ /\ client' = [client EXCEPT ![c] = "open"]
          /\ \/ kind' = [kind EXCEPT ![c] = "plain"] /\ Connect(HttpHop(c))
             \/ kind' = [kind EXCEPT ![c] = "tunnel"] /\ Connect(TlsHop(c))
       \/ /\ client' = [client EXCEPT ![c] = "tunnelled"]
          /\ UNCHANGED <<kind, port, bridge, clashed>>
    /\ UNCHANGED <<alpn, connMeta, server, sent, tag, target, used>>

\* Broken: the bytes go out before the meta is recorded.
ConnectedWithoutMeta(h) ==
    /\ bridge[h] = "connecting"
    /\ bridge' = [bridge EXCEPT ![h] = "open"]
    /\ sent' = sent \cup {h}
    /\ UNCHANGED <<kind, alpn, connMeta, port, server, tag, target, client, used, clashed>>

\* The bridge's connect callback: record the meta, then write the head.
Connected(h) ==
    /\ bridge[h] = "connecting"
    /\ bridge' = [bridge EXCEPT ![h] = "open"]
    /\ connMeta' = [connMeta EXCEPT ![port[h]] = MetaOf(h)]
    /\ sent' = sent \cup {h}
    /\ UNCHANGED <<kind, alpn, port, server, tag, target, client, used, clashed>>

\* The internal server accepts.  The kernel completed the connection before
\* either callback, so this may come before Connected and after a cleanup.
Accepted(h) ==
    /\ bridge[h] # "none"
    /\ server[h] = "none"
    /\ server' = [server EXCEPT ![h] = "accepted"]
    /\ tag' = IF h[2] = "http" /\ connMeta[port[h]] # NoMeta
              THEN [tag EXCEPT ![h[1]] = connMeta[port[h]]] ELSE tag
    /\ UNCHANGED <<kind, alpn, connMeta, port, bridge, sent, target, client, used, clashed>>

\* Broken: the whole meta is passed on where its target is meant.
SecureConnectionWholeMeta(c) ==
    /\ kind[c] = "tunnel"
    /\ alpn[c] = "none"
    /\ server[TlsHop(c)] = "accepted"
    /\ TlsHop(c) \in sent
    /\ \/ alpn' = [alpn EXCEPT ![c] = "h2"] /\ UNCHANGED target
       \/ /\ alpn' = [alpn EXCEPT ![c] = "http/1.1"]
          /\ target' = [target EXCEPT ![c] = connMeta[port[TlsHop(c)]]]
    /\ UNCHANGED <<kind, connMeta, port, bridge, server, sent, tag, client, used, clashed>>

\* The TLS handshake is over.  For http/1.1 the CONNECT target is looked up,
\* or the SNI is used; an h2 connection is handed to the h2 server at once.
SecureConnection(c) ==
    LET found == connMeta[port[TlsHop(c)]].target IN
    /\ kind[c] = "tunnel"
    /\ alpn[c] = "none"
    /\ server[TlsHop(c)] = "accepted"
    /\ TlsHop(c) \in sent
    /\ \/ alpn' = [alpn EXCEPT ![c] = "h2"] /\ UNCHANGED target
       \/ /\ alpn' = [alpn EXCEPT ![c] = "http/1.1"]
          /\ target' = [target EXCEPT ![c] = IF found = None THEN Sni ELSE found]
    /\ UNCHANGED <<kind, connMeta, port, bridge, server, sent, tag, client, used, clashed>>

\* A decrypted http/1.1 connection has sent its head: a WebSocket handshake is
\* relayed with the target in hand, anything else is bridged once more.
RouteDecrypted(c) ==
    /\ alpn[c] = "http/1.1"
    /\ server[TlsHop(c)] = "accepted"
    /\ bridge[HttpHop(c)] = "none"
    /\ used[c] = NoMeta
    /\ \/ /\ Connect(HttpHop(c))
          /\ UNCHANGED used
       \/ /\ used' = [used EXCEPT ![c] = [scheme |-> "https", target |-> target[c]]]
          /\ UNCHANGED <<port, bridge, clashed>>
    /\ UNCHANGED <<kind, alpn, connMeta, server, sent, tag, target, client>>

\* An h2 stream opens: its target is looked up again, for every stream.
H2Stream(c) ==
    /\ alpn[c] = "h2"
    /\ server[TlsHop(c)] = "accepted"
    /\ used' = [used EXCEPT ![c] =
          [scheme |-> "https", target |-> connMeta[port[TlsHop(c)]].target]]
    /\ UNCHANGED <<kind, alpn, connMeta, port, bridge, server, sent, tag, target, client,
                    clashed>>

\* Broken: only a connection the "connection" handler could tag is served.
RequestIfTagged(c) ==
    /\ server[HttpHop(c)] = "accepted"
    /\ HttpHop(c) \in sent
    /\ tag[c] # NoMeta
    /\ used' = [used EXCEPT ![c] = tag[c]]
    /\ UNCHANGED <<kind, alpn, connMeta, port, bridge, server, sent, tag, target, client,
                    clashed>>

\* The HTTP server has parsed a head: connMeta first, then the socket's tag.
Request(c) ==
    LET meta == connMeta[port[HttpHop(c)]]
        scheme == IF meta # NoMeta THEN meta.scheme ELSE tag[c].scheme IN
    /\ server[HttpHop(c)] = "accepted"
    /\ HttpHop(c) \in sent
    /\ used' = [used EXCEPT ![c] =
          [scheme |-> IF scheme = "none" THEN "http" ELSE scheme,
           target |-> IF meta.target # None THEN meta.target ELSE tag[c].target]]
    /\ UNCHANGED <<kind, alpn, connMeta, port, bridge, server, sent, tag, target, client,
                    clashed>>

\* The client's socket closes: the cleanup of the hop it feeds.
ClientCloses(c) ==
    /\ client[c] = "open"
    /\ client' = [client EXCEPT ![c] = "closed"]
    /\ Cleanup(IF kind[c] = "plain" THEN HttpHop(c) ELSE TlsHop(c))
    /\ UNCHANGED <<kind, alpn, port, server, sent, tag, target, used, clashed>>

\* A server end closes by itself (keep-alive timeout, protocol error) or after
\* its bridge.  When it is the TLS end, the hop it feeds is cleaned up.
ServerCloses(h) ==
    /\ server[h] = "accepted"
    /\ server' = [server EXCEPT ![h] = "closed"]
    /\ IF h[2] = "tls" THEN Cleanup(HttpHop(h[1])) ELSE UNCHANGED <<connMeta, bridge>>
    /\ UNCHANGED <<kind, alpn, port, sent, tag, target, client, used, clashed>>

\* The bridge's own close event.  The socket has no handle left, localPort is
\* undefined and no entry is deleted; the other side is destroyed.
BridgeCloses(h) ==
    /\ BridgeUp(h)
    /\ server[h] = "closed"
    /\ bridge' = [bridge EXCEPT ![h] = "closed"]
    /\ IF Inner(h)
       THEN /\ server' = [server EXCEPT ![TlsHop(h[1])] = "closed"]
            /\ UNCHANGED client
       ELSE /\ client' = [client EXCEPT ![h[1]] = "closed"]
            /\ UNCHANGED server
    /\ UNCHANGED <<kind, alpn, connMeta, port, sent, tag, target, used, clashed>>

-----------------------------------------------------------------------------

\* What moves a connection on toward its handler.
Progress(c) ==
    \/ RouteFront(c) \/ SecureConnection(c) \/ RouteDecrypted(c)
    \/ \E h \in {HttpHop(c), TlsHop(c)} : Connected(h) \/ Accepted(h)

Handle(c) == used[c] = NoMeta /\ (H2Stream(c) \/ Request(c))

Next ==
    \/ \E c \in Conns :
        \/ RouteFront(c) \/ SecureConnection(c) \/ RouteDecrypted(c)
        \/ H2Stream(c) \/ Request(c) \/ ClientCloses(c)
    \/ \E h \in Hops :
        \/ Connected(h) \/ Accepted(h) \/ ServerCloses(h) \/ BridgeCloses(h)

Spec == Init /\ [][Next]_vars

\* libuv delivers every pending callback, and a client that has connected sends
\* what its protocol begins with: a request head, a ClientHello, the head or
\* stream inside the tunnel.  Nothing makes anybody close.
Fairness == \A c \in Conns : WF_vars(Progress(c)) /\ WF_vars(Handle(c))

FairSpec == Spec /\ Fairness

-----------------------------------------------------------------------------

\* The scheme and target a connection asked for.
Own(c) == IF kind[c] = "plain" THEN [scheme |-> "http", target |-> None]
                         ELSE [scheme |-> "https", target |-> c]

\* Nothing on the way of c has closed.
WayOpen(c) ==
    /\ client[c] = "open"
    /\ server[TlsHop(c)] # "closed" /\ server[HttpHop(c)] # "closed"

\* A request is handled under its own connection's scheme and target however
\* the accept, connect and request callbacks of all connections interleave, as
\* long as nothing on its way has closed and neither of its hops got a port
\* that clashes (proxy.ts:180-200, 207-212, 231-242).
OwnMetaUnlessClash ==
    \A c \in Conns :
        used[c] # NoMeta /\ WayOpen(c) /\ {TlsHop(c), HttpHop(c)} \cap clashed = {}
        => used[c] = Own(c)

\* A connection that stays open is handled or tunnelled.
EveryConnectionHandled ==
    \A c \in Conns :
        (client[c] = "open") ~>
            \/ used[c] # NoMeta \/ client[c] = "closed"
            \/ \E h \in {HttpHop(c), TlsHop(c)} : server[h] = "closed"

-----------------------------------------------------------------------------
(* What the code does not keep.                                            *)

\* When a request arrives over a way that is open, the entry of its bridge is
\* there and is its own (proxy.ts:195, "so by here the entry is always
\* present").
OwnMetaWhileOpen ==
    \A c \in Conns : used[c] # NoMeta /\ WayOpen(c) => used[c] = Own(c)

=============================================================================
