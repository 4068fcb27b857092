--------------------------------- MODULE Front ---------------------------------
(***************************************************************************)
(* One connection to the public port, from its first byte to the hop that  *)
(* carries it on: the peeking front of src/core/proxy.ts, the SOCKS        *)
(* negotiation of src/core/socks.ts, the head parser of                    *)
(* src/core/head-parser.ts and the WebSocket relay of                      *)
(* src/core/websocket.ts.                                                  *)
(*                                                                         *)
(* What the client sends is a sequence of cells: a cell is what one read   *)
(* or one search of the code takes (a SOCKS field, the request line, the   *)
(* blank line that ends a head, a WebSocket header or payload).  TCP cuts  *)
(* the stream between any two of them.  Four readers take the cells in     *)
(* turn, each with a buffer of its own, and hand what they did not use to  *)
(* the next.  Between the last reader and the hop's connect callback no    *)
(* one listens, and the socket still flows.                                *)
(***************************************************************************)
EXTENDS Naturals, Sequences, FiniteSets, WsFrames, Subsequences

CONSTANTS
    Clients,    \* what a client may send: sequences of cells
    Origins,    \* what a WebSocket origin may send: "resp" "end" and frames
    MaxHead,    \* MAX_HEAD, in cells
    MaxInject,  \* bound on injected messages
    Hasty       \* whether a client may send while no one listens

SocksCells == {"v5", "v4", "offers", "offersNot", "login", "badLogin", "connect5", "bind5",
               "addr", "badAddr", "connect4", "connect4a", "bind4", "user", "name"}

Sends(c, kinds) == \E i \in 1 .. Len(c) : c[i] \in kinds
SocksLength(c) == Cardinality({i \in 1 .. Len(c) : c[i] \in SocksCells})

\* The cell after which negotiateSocks returns a target, and those at which it
\* throws whatever the options.
Granting(c) == {"addr", "name"} \cup (IF Sends(c, {"connect4"}) THEN {"user"} ELSE {})
Refused(c) == {"badLogin", "bind5", "badAddr"} \cup (IF Sends(c, {"bind4"}) THEN {"user"} ELSE {})

\* What makes a sequence of cells one that a client can send: what a reader finds
\* at a place has the name that reader gives it.  SOCKS comes first and ends
\* with what grants or refuses it, a request line follows, and frames a head.
FollowsSocks(c) ==
    LET n == SocksLength(c) IN
    /\ \A i \in 1 .. Len(c) : c[i] \in SocksCells <=> i <= n
    /\ \A i \in 1 .. n : c[i] \in {"v5", "v4"} <=> i = 1
    /\ n > 1 /\ c[1] = "v5" => c[2] \in {"offers", "offersNot"}
    /\ \A i \in 1 .. n : c[i] \in Granting(c) => i = n
    /\ 0 < n /\ n < Len(c) => c[n] \in Granting(c) \cup Refused(c)

FollowsHttp(c) ==
    /\ \A i \in 1 .. Len(c) :
            c[i] \in {"connect", "connectSelf", "upgrade"} => i = SocksLength(c) + 1
    /\ \A i \in 1 .. Len(c) :
            /\ c[i] = "blank" /\ (\A j \in 1 .. i - 1 : c[j] # "blank")
            /\ Sends(c, {"upgrade"})
            => Framed(c, i)

ASSUME FrontAssumption ==
    /\ MaxHead \in Nat \ {0}
    /\ MaxInject \in Nat
    /\ Hasty \in BOOLEAN
    /\ \A c \in Clients : c \in Seq(STRING) /\ FollowsSocks(c) /\ FollowsHttp(c)
    /\ \A o \in Origins : o \in Seq(STRING) /\ Framed(o, 2)

Dirs == {"up", "down"}       \* towards the origin, towards the client
Hops == {"tls", "blind", "http", "self", "relay"}

VARIABLES
    cells,      \* what the client will send
    auth,       \* whether the option socksAuth is set
    pos,        \* how many cells have arrived
    at,         \* the reader or the hop that has the socket
    held,       \* places of the cells read and not handed on
    told,       \* what the front has said to the client
    client,     \* "open" or "gone"
    hop         \* the connection onward

VARIABLES
    origin,     \* what the origin will send
    agreed,     \* whether its response has permessage-deflate
    opos,       \* how much of it has arrived
    live,       \* the flow's entry in liveSockets
    deflate,    \* enableDeflate of the two parsers
    parser,     \* clientParser ("up") and serverParser ("down")
    wire,       \* what was written in each direction: places, 0 if injected
    log,        \* flow.websocketMessages, split by direction
    cut,        \* whether the handshake's packet ended inside a message
    orphan      \* whether the client left before the origin was ready

front == <<cells, auth, pos, at, held, told, client, hop>>
relay == <<origin, agreed, opos, live, deflate, parser, wire, log, cut, orphan>>
vars == <<cells, auth, pos, at, held, told, client, hop,
          origin, agreed, opos, live, deflate, parser, wire, log, cut, orphan>>

Has(kinds) == Sends(cells, kinds)

TypeOK ==
    /\ cells \in Clients /\ origin \in Origins
    /\ auth \in BOOLEAN /\ agreed \in BOOLEAN
    /\ pos \in 0 .. Len(cells) /\ opos \in 0 .. Len(origin)
    /\ at \in {"first", "socks", "lead", "head", "closed"} \cup Hops
    /\ held \in Seq(1 .. Len(cells))
    /\ told \in Seq({"method", "welcome", "granted", "refused", "established"})
    /\ client \in {"open", "gone"}
    /\ hop \in {"none", "connecting", "up", "closed"}
    /\ live \in BOOLEAN /\ deflate \in BOOLEAN /\ cut \in BOOLEAN /\ orphan \in BOOLEAN
    /\ parser \in [Dirs -> Parsers]
    /\ wire \in [Dirs -> Seq(Nat)]
    /\ log \in [Dirs -> Seq(Messages)]

Init ==
    /\ cells \in Clients
    /\ origin \in Origins
    /\ agreed \in BOOLEAN
    /\ auth \in BOOLEAN
    \* a client answers the method it was told
    /\ Has({"offers"}) => auth = Has({"login", "badLogin"})
    /\ Has({"upgrade"}) \/ (agreed = FALSE /\ origin = CHOOSE o \in Origins : TRUE)
    /\ pos = 0 /\ opos = 0
    /\ at = "first" /\ hop = "none" /\ client = "open"
    /\ held = <<>> /\ told = <<>>
    /\ live = FALSE /\ deflate = FALSE /\ cut = FALSE /\ orphan = FALSE
    /\ parser = [d \in Dirs |-> NewParser]
    /\ wire = [d \in Dirs |-> <<>>]
    /\ log = [d \in Dirs |-> <<>>]

-----------------------------------------------------------------------------
(* Readers.  A promise that a chunk resolves runs on before the next chunk *)
(* is delivered (Ready).                                                   *)

Kind(p) == cells[p]
Blanks(s) == {i \in 1 .. Len(s) : Kind(s[i]) = "blank"}

Ready ==
    \/ at \in {"socks", "lead"} /\ held # <<>>
    \/ at = "head" /\ (Blanks(held) # {} \/ Len(held) > MaxHead)

Listening == at \in {"first", "socks", "lead", "head"} \/ hop = "up"

\* readChunk's first chunk: SOCKS by its first byte, else a request's head.
FirstReader(chunk) == IF Kind(chunk[1]) \in {"v5", "v4"} THEN "socks" ELSE "head"

\* A deflated frame is sent once the two have agreed on that.
MayDeflate(stream, chunk) ==
    \A i \in 1 .. Len(chunk) : stream[chunk[i]] \in Deflated => agreed /\ opos >= 2

\* The next n cells arrive in one chunk.  Where no listener is attached the
\* stream, which still flows, drops it.
Arrive(n) ==
    LET chunk == Places(pos, n) IN
    /\ client = "open"
    /\ pos + n <= Len(cells)
    /\ ~Ready
    /\ at # "relay" \/ hop # "up"
    /\ MayDeflate(cells, chunk)
    /\ Listening \/ (Hasty /\ hop = "connecting")
    /\ pos' = pos + n
    /\ at' = IF at = "first" THEN FirstReader(chunk) ELSE at
    /\ held' = IF hop = "none" THEN held \o chunk ELSE held
    /\ wire' = IF hop = "up" THEN [wire EXCEPT !["up"] = @ \o chunk] ELSE wire
    /\ UNCHANGED <<cells, auth, told, client, hop, origin, agreed, opos, live, deflate,
                   parser, log, cut, orphan>>

Say(what) == told' = Append(told, what)

\* The socket is destroyed.
Close ==
    /\ at' = "closed"
    /\ client' = "gone"
    /\ held' = <<>>

Refuses(c) == c \in Refused(cells) \/ (c = "offersNot" /\ auth)
Grants(c) == c \in Granting(cells)

\* Broken: a wrong password is told, and the negotiation goes on.
SocksReadsOn ==
    LET c == Kind(Head(held)) IN
    /\ at = "socks"
    /\ held # <<>>
    /\ ~Refuses(c) \/ c = "badLogin"
    /\ ~Grants(c)
    /\ held' = Tail(held)
    /\ CASE c \in {"offers", "offersNot"} -> Say("method")
         [] c \in {"login", "badLogin"} -> Say("welcome")
         [] OTHER -> UNCHANGED told
    /\ UNCHANGED <<cells, auth, pos, at, client, hop, relay>>

\* negotiateSocks reads a field and goes on to the next.
SocksReads ==
    LET c == Kind(Head(held)) IN
    /\ at = "socks"
    /\ held # <<>>
    /\ ~Refuses(c)
    /\ ~Grants(c)
    /\ held' = Tail(held)
    /\ CASE c \in {"offers", "offersNot"} -> Say("method")
         [] c = "login" -> Say("welcome")
         [] OTHER -> UNCHANGED told
    /\ UNCHANGED <<cells, auth, pos, at, client, hop, relay>>

\* A method, login, command or address that is not accepted: the only one not
\* told so is the address type.
SocksRefuses ==
    LET c == Kind(Head(held)) IN
    /\ at = "socks"
    /\ held # <<>>
    /\ Refuses(c)
    /\ IF c = "badAddr" THEN UNCHANGED told ELSE Say("refused")
    /\ Close
    /\ UNCHANGED <<cells, auth, pos, hop, relay>>

\* The last field: the reader lets go of the socket and of its leftover.
SocksGrants ==
    /\ at = "socks"
    /\ held # <<>>
    /\ Grants(Kind(Head(held)))
    /\ at' = "lead"
    /\ held' = Tail(held)
    /\ Say("granted")
    /\ UNCHANGED <<cells, auth, pos, client, hop, relay>>

\* The options a tunnel meets, which the API may change at any time.
Decryptions == [decryptHttps : BOOLEAN, ignored : BOOLEAN, allow : {"empty", "match", "other"}]
ShouldDecrypt(o) == o.decryptHttps /\ ~o.ignored /\ o.allow # "other"

TunnelTo(o) == IF ShouldDecrypt(o) THEN "tls" ELSE "blind"
\* Broken: the two are mixed up.
ConnectOnSwapped(kind) == at' = "connecting" /\ hop' = kind

ConnectOn(kind) == at' = kind /\ hop' = "connecting"

\* afterSocks: a ClientHello is tunnelled, anything else is a request.
AfterSocks ==
    /\ at = "lead"
    /\ held # <<>>
    /\ IF Kind(Head(held)) = "hello"
       THEN \E o \in Decryptions : ConnectOn(TunnelTo(o))
       ELSE at' = "head" /\ UNCHANGED hop
    /\ UNCHANGED <<cells, auth, pos, held, told, client, relay>>

\* peekRequestHead has the whole head; route() and handleConnect().  A tunnel
\* and a relay keep what came after the head, the others the head as well.
HeadComplete ==
    LET end == CHOOSE i \in Blanks(held) : \A j \in Blanks(held) : i <= j
        method == Kind(held[1])
        after == SubSeq(held, end + 1, Len(held)) IN
    /\ at = "head"
    /\ Blanks(held) # {}
    /\ \/ method = "bad" /\ Close /\ UNCHANGED <<told, hop>>
       \/ /\ method \in {"connect", "connectSelf"}
          /\ Say("established")
          /\ IF method = "connectSelf" THEN ConnectOn("blind")
             ELSE \E o \in Decryptions : ConnectOn(TunnelTo(o))
          /\ held' = after
          /\ UNCHANGED client
       \/ /\ method \in {"get", "self"}
          /\ ConnectOn(IF method = "self" THEN "self" ELSE "http")
          /\ UNCHANGED <<held, told, client>>
       \/ method = "upgrade" /\ ConnectOn("relay") /\ held' = after /\ UNCHANGED <<told, client>>
    /\ UNCHANGED <<cells, auth, pos, relay>>

\* More than MAX_HEAD bytes and no end of the head.
HeadTooLong ==
    /\ at = "head"
    /\ Blanks(held) = {}
    /\ Len(held) > MaxHead
    /\ Close
    /\ UNCHANGED <<cells, auth, pos, told, hop, relay>>

-----------------------------------------------------------------------------
(* Hops.                                                                   *)

\* Broken: the two are piped together, and what is held is forgotten.
HopUpPipesOnly(kind) ==
    /\ at = kind /\ kind # "relay"
    /\ hop = "connecting"
    /\ hop' = IF client = "gone" THEN "closed" ELSE "up"
    /\ held' = <<>>
    /\ UNCHANGED <<cells, auth, pos, at, told, client,
                   origin, agreed, opos, live, deflate, parser, wire, log, cut, orphan>>

\* The connect callback of a bridge, a passage or a blind tunnel: write what is
\* held, then pipe.  A pipe from a socket that has ended ends the hop.
HopUp(kind) ==
    /\ at = kind /\ kind # "relay"
    /\ hop = "connecting"
    /\ hop' = IF client = "gone" THEN "closed" ELSE "up"
    /\ wire' = [wire EXCEPT !["up"] = @ \o held]
    /\ held' = <<>>
    /\ UNCHANGED <<cells, auth, pos, at, told, client,
                   origin, agreed, opos, live, deflate, parser, log, cut, orphan>>

Parsed(d, p) ==
    /\ parser' = [parser EXCEPT ![d] = p]
    /\ log' = [log EXCEPT ![d] = @ \o p.out]

\* The "connect" of the relay's origin: the handshake goes out, then the rest,
\* which a parser of its own captures; then the flow is live.
RelayReady ==
    LET once == Push(NewParser, cells, held, FALSE) IN
    /\ at = "relay"
    /\ hop = "connecting"
    /\ hop' = "up"
    /\ live' = TRUE
    /\ wire' = [wire EXCEPT !["up"] = @ \o held]
    /\ log' = [log EXCEPT !["up"] = @ \o once.out]
    /\ cut' = (once.buf # <<>> \/ once.parts # {})
    /\ held' = <<>>
    /\ UNCHANGED <<cells, auth, pos, at, told, client,
                   origin, agreed, opos, deflate, parser, orphan>>

\* A chunk from the client is relayed, then parsed.
RelayClientData(n) ==
    LET chunk == Places(pos, n) IN
    /\ at = "relay" /\ hop = "up" /\ client = "open"
    /\ pos + n <= Len(cells)
    /\ MayDeflate(cells, chunk)
    /\ pos' = pos + n
    /\ wire' = [wire EXCEPT !["up"] = @ \o chunk]
    /\ Parsed("up", Push(parser["up"], cells, chunk, deflate))
    /\ UNCHANGED <<cells, auth, at, held, told, client, hop,
                   origin, agreed, opos, live, deflate, cut, orphan>>

\* Broken: deflate is switched on when the chunk has been parsed.
RelayOriginDataLate(n) ==
    LET chunk == Places(opos, n)
        frames == Only(chunk, 3 .. Len(origin)) IN
    /\ at = "relay" /\ hop = "up"
    /\ opos + n <= Len(origin)
    /\ agreed \/ \A i \in 1 .. n : origin[opos + i] \notin Deflated
    /\ opos' = opos + n
    /\ wire' = [wire EXCEPT !["down"] = @ \o chunk]
    /\ deflate' = (deflate \/ (agreed /\ opos' >= 2))
    /\ Parsed("down", Push(parser["down"], origin, frames, deflate))
    /\ UNCHANGED <<cells, auth, pos, at, held, told, client, hop,
                   origin, agreed, live, cut, orphan>>

\* A chunk from the origin.  Its first two cells are the response to the
\* handshake; what follows them is parsed, deflated if it agreed to that.
RelayOriginData(n) ==
    LET chunk == Places(opos, n)
        frames == Only(chunk, 3 .. Len(origin)) IN
    /\ at = "relay" /\ hop = "up"
    /\ opos + n <= Len(origin)
    /\ agreed \/ \A i \in 1 .. n : origin[opos + i] \notin Deflated
    /\ opos' = opos + n
    /\ wire' = [wire EXCEPT !["down"] = @ \o chunk]
    /\ deflate' = (deflate \/ (agreed /\ opos' >= 2))
    /\ Parsed("down", Push(parser["down"], origin, frames, deflate'))
    /\ UNCHANGED <<cells, auth, pos, at, held, told, client, hop,
                   origin, agreed, live, cut, orphan>>

Injected == Message({}, FALSE)
Injections == Len(Only(wire["up"] \o wire["down"], {0}))

\* injectWsMessage: write a frame, and record it in the flow.
Inject(d) ==
    /\ live
    /\ Injections < MaxInject
    /\ wire' = [wire EXCEPT ![d] = Append(@, 0)]
    /\ log' = [log EXCEPT ![d] = Append(@, Injected)]
    /\ UNCHANGED <<front, origin, agreed, opos, live, deflate, parser, cut, orphan>>

-----------------------------------------------------------------------------
(* Ends.                                                                   *)

\* The client's socket ends or fails.  A reader that waits gives up, except
\* readChunk, which hears no error, and SOCKS 4's, which takes the missing user
\* or name for an empty one and grants.  A relay hears a close only once it is
\* ready, a blind tunnel never: but its pipe hears the end.
ClientLeaves(error) ==
    LET granted == at = "socks" /\ Has({"v4"}) /\ told = <<>> /\ pos > 1 /\ Kind(pos) # "v4"
        unheard == hop = "connecting" /\ at \in {"relay", "blind"} /\ ~error IN
    /\ client = "open"
    /\ ~Ready
    /\ client' = "gone"
    /\ at' = IF granted /\ ~Has({"bind4"}) THEN "lead"
             ELSE IF hop = "none" /\ ~(error /\ at \in {"first", "lead"}) THEN "closed" ELSE at
    /\ IF granted THEN Say(IF Has({"bind4"}) THEN "refused" ELSE "granted") ELSE UNCHANGED told
    /\ hop' = IF hop # "none" /\ ~unheard THEN "closed" ELSE hop
    /\ live' = (live /\ unheard)
    /\ orphan' = (at = "relay" /\ unheard)
    /\ UNCHANGED <<cells, auth, pos, held, origin, agreed, opos, deflate, parser, wire, log, cut>>

\* Broken: a relay's origin that fails leaves the entry.
HopEndsKeepsLive ==
    /\ hop \in {"connecting", "up"}
    /\ hop' = "closed"
    /\ client' = "gone"
    /\ UNCHANGED <<cells, auth, pos, at, held, told,
                   origin, agreed, opos, live, deflate, parser, wire, log, cut, orphan>>

\* The hop fails to connect, or closes; cleanup and teardown.
HopEnds ==
    /\ hop \in {"connecting", "up"}
    /\ hop' = "closed"
    /\ client' = "gone"
    /\ live' = FALSE
    /\ UNCHANGED <<cells, auth, pos, at, held, told,
                   origin, agreed, opos, deflate, parser, wire, log, cut, orphan>>

-----------------------------------------------------------------------------

Next ==
    \/ \E n \in 1 .. Len(cells) : Arrive(n) \/ RelayClientData(n)
    \/ SocksReads \/ SocksRefuses \/ SocksGrants \/ AfterSocks
    \/ HeadComplete \/ HeadTooLong
    \/ \E kind \in Hops : HopUp(kind)
    \/ RelayReady
    \/ \E n \in 1 .. Len(origin) : RelayOriginData(n)
    \/ \E d \in Dirs : Inject(d)
    \/ \E error \in BOOLEAN : ClientLeaves(error)
    \/ HopEnds

Spec == Init /\ [][Next]_vars

-----------------------------------------------------------------------------

\* Where the part of the stream begins that the next hop is to get: a tunnel
\* and a relay do not get the head that asked for them.
HeadEnd == CHOOSE i \in 1 .. Len(cells) : cells[i] = "blank"
                                          /\ \A j \in 1 .. i - 1 : cells[j] # "blank"
Start == IF Has({"connect", "connectSelf", "upgrade"}) THEN HeadEnd ELSE SocksLength(cells)

\* What the four readers have taken reaches the next hop whole and in order,
\* wherever the chunks were cut: nothing twice, nothing left behind, nothing
\* of the SOCKS or CONNECT handshake (proxy.ts:306-441, socks.ts:47-59).
BytesThreaded ==
    hop = "up" => Only(wire["up"], 1 .. Len(cells)) = Places(Start, pos - Start)

\* A SOCKS client is connected only after it was granted that, a SOCKS 5 client
\* under socksAuth only after its password was right (socks.ts:79-168).
OnlyGrantedRouted ==
    hop # "none" /\ Has({"v5", "v4"}) =>
        /\ \E i \in 1 .. Len(told) : told[i] = "granted"
        /\ auth /\ Has({"v5"}) => Has({"login"}) /\ \E i \in 1 .. Len(told) : told[i] = "welcome"

\* The inspector's list of messages is what went over the wire, each when its
\* last byte did, injected ones among them, in spite of fragments, control
\* frames between them, deflate and cuts; unless the packet of the handshake
\* ended inside a message (ws-frame.ts:234-307, websocket.ts:107-159).
CaptureFollowsWire ==
    at = "relay" /\ ~cut =>
        \A d \in Dirs :
            LET stream == IF d = "up" THEN cells ELSE origin
                written == Only(wire[d], {0} \cup Completing(stream))
            IN  log[d] = [i \in 1 .. Len(written) |->
                            IF written[i] = 0 THEN Injected
                            ELSE MessageAt(stream, written[i], agreed)]

\* A hop does not outlive its client, nor an entry of liveSockets its relay,
\* except the relay of a client that left before the origin was ready: that one
\* stays until the origin ends it (websocket.ts:80-90, 160-161; proxy.ts:390-443).
EndsWithClient ==
    /\ client = "gone" /\ hop = "up" => orphan
    /\ live => hop = "up"

=============================================================================
