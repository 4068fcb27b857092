# cnproxy, verified

TLA+ models of [cnproxy](../src/README.md), an intercepting HTTP(S) proxy with a
web inspector and a desktop shell: what its concurrent parts do, checked with
TLC on small instances, and theorems about them proved with TLAPS for all
instances. `PROJECT.json` lists the runs, the source lines of every definition,
the mutants that each property catches, the findings and the hazards.

    tlc -workers 2 -config Pipeline.cfg MCFlowPipeline     # a run
    tlapm BridgeProofs.tla                                 # a proof

## 1. Inventory

cnproxy is one Node process (`src/src`, started by `src/bin/cnproxy.ts`). Its
JavaScript runs on one event loop: code between two `await`s or in one callback
is atomic, and everything hard about it comes from what may happen in between.
Around it are browser pages, origins, and (in the desktop application) a Tauri
shell that spawns and kills the process.

| component | state | operations | talks to |
|---|---|---|---|
| flow store `flow/store.ts` | array of flows, id map, `max` | add, remove, clear, setMax/trim, events | everyone below |
| exchange pipeline `core/request-handler.ts`, `core/h2-handler.ts`, `flow/flow.ts` | one Flow object per exchange: request, response, error, breakpoint promise | handle a request (HTTP/1, HTTP/2), replay, intercept, resume, kill | store, rules, addons, upstream, client |
| front and bridges `core/proxy.ts` | `connMeta` by source port, sockets | peek, route, CONNECT, bridge into the TLS and HTTP servers | SOCKS, relay, pipeline |
| SOCKS, head peeking `core/socks.ts`, `core/head-parser.ts` | bytes read so far | negotiate, peek | front |
| WebSocket relay `core/websocket.ts`, `core/ws-frame.ts` | live sockets, parser buffers | relay, capture, inject | store, origins |
| upstream client `core/upstream.ts` | ALPN cache, HTTP/2 session pool, keep-alive agents | send, negotiate, retry, time out | pipeline, origins |
| rules, filters, encodings `rules/*.ts`, `core/encoding.ts` | parsed rules, compiled predicates | applyRequest, applyResponse, match, decode | pipeline |
| auto-save and sessions `core/proxy.ts`, `flow/session.ts` | dirty flag, timer, `auto.cnp`, named files | load at start, timed save, save at stop, save/load by name | store, disk, page |
| inspector API `web/server.ts` | sockets of open pages | resume, kill, edit, mark, delete, clear, options, sessions, replay | store, flows, options |
| inspector page `web/ui/app.js` | its copy of the flow list, selection, detail | snapshot, add, update, clear; click, select, mark, delete | API, over WebSocket and HTTP |
| certificate authority `cert/ca.ts`, `util/lru.ts` | root key and certificate on disk, leaf cache | init, mint, get | TLS server, shell |
| desktop app `cnproxy-app` | sidecar process, system proxy, trust store | launch, toggle, quit, install certificate | the Node process |
| addons, composer, workspace, HAR, diff | none shared | conversions and hooks | API |
| Rust core `cnproxy-core` | flow map and order under locks | add, update, remove, clear | nothing in the repository yet |

Behaviours that are hard, and what makes each part correct:

* **Exchanges and operators interleave.** A flow may be paused while rules
  already decided to delay, block or answer it, while its client leaves, and
  while the operator resumes, kills, edits, deletes or clears it. Nothing may
  leave while it is paused; a kill sends nothing; a decision stands; every
  accepted exchange ends; the inspector is told how.
* **The store is a ring and a map.** They must agree through evictions, option
  changes, deletions and session loads, although a session load swaps flows in
  the pipeline for copies that have the same ids.
* **Scheme and target travel beside the connection.** `connMeta` is set in one
  socket's connect callback and read in three of another's; a request must be
  handled under its own connection's entry.
* **A socket has many readers.** Four pieces of code read the front of a
  connection one after another, each with a buffer of its own, for any cut of
  the stream into chunks: no byte may be lost, doubled or sent to the wrong hop.
* **What upstream remembers gets stale.** A cached protocol, a pooled session or
  an idle connection may be dead when it is used: that must cost one retry, never
  a failed request, and never a third delivery.
* **Saving is deferred, and kills come any time.** A flag, a timer, writes that
  fail or are cut, a shutdown that awaits in the middle, a shell that only ever
  uses SIGKILL: no announced change may be forgotten, the system proxy must not
  outlive the application, and two roots must never be mixed.
* **The page is a replica.** It hears events over a connection that drops, and
  answers over another that has no order with it.
* **Rewriting has layers.** Filters, rules, edits, decoding and streaming each
  touch body and headers; the bytes must stay what their head says.

The hazards, each at its line and with the properties that would catch it going
wrong, are in `PROJECT.json`.

## 2. Modules

| module | models | run module | proofs |
|---|---|---|---|
| `FlowStore` | `flow/store.ts`; `loadSession`'s effect on it | `MCFlowPipeline` | `FlowPipelineProofs` |
| `FlowPipeline` (extends `FlowStore`) | both handlers, replay, breakpoints, streaming, the operator's API | `MCFlowPipeline` | `FlowPipelineProofs` |
| `Bridge` | `core/proxy.ts`, from the routed connection to the request handlers | `MCBridge` | `BridgeProofs` |
| `Front` (extends `WsFrames`) | from the first byte of a connection to its hop: `core/proxy.ts`, `socks.ts`, `head-parser.ts`, `websocket.ts` | `MCFront` | `FrontProofs` |
| `WsFrames` | the frame parser, `core/ws-frame.ts` | `MCFront` | `FrontProofs` |
| `Subsequences` | parts of a sequence, for `WsFrames`, `Front` and `Inspector` | `MCFront`, `MCInspector` | `SubsequenceProofs` |
| `Delivery` | what `sendUpstream` promises, abstractly | | |
| `Upstream` (refines `Delivery`) | `core/upstream.ts` | `MCUpstream` | `UpstreamProofs` |
| `AutoSave` | auto-save in `core/proxy.ts`, `flow/session.ts`, `bin/cnproxy.ts`; the page's saves and load | `MCAutoSave`, `MCDesktop` | `DesktopProofs` |
| `Desktop` (extends `AutoSave`) | `cnproxy-app/src-tauri/src/lib.rs`, the files of `cert/ca.ts` | `MCDesktop` | `DesktopProofs` |
| `Inspector` | `web/ui/app.js` against `web/server.ts` | `MCInspector` | `InspectorProofs` |
| `Filter` | `rules/filter.ts`, parser and grammar | `MCRewrite` | `RewriteProofs` |
| `Rewrite` (extends `Filter`) | `rules/engine.ts`, `core/encoding.ts`, edits, and the writing of messages | `MCRewrite` | `RewriteProofs` |

Operators whose comment starts with "Broken:" are never used by the
specifications. They are the plausible bugs the properties are tested against.
One constant gives a choice that is not a bound: `Hasty` (`Front`), explained below.

### FlowStore and FlowPipeline

A flow is an id. `byId[i]` tells which object a lookup finds: none, the object
the handler holds (`live`), or one read back from a session (`copy`). The
distinction matters because `resume()` on a copy does nothing: the promise
belongs to the other object.

`pc[f]` is the `await` at which f's handler is suspended:

| `pc` | suspended in |
|---|---|
| `reqBody` | `collectBody(clientReq)` and the hooks around it |
| `reqPaused` | `await flow.intercept()` before the upstream |
| `delayed` | `await sleep(directive.delayMs)` |
| `upstream` | `await sendUpstream(...)` |
| `resBody` | `await collectBody(upstreamRes)` |
| `resPaused` | `await flow.intercept()` before the relay |
| `streaming`, `stalled` | `await streamResponse(...)`; stalled when `write` returned false and the origin is paused |

An action is the code from one of these to the next. The handlers share the
actions; where they differ the action says so: only HTTP/1 refuses a target that
does not parse and returns from a block without an event, only HTTP/2 looks at
`stream.closed`, a replay has no client, no breakpoint and no delay. The data is
abstracted: `directive` is what `applyRequest` returned, `stage` how far the
flow's fields have got, `seen` the summary in the last event about it, `reply`
what the client got. A request filter that is on (`breakReq`) matches every
exchange. The response filter is asked twice, before the body to choose streaming
and after rules and hooks to pause, and rules and hooks change status and headers
in between: each time it says what it likes (`Verdicts`), and `caught` is what it
said last. What rules, filters and edits do to messages is `Rewrite`'s. Addon
hooks are part of the step they are called in.

`Resume`, `Kill` and `Touch` (edit, mark) are unlimited. The operations that
change the store or the options are budgeted by `OpBudget`, which keeps saved
sessions and repeated loads from multiplying the states.

### Bridge

A hop is one loopback connection into an internal server: a `tls` hop for a
tunnel, an `http` hop for a request. What a connection is shows in its actions:
`kind` is settled by its first bytes (`RouteFront`), `alpn` by the handshake
inside (`SecureConnection`), and a decrypted http/1.1 tunnel takes both hops in
turn. Each hop has two ends (`bridge`, `server`) whose connect, accept, data and
close callbacks come in any order the kernel allows.

The kernel gives a hop any source port that no live hop to the same server has.
It knows nothing of `connMeta`, and a TCP connection is identified by both ends,
so two hops to different servers may share a port, and a hop may get one whose
entry an earlier hop left: the cleanup that follows the bridge's own `close` event
finds `localPort` undefined and deletes nothing (`BridgeCloses`). `clashed` are the
hops such a thing happened to. `OwnMetaUnlessClash` says that there is no other way
to a wrong scheme or target, and the run `bridge_ports` that this one is real
(finding 3). Blind tunnels, plain WebSocket
handshakes and the passage to the inspector never enter `connMeta` and are one
outcome of `RouteFront`; a CONNECT inside a decrypted tunnel is left out.

### Front and WsFrames

One connection, and everything it may say: a sequence of cells, a cell being
what one read or search of the code takes. TCP cuts the stream between any two.
`at` is the reader that has the socket (`first`, `socks`, `lead` after a SOCKS
grant, `head`) or the hop it was given to; `held` are the cells read and not
handed on. A promise that a chunk resolves runs on before the next chunk arrives
(`Ready`). With `Hasty = FALSE` no bytes arrive between the last reader's letting
go and the hop's connect callback; with `TRUE` they do, and are lost (finding 2).
Options that decide on decryption may differ at each tunnel, since the API can
change them.

The relay has two parsers, and a third, thrown away, for what came with the
handshake. `WsFrames` gives the parser (`Push`) and, without buffers, what a
stream says (`MessageAt`); `CaptureFollowsWire` compares the two under all
chunkings, fragments, control frames between them, deflate and injection.
Masking, lengths and the deflate context are abstracted; an injected frame goes
between two cells, and may split a frame that is half relayed: that is real, and
no property forbids it.

### Upstream and Delivery

One origin and a number of requests under way. `leg` is the place in
`sendUpstream`, `negotiateAndSend`, `getH2Session` or the proxy tunnel that a
promise waits at. `broken` says its connection can never bring an answer, which
the client learns later or only by its timer. The origin restarts (with either
protocol), closes what is idle at the worst moment, and answers or not.
`KeepsPromise` is the refinement: with `sent` for `tries` and the settled legs for
`outcome`, every step is one of `Delivery` or a stutter.

`Timed` are the legs that a timer ends: those on an agent's socket. The agent arms
its sockets; `negotiateAndSend` passes one of its own through `createConnection`,
on which Node adds a "timeout" listener and nobody calls `setTimeout`. `lost` is
the end of a request whose HTTP/2 session is destroyed or closed without an error:
its stream gets "close", `dispatchH2` listens for "error", and the promise waits for
ever. `StaleCostsOneRetry` says that a request over TLS does not *fail* unless the
origin restarted or was late; that it *ends*, lost or not, is `TlsRequestsEnd`.

### AutoSave and Desktop

A flow is a version number, zero if it is not in the capture, so `memory` and
`disk` can be compared. A write succeeds, fails before truncating the file, or
leaves any part of it (`Torn`: the real part is a prefix, the model allows more).
`unheard` are the flows changed without an event the auto-saver listens to; the
code has two such changes, the `intercept` event and eviction by a lower
`maxFlows`. `draining` is the time between the final write and `process.exit`: at
most 300 ms, so the two-second timer armed in it never fires. The page saves the
same file by itself, by beacon when it closes, and loads a session when it opens;
its list and load are one step.

`Desktop` puts the shell around it. `sidecar` follows the child process through
the two writes of its root (`init`, `halfway`) to `up`, where its steps are
`AutoSave`'s. The shell ends it only by SIGKILL, on which no handler runs: `Crash`.
Commands that set the system proxy can fail, and nobody looks (`unknown`).
`early` marks a certificate that was installed before its key was written.

### Inspector

A flow is an id; its contents are numbered as they come up. `ver` is the content of
the object that the store has, `told` the one announced last. `Announce` is a
change with its event; `Touch` a change that no event carries, the pause above all:
the `intercept` event is serialised before the flow is marked. `LoadSession` puts a
saved copy in a flow's place, announced as `clear` and `add`; an exchange under way
goes on with the object it had (`copied`), whose later changes are still announced.
Other pages and API clients act on the store at any time. Events come in order over
one WebSocket that may drop and come back with a snapshot; answers to the page's
HTTP requests come in any order.

What a page shows may be the store's content or anything announced last or later
(`Current`): of a paused flow the row is stale until the next event. Three races the
code loses are recorded, and the properties except them by name: `meddled`, a
selection that changes under a batch deletion (the page's list and map then
differ); `behind`, answers that overtake each other, a reconnect, or a load, after
which the open detail is not asked for again (`app.js:53-56`); and `lost`, a load that
overtakes the answer of a deletion, which takes the row of a flow that is back.

### Filter and Rewrite

`Filter` has the tokenizer, the recursive-descent parser and, declaratively, the
grammar they should follow (`Meanings`). The parser is one recursive function, a
table over the level and the place; a loop of the code is its first operand and
what a loop started after the sign gives, which is the same because `&&` and `||`
associate. The grammar is a table over the kind and the extent. `Rewrite` takes one
exchange through rules, both breakpoints, edits, encodings, streaming and
writing. Bytes are a text with a coding; a content-length is the bytes it was
computed for. The options stay what they are during an exchange, one filter
stands for both breakpoints, and one value for each operator's operand. The
line parser of the rule file is not modelled. A mock is a response like any: after
the request's rules have made it, it passes the response's rules before it is
written, and `MockIsLayered` is about the reply that comes of both.

## 3. Runs

| run | instance | distinct states | shows |
|---|---|---|---|
| `pipeline` | an HTTP/1 and an HTTP/2 exchange, limits 1 and 2, one store or option operation | 1.5 M | breakpoints, rules, replies, announcements |
| `pipeline_store` | an HTTP/1 exchange and a replay, two operations with sessions | 0.34 M | store through sessions; every exchange settles |
| `bridge` | two connections of any kind, four ports | 0.93 M | own scheme and target unless ports clash; an open connection is handled |
| `front` | one of 16 clients, two origins, heads up to 3 cells, one injection | 0.14 M | bytes threaded, SOCKS grants, capture, teardown |
| `upstream` | two requests, two sessions, one restart | 0.58 M | refinement of `Delivery`; stale costs one retry; the pool is live; a request over TLS ends or is lost |
| `desktop` | one flow, two versions, two roots | 0.41 M | saves, system proxy, roots; what is announced reaches the disk |
| `inspector` | two flows; three changes, session loads, drops or acts of the operator | 0.23 M | the replica converges; rows, detail |
| `rewrite` | every list of two rules of 16 operators and 3 patterns; every filter shape up to three operands | 3.0 M | filters, encodings, replacements, mocks |
| `paused_resumable` | two exchanges, a store of one | violation | finding 1 |
| `front_hasty` | as `front`, bytes before the hop is connected | violation | finding 2 |
| `bridge_ports` | two connections, two ports | violation | finding 3 |
| `page_oldest` | one flow | violation | finding 4 |

Each passing run takes from a quarter of a minute to three minutes with
two workers.

**Why the bounds are enough.** Exchanges meet only in the store (one evicts
another) and, for a replay, in the lookup of its source, so two show every kind
of meeting; a limit of one makes every arrival evict. `OpBudget` 1 with
everything else unlimited meets each store operation at each suspension; 2 with
sessions is a save and a load around any step. Two connections of any kind can
clash over a port or an entry in every way two can, and four ports serve their
four hops; ports that no hop has had yet are all alike, so a constraint takes them
in order, which loses no behaviour but for a renaming of ports. A connection's readers share nothing with another connection's, so
`front` has one; its clients cover every field that SOCKS 4, 4a and 5 read, every
refusal, and heads one cell below, at and above `MaxHead`, and its streams have every kind of
frame, interrupted by control frames. Two requests and two sessions show a
first pair racing for the pool and a session closing under another's; one
restart with unlimited idle closes makes any memory stale, and requests are
renewed without bound. Two versions show a change between marking and writing,
two roots one of each of two attempts (`Fresh # {}` bounds generations). For the
page, any three of two changes, a load, a drop and three acts meet every order of an
event with an answer (`FewDoings`; what is fair takes none of these, so no fair
behaviour is cut); `MaxChan` bounds messages under way but for those of the page's own doing. A
rule pair has an earlier and a later rule for each two operators. Deadlock is
checked where the system never stops (`desktop`: it can always be launched
again, and `page_oldest`); exchanges, connections and bounded pages do come to an
end, so the other configurations say `CHECK_DEADLOCK FALSE`.

**Fairness.** *Pipeline:* `Continue(f)` is fair because the event loop runs every
continuation whose promise has settled; for `reqBody` it assumes that a client
finishes its body or goes away. `UpstreamSettles(f)` is fair only for the
exchanges in `Timed`, those with the idle timeout of `upstream.ts` on their
socket; an origin that trickles bytes for ever is not considered. `Decide(f)` is
an assumption about the operator, not the code: a paused flow that the API can
find is decided eventually. Nothing makes a client read. *Bridge:* libuv delivers pending
callbacks, and a client that has connected sends what its protocol begins with, a
ClientHello or a head; no one need close. *Upstream:* a connection that was begun
opens or fails, an origin that is up answers what reaches it, and a broken
connection is noticed or times out; without this half of it a request over TLS
waits for ever, because only an agent's sockets have a timer. The fair closes of
sessions only return their identities, of which the code has as many as it asks for. *AutoSave, Desktop:* timers fire and a
stop that has begun runs to its end (done hooks return); no start, click or kill is
fair. *Inspector:* the WebSocket delivers what is sent over it, and the page's
reconnect timer fires; answers over HTTP need not come.

### Findings

Each is a violation run; the quotes are in `PROJECT.json`.

1. `paused_resumable`: eviction, deletion and clearing do not spare paused flows;
   the API then answers 404 while their handlers wait for ever.
2. `front_hasty`: taking the last `data` listener off a socket does not pause it.
   What the client sends between the last peek and the next hop's connect
   callback is read and emitted to nobody. A client that pipelines, or a
   ClientHello in two packets, can lose bytes to it.
3. `bridge_ports`: two bridges to different internal servers are given one source
   port, the later entry overwrites the earlier, and a plain request is handled as
   https to a tunnel's target, where `proxy.ts:195` says the entry "is always present".
4. `page_oldest`: the page loads the last of a list that is sorted newest first,
   so it replaces the capture by the oldest session instead of the latest.

### Observations

What the models showed that the code does without contradicting what it says:

* The `intercept` event is serialised before the flow is marked, so the row does
  not show the pause until the next event (`request-handler.ts:109`, `:200`).
* The response filter is asked before and after the rules. `~c 500` with the rule
  `~c 500 status://200` matches the first time and not the second: the response is
  buffered and relayed unpaused. One that matches only after the rules, or only on
  the body, does not hold a response that is streamed. `FilterVerdictHolds` is
  about the answer it gave last.
* `buildHeaders` forwards the client's content-length although the body has been
  decoded, or changed by a rule or an edit (`upstream.ts:72`; the comment at `:76` has
  the agent set it).
* A request on an HTTP/2 session that goes without an error (a reset of the pool, a
  FIN) is never settled (`upstream.ts:136-194`), although `:58` calls the reset
  harmless at runtime. A silent origin behind the first HTTP/1 request over TLS has
  no timer either (`upstream.ts:245`, `:329`).
* After a session load an open detail is not fetched again (`app.js:53-56`); a load
  that overtakes a deletion's answer costs the page the row (`app.js:540-557`).
* A status rule that also matches its mock in the response phase has the last word
  on the status, even over a redirect that follows it.
* `resReplace` over an encoding the proxy cannot decode (zstd), or over binary data,
  passes the bytes through a UTF-8 string and mangles them. A `zstd` request that
  is edited keeps its content-encoding. Setting content-encoding by a rule or an
  edit does not encode.
* `resHeaders` and a status rule short-circuit the upstream when they match in
  the request phase (`engine.ts:20`); of two mocks the first's content-type stays
  with the second's body; the HTTP/2 handler strips content-encoding of mocks.
* A client that leaves a relay before its origin is ready leaves the upstream
  socket behind, and its entry is revived (`websocket.ts:160`; `orphan`).
* A kill in the middle of writing `ca.key` leaves a file that does not parse, and
  every later start fails; `Desktop` reaches it, and nothing in the code repairs it.
* A sidecar that ends by itself leaves the system proxy pointing at its port, and
  a toggle before it is ready points it at port 0.
* The shell's `cnproxy-ready` event is missed by a page that does not listen yet or
  that was reloaded (`lib.rs:482`, `app.js:1072`), and the page in Tauri reads
  `ws.onmessage` before `connect()` has made a socket (`app.js:1184`).

## 4. Proofs

Every safety property that a passing run checks is also a theorem.

| module | theorems | inductive invariant |
|---|---|---|
| `FlowPipelineProofs` | `TypeOK`, `RingBounded`, `ListMatchesMap` | `StoreIInv` |
| | `NothingLeavesWhilePaused`, `KilledGetsNoBytes`, `OriginSparedByRules`, `DecisionStands` | `BreakpointIInv` |
| | `FilterVerdictHolds`, `OutcomeAnnounced`, `ReplyOnlyAdvances` | `EndIInv` |
| `UpstreamProofs` | `StaleCostsOneRetry`, `PoolIsLive`, the refinement `KeepsPromise` | `UpstreamInv` |
| `BridgeProofs` | `TypeOK`, `OwnMetaUnlessClash` | `BridgeInv` |
| `DesktopProofs` | `TypeOK`, `SavedOrScheduled`, `CleanStopSaves` of `AutoSave` | `IInv` |
| | `DesktopSpec => Spec`, `SavedOrScheduled` under the shell, `DesktopTypeOK`, `ProxyClearedWithApp`, `SigningRootIsOnDisk`, `TrustedRootSigns` | `DesktopInv` |
| `FrontProofs` | `TypeOK`, `OnlyGrantedRouted`, `EndsWithClient`; for a client that is not hasty `BytesThreaded`, `CaptureFollowsWire`; `PushReads` | `ReadInv`, `SocksInv`, `EndInv`, `FreshInv`, `HopInv`, `RelayInv`, `DeflateInv`, `CaptureInv` |
| `InspectorProofs` | `TypeOK`, `RowsListed`, `ShowsEveryFlow`, `DetailRefreshes` | `Sound`, `ListedInv`, `SyncInv`, `DetailInv` |
| `RewriteProofs` | `FilterCompilesMeaning`; `TypeOK`, `FilterReadsAsWritten`, `NeverHalfEncoded`, `ReplaceAlwaysApplies`, `MockIsLayered` | `RewriteInv` |
| `SubsequenceProofs` | lemmas on induction, recursion and parts of sequences | |

The theorems assume what the modules state of their constants: that maxFlows takes
natural numbers, that the three kinds of exchange are disjoint, that None is no
session, connection, port or root, what the clients and origins of `Front` can say
(`FrontAssumption`), that the options of `Rewrite` are rules and a filter of their types. They assume nothing about
how many exchanges, requests, connections, messages, flows, rules, roots or
restarts there are. With the runs' small instances this is the division of labour:
TLC finds what is wrong, the proofs remove the bounds. Every inductive invariant
was checked by TLC on the run's instance before it was proved.

*The store.* Every operation preserves types, `RingBounded` and `ListMatchesMap`.
The main lemma is about `trim`: a suffix of a sequence without repetitions has
none, its length is within the bound, and what was dropped is not in it. Adding a
flow preserves agreement only if it is not there yet, and loading a session only
if the session repeats no id. Hence the strengthening: an exchange that has not
been accepted is in neither the store nor a session (`IdleUnseen`), and a session
has no repetitions.

*Breakpoints and outcomes.* None of the properties is inductive: each depends on
where the handler stands. `Possible` tabulates, for each suspension, which
decision, send and reply may have happened by then; `BreakpointIInv` says that
every exchange is in the table. A step moves one exchange from one row to another
and leaves all others alone. For the outcomes the same steps are classified by what
they do to their own exchange (it returns, waits, streams, or is over), and that
classification gives `EndIInv` and the action property at once.

*Upstream.* A request's number of sends is a function of its leg, up to the retry
(`CountInv`); past the retry only a restart of the origin, or its being late, can
break its connection (`SoundInv`). The second needs that a session somebody opens or has
made for himself is nobody else's and not the pool's (`SessionInv`), since the
origin may close the pool's at any time. Every step is then mapped to a step of
`Delivery` or to a stutter, leg by leg.

*Bridge.* A live hop that has not clashed shares its port with no other (`PortInv`),
so the entry of its port is what it has recorded, or nothing yet (`EntryInv`); and
while nothing on a connection's way has closed, what was copied from the entries is
its own (`CopyInv`). `ShapeInv` says which hops a connection has by its kind and
protocol. Nothing is assumed of the kernel but that it keeps apart the hops to one
server.

*Saving and the shell.* `SavedOrScheduled` is inductive together with the types:
the lemma is what a write leaves out. Every step of the application is a step of
the process or a stutter, because a kill is a crash, so what holds of `AutoSave`
holds under the shell. For the roots, `CaInv` adds that a key is only ever written
beside its own certificate, and for the system proxy `ShellInv` adds that it is on
only where the flag says so.

*Front.* The invariants build on one another. `ReadInv` says that a reader holds
just what has arrived since the cells it took, `SocksInv` what the replies
already sent let one conclude about the negotiation, `EndInv` who knows of whose
end. `FreshInv` and `HopInv` follow the bytes: what the hop was given is the
stream from the hop's start, less what is still held for it. This is where a
client must not be hasty: with `Hasty` it is false (finding 2), and types, SOCKS
and teardown are proved for both. The messages need a fact about the parser alone,
`PushReads`: if a parser is somewhere in a well-framed stream, what `push` returns
for the next chunk are the messages which that chunk completes, wherever it was
cut, and the parser is then somewhere further. `RelayInv` and `DeflateInv` say
that streams are framed and that compression was agreed on; `CaptureInv` follows.

*Inspector.* The page lags behind the store by what is on its way, so the two are
compared through it: `After(p, messages)` is the page p once it has handled the
messages. `SyncInv` says that a connected page, after all of `chan`, shows the
store (`Mirrors`), each flow with one of the contents that will do (`Goods`). A change in the store that is announced adds one message to the
end and is mirrored by it; the hard steps are those that the page makes on its
own (a deletion that is answered), since they come before messages already under
way, and the lemma is that they commute with them. A session load empties and refills both,
and what it brings back under a deletion is `lost` until something still on its way
resets the page (`Whole`, and `Exact` for the order). Rows and map agree as long as the
selection does not change under a batch deletion (`ListedInv`). `DetailInv`: unless
it is `behind`, the detail is one that will do, or a message still to come will have
it fetched or will leave it behind, or the last request under way will be answered
with such a content.

*Filters.* The parser calls itself at the same place and at later ones, so its
table exists by recursion on a distance that weighs levels against places; the
grammar's by a weight of extent and kind. Then, by induction on the extent: each
part of the tokens that the grammar gives a meaning is read by the parser from
its first place up to its end, and to that meaning, provided that what follows
does not continue it. Hence an expression has no two meanings, and the compiled
predicate is its meaning if it has one. Expressions the grammar has no meaning
for (the parser is lenient) are not spoken of.

*Rewriting.* What rules do is a fold over their list, so the lemmas are by
induction over the rules applied so far: which parts of a request can still
change, that a body replaced stays replaced, and that of the rules that matched the
request the last one to name a status decides the mock's, as the last with a body
does the body; then, over the response rules, that a body only changes by
replacement and a status only by a status rule that matches (`MockIsLayered`). `TypeOK` is proved and is no property of the run.
`NeverHalfEncoded` depends on how a reply came about (mock, streamed, buffered),
and `ResponseInv` says what is known of the message in each. A proof attempt found
two CASE expressions whose guards overlapped, whose value TLA+ leaves open and
TLC takes to be the first; they are IF expressions now.

*Sequences and recursion.* The library's induction theorems take an operator for
a parameter and cannot be used here. `SubsequenceProofs` derives induction from
the well-foundedness of the naturals, and says it of sets of numbers and sets of
sequences, which need no operator; from it that a function defined by recursion
exists and satisfies its equation, and what `Only`, `Places` and an accumulation
over a sequence do.

**Only model-checked** is liveness (`EveryExchangeSettles`,
`EveryConnectionHandled`, `TlsRequestsEnd`, `VersionReachesDisk`, `CatchesUp`), which
with ENABLED is out of the prover's reach. Not claimed, because false, are
`BytesThreaded` and `CaptureFollowsWire` for hasty clients and `OwnMetaWhileOpen`.

## 5. Not modelled

* In the modelled parts: header and trailer contents and the 101 path of the
  pipeline; a CONNECT inside a decrypted tunnel; certificates per host and their LRU
  cache; masking, lengths and deflate contexts of frames; the rule file's line
  parser; an edit's await between lookup and change (a hazard no property covers);
  two processes that share `~/.cnproxy`; a crash of the shell itself; window menus
  and the mobile VPN; the page's composer, editors, virtual scrolling and QR code.
* Addons are user code; their hooks are part of the step they are called in.
* Composer, workspace, diff, HAR, cURL and Postman conversion are sequential and
  share no state. The Rust core is wired to nothing, and its proxy is a stub.
* Cryptography, codecs, the network and the system's own proxy commands are
  outside: their outcomes are nondeterministic choices.

## 6. Plan

Open, the most valuable first:

1. An edit that awaits its body between lookup and change, composed with
   `FlowPipeline`.
2. `LruCache` against an abstract recency order.
3. Two processes on one data directory: the session file and the root.
