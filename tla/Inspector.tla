------------------------------- MODULE Inspector -------------------------------
(***************************************************************************)
(* A page of the inspector (src/web/ui/app.js) and the server it looks at  *)
(* (src/web/server.ts).  The page gets a snapshot and then events over a   *)
(* WebSocket, asks for the detail of the selected flow and acts what the  *)
(* operator does over HTTP; the two channels, and two requests, have no    *)
(* order between them.                                                     *)
(*                                                                         *)
(* Contents of a flow are numbered as they come up.  The store changes its *)
(* objects with and without an event; a session load puts copies in their  *)
(* place, and an exchange under way goes on with the object it had.  Other *)
(* pages and API clients act on the store at any time.                     *)
(***************************************************************************)
EXTENDS Naturals, Sequences, FiniteSets, SequencesExt, Functions, Subsequences

CONSTANTS
    NumFlows,   \* how many flows there will be
    MaxFlows,   \* the option maxFlows
    MaxChanges, \* bound on changes and announcements of flows
    MaxLoads,   \* bound on session loads
    MaxDrops,   \* bound on losses of the page's connection
    MaxChan,    \* bound on messages on their way before the server sends for others
    MaxReqs,    \* bound on requests under way before the operator makes another
    MaxActs     \* bound on what the operator does

ASSUME InspectorAssumption ==
    /\ NumFlows \in Nat /\ MaxFlows \in Nat \ {0}
    /\ MaxChanges \in Nat /\ MaxLoads \in Nat /\ MaxDrops \in Nat
    /\ MaxChan \in Nat /\ MaxReqs \in Nat /\ MaxActs \in Nat

Flows == 1 .. NumFlows      \* ids, in the order of arrival
None == 0

VARIABLES
    list,       \* the store's flows, oldest first
    ver,        \* the content of the object that the store has, or had last; 0: none yet
    told,       \* the content that was announced last
    copied,     \* flows whose object is a session's: an exchange has another
    changes,
    loads,
    link,       \* the page's WebSocket: "unopened", "up" or "down"
    chan,       \* messages on their way to the page
    drops

VARIABLES
    rows,       \* state.flows: the content the page has; 0 if it has none
    order,      \* state.order
    selected,   \* state.selected
    picked,     \* state.selectedIds
    detail,     \* what the detail pane shows: a flow and its content
    reqs,       \* requests of the page, oldest first
    acts,
    behind,     \* whether the detail may lag (see DetailRefreshes)
    lost,       \* whether the answer of a deletion took rows of flows loaded since
    meddled     \* whether the selection changed under a batch deletion

server == <<list, ver, told, copied, changes, loads>>
wire == <<link, chan, drops>>
page == <<rows, order, selected, picked, detail, acts, behind, lost, meddled>>
vars == <<list, ver, told, copied, changes, loads, link, chan, drops,
          rows, order, selected, picked, detail, reqs, acts, behind, lost, meddled>>

Stored == ToSet(list)
Seen == {f \in Flows : ver[f] > 0}
Shown == {f \in Flows : rows[f] > 0}
NoDetail == [flow |-> None, ver |-> 0]

\* A request: what it asks, of which flows, and the answer.
Request(kind, flows) == [kind |-> kind, flows |-> flows, answered |-> FALSE, ver |-> 0]

Summaries == [flow : Flows, ver : Nat \ {0}]
Messages == [type : {"snapshot", "add", "update", "removed", "clear"}, flows : Seq(Summaries)]
Requests == [kind : {"detail", "mark", "delete", "batch"}, flows : SUBSET Flows,
             answered : BOOLEAN, ver : Nat]

TypeOK ==
    /\ list \in Seq(Flows) /\ order \in Seq(Flows)
    /\ Len(list) <= MaxFlows
    /\ ver \in [Flows -> Nat] /\ told \in [Flows -> Nat] /\ rows \in [Flows -> Nat]
    /\ copied \subseteq Flows
    /\ changes \in 0 .. MaxChanges /\ loads \in 0 .. MaxLoads
    /\ link \in {"unopened", "up", "down"}
    /\ chan \in Seq(Messages)
    /\ drops \in 0 .. MaxDrops /\ acts \in 0 .. MaxActs
    /\ selected \in Flows \cup {None}
    /\ picked \subseteq Flows
    /\ detail \in [flow : Flows \cup {None}, ver : Nat]
    /\ reqs \in Seq(Requests)
    /\ behind \in BOOLEAN /\ lost \in BOOLEAN /\ meddled \in BOOLEAN

Init ==
    /\ list = <<>>
    /\ ver = [f \in Flows |-> 0] /\ told = [f \in Flows |-> 0]
    /\ copied = {} /\ changes = 0 /\ loads = 0
    /\ link = "unopened" /\ chan = <<>> /\ drops = 0
    /\ rows = [f \in Flows |-> 0] /\ order = <<>>
    /\ selected = None /\ picked = {}
    /\ detail = NoDetail /\ reqs = <<>>
    /\ acts = 0 /\ behind = FALSE /\ lost = FALSE /\ meddled = FALSE

-----------------------------------------------------------------------------
(* The server.                                                             *)

\* Broken: a summary of what the flow was before.
SummaryBefore(f, v) == [flow |-> f, ver |-> ver[f]]

Summary(f, v) == [flow |-> f, ver |-> v]

\* broadcast: to the sockets that are open.
Broadcast(type, flows) ==
    chan' = IF link = "up" THEN Append(chan, [type |-> type, flows |-> flows]) ELSE chan

Room == Len(chan) < MaxChan
MayChange == changes < MaxChanges

\* A content of its own.
Fresh(f) == 1 + (IF ver[f] < told[f] THEN told[f] ELSE ver[f])

\* The store's trim drops the oldest without a word.
Trimmed(flows) ==
    IF Len(flows) > MaxFlows THEN SubSeq(flows, Len(flows) - MaxFlows + 1, Len(flows)) ELSE flows

\* The store adds a flow.
Add(f) ==
    /\ f \notin Seen
    /\ \A g \in 1 .. f - 1 : g \in Seen
    /\ Room
    /\ ver' = [ver EXCEPT ![f] = 1] /\ told' = [told EXCEPT ![f] = 1]
    /\ list' = Trimmed(Append(list, f))
    /\ Broadcast("add", <<Summary(f, 1)>>)
    /\ UNCHANGED <<copied, changes, loads, link, drops, page, reqs>>

\* An exchange changes its flow and says nothing yet, as when a body has come
\* or the flow is marked as paused after the "intercept" event was sent.
Touch(f) ==
    /\ f \in Seen \ copied
    /\ MayChange
    /\ changes' = changes + 1
    /\ ver' = [ver EXCEPT ![f] = Fresh(f)]
    /\ UNCHANGED <<list, told, copied, loads, wire, page, reqs>>

\* An exchange announces its flow, whether or not the store still has it; that
\* may be another object than the store's by now.
AnnounceAs(f, v) ==
    /\ f \in Seen
    /\ MayChange /\ Room
    /\ changes' = changes + 1
    /\ told' = [told EXCEPT ![f] = v]
    /\ Broadcast("update", <<Summary(f, v)>>)
    /\ UNCHANGED <<list, ver, copied, loads, link, drops, page, reqs>>

Announce(f) == AnnounceAs(f, IF f \in copied THEN Fresh(f) ELSE ver[f])

\* The API changes a flow of the store and announces it.
Alter(f) ==
    /\ changes' = changes + 1
    /\ ver' = [ver EXCEPT ![f] = Fresh(f)] /\ told' = [told EXCEPT ![f] = Fresh(f)]
    /\ Broadcast("update", <<Summary(f, Fresh(f))>>)

\* Another client does (POST /api/flows/:id/mark, /edit, ...).
Change(f) ==
    /\ f \in Stored
    /\ MayChange /\ Room
    /\ Alter(f)
    /\ UNCHANGED <<list, copied, loads, link, drops, page, reqs>>

\* Flows in the order of their arrival.
InOrder(flows) == Only([f \in Flows |-> f], flows)

\* POST /api/sessions/load, of any client's or the page's own doing: "clear" and
\* then an "add" for each flow of the session.  A session may hold any flows there
\* have been (those of an earlier run of the program are like those that arrived
\* before the page was opened).
LoadSession(flows) ==
    LET loaded == InOrder(flows)
        events == [n \in 1 .. Len(loaded) |->
                      [type |-> "add", flows |-> <<Summary(loaded[n], Fresh(loaded[n]))>>]] IN
    /\ loads < MaxLoads /\ Room
    /\ loads' = loads + 1
    /\ list' = Trimmed(loaded)
    /\ ver' = [f \in Flows |-> IF f \in flows THEN Fresh(f) ELSE ver[f]]
    /\ told' = [f \in Flows |-> IF f \in flows THEN Fresh(f) ELSE told[f]]
    /\ copied' = copied \cup flows
    /\ chan' = IF link = "up" THEN Append(chan, [type |-> "clear", flows |-> <<>>]) \o events
               ELSE chan
    /\ UNCHANGED <<changes, link, drops, page, reqs>>

\* store.remove: an "update" that carries no flow.
Without(gone) == Only(list, Flows \ gone)

RemoveFlow(f) ==
    /\ f \in Stored
    /\ Room
    /\ list' = Without({f})
    /\ Broadcast("removed", <<>>)
    /\ UNCHANGED <<ver, told, copied, changes, loads, link, drops, page, reqs>>

Clear ==
    /\ list # <<>>
    /\ Room
    /\ list' = <<>>
    /\ Broadcast("clear", <<>>)
    /\ UNCHANGED <<ver, told, copied, changes, loads, link, drops, page, reqs>>

\* The option maxFlows is lowered, and later raised: older flows go without a word.
Resize ==
    /\ \E n \in 1 .. Len(list) : list' = SubSeq(list, n + 1, Len(list))
    /\ UNCHANGED <<ver, told, copied, changes, loads, wire, page, reqs>>

Answered(i, v) ==
    reqs' = [reqs EXCEPT ![i] =
                [kind |-> @.kind, flows |-> @.flows, answered |-> TRUE, ver |-> v]]

\* GET /api/flows/:id, or 404 (content 0).
ServeDetail(i) ==
    LET f == CHOOSE g \in reqs[i].flows : TRUE IN
    /\ reqs[i].kind = "detail" /\ ~reqs[i].answered
    /\ Answered(i, IF f \in Stored THEN ver[f] ELSE 0)
    /\ UNCHANGED <<server, wire, page>>

\* POST /api/flows/:id/mark.
ServeMark(i) ==
    LET f == CHOOSE g \in reqs[i].flows : TRUE IN
    /\ reqs[i].kind = "mark" /\ ~reqs[i].answered
    /\ Answered(i, 0)
    /\ IF f \in Stored /\ MayChange
       THEN Alter(f)
       ELSE UNCHANGED <<ver, told, changes, chan>>
    /\ UNCHANGED <<list, copied, loads, link, drops, page>>

\* DELETE /api/flows/:id and POST /api/flows/delete-batch: one event a flow.
ServeDelete(i) ==
    LET gone == reqs[i].flows \cap Stored
        events == [n \in 1 .. Cardinality(gone) |-> [type |-> "removed", flows |-> <<>>]] IN
    /\ reqs[i].kind \in {"delete", "batch"} /\ ~reqs[i].answered
    /\ Answered(i, 0)
    /\ list' = Without(gone)
    /\ chan' = IF link = "up" THEN chan \o events ELSE chan
    /\ UNCHANGED <<ver, told, copied, changes, loads, link, drops, page>>

-----------------------------------------------------------------------------
(* The page's connection.                                                  *)

\* The page opens, or its timer of 1500 ms has run out: the socket joins the
\* broadcast and gets the snapshot in one step.
Connect(from) ==
    /\ link = from
    /\ link \in {"unopened", "down"}
    /\ link' = "up"
    /\ chan' = <<[type |-> "snapshot",
                  flows |-> [i \in 1 .. Len(list) |-> [flow |-> list[i], ver |-> ver[list[i]]]]]>>
    /\ UNCHANGED <<server, drops, page, reqs>>

\* Broken: the page does not try again.
DropForGood ==
    /\ link = "up"
    /\ drops < MaxDrops
    /\ drops' = drops + 1
    /\ link' = "unopened"
    /\ chan' = <<>>
    /\ UNCHANGED <<server, page, reqs>>

Drop ==
    /\ link = "up"
    /\ drops < MaxDrops
    /\ drops' = drops + 1
    /\ link' = "down"
    /\ chan' = <<>>
    /\ UNCHANGED <<server, page, reqs>>

-----------------------------------------------------------------------------
(* The page's handlers.                                                    *)

\* Broken: a flow the page has is left as it is.
AddFlowOnce(f, v) ==
    /\ order' = IF rows[f] = 0 THEN Append(order, f) ELSE order
    /\ rows' = IF rows[f] = 0 THEN [rows EXCEPT ![f] = v] ELSE rows

AddFlow(f, v) ==
    /\ order' = IF rows[f] = 0 THEN Append(order, f) ELSE order
    /\ rows' = [rows EXCEPT ![f] = v]

Deleting == \E i \in 1 .. Len(reqs) : reqs[i].kind = "batch"
Asking == \E i \in 1 .. Len(reqs) : reqs[i].kind = "detail"

\* loadDetail.
Ask(queue, f) ==
    /\ reqs' = Append(queue, Request("detail", {f}))
    /\ behind' = (f # selected' \/ (behind /\ Asking))

Receive(type) ==
    /\ link = "up"
    /\ chan # <<>>
    /\ Head(chan).type = type
    /\ chan' = Tail(chan)

HandleSnapshot ==
    /\ Receive("snapshot")
    /\ LET flows == Head(chan).flows IN
        /\ order' = [i \in 1 .. Len(flows) |-> flows[i].flow]
        /\ rows' = [f \in Flows |->
                      IF \E i \in 1 .. Len(flows) : flows[i].flow = f
                      THEN (CHOOSE s \in ToSet(flows) : s.flow = f).ver ELSE 0]
    /\ behind' = (selected # None)
    /\ lost' = FALSE
    /\ meddled' = (meddled /\ Deleting)
    /\ UNCHANGED <<server, link, drops, selected, picked, detail, reqs, acts>>

\* It does not ask for the detail of a flow that was loaded anew.
HandleAdd ==
    /\ Receive("add")
    /\ LET s == Head(chan).flows[1] IN
        /\ AddFlow(s.flow, s.ver)
        /\ behind' = (behind \/ selected = s.flow)
    /\ UNCHANGED <<server, link, drops, selected, picked, detail, reqs, lost, meddled, acts>>

\* Broken: an update changes the row only.
HandleUpdateRowOnly ==
    /\ Receive("update")
    /\ LET s == Head(chan).flows[1] IN AddFlow(s.flow, s.ver)
    /\ UNCHANGED <<server, link, drops, selected, picked, detail, reqs, behind, lost, meddled, acts>>

\* An update of the selected flow asks for its detail anew.
HandleUpdate ==
    /\ Receive("update")
    /\ LET s == Head(chan).flows[1] IN
        /\ AddFlow(s.flow, s.ver)
        /\ UNCHANGED selected
        /\ IF selected = s.flow THEN Ask(reqs, s.flow) ELSE UNCHANGED <<reqs, behind>>
    /\ UNCHANGED <<server, link, drops, picked, detail, lost, meddled, acts>>

\* The "update" of a removal throws at msg.flow.id, and changes nothing.
HandleRemoved ==
    /\ Receive("removed")
    /\ UNCHANGED <<server, link, drops, page, reqs>>

HandleClear ==
    /\ Receive("clear")
    /\ rows' = [f \in Flows |-> 0]
    /\ order' = <<>>
    /\ lost' = FALSE
    /\ meddled' = (meddled /\ Deleting)
    /\ UNCHANGED <<server, link, drops, selected, picked, detail, reqs, behind, acts>>

Settle(i) == SubSeq(reqs, 1, i - 1) \o SubSeq(reqs, i + 1, Len(reqs))

\* The answer of a detail; an older one still to come will replace it.
HandleDetail(i) ==
    /\ reqs[i].kind = "detail" /\ reqs[i].answered
    /\ detail' = IF reqs[i].ver = 0 THEN detail
                 ELSE [flow |-> CHOOSE g \in reqs[i].flows : TRUE, ver |-> reqs[i].ver]
    /\ behind' = (behind \/ \E j \in 1 .. i - 1 : reqs[j].kind = "detail")
    /\ reqs' = Settle(i)
    /\ UNCHANGED <<server, wire, rows, order, selected, picked, lost, meddled, acts>>

\* act() asks for the detail again, whatever is selected by now.
HandleMarked(i) ==
    /\ reqs[i].kind = "mark" /\ reqs[i].answered
    /\ UNCHANGED selected
    /\ Ask(Settle(i), CHOOSE g \in reqs[i].flows : TRUE)
    /\ UNCHANGED <<server, wire, rows, order, picked, detail, lost, meddled, acts>>

\* The selected flow has gone: nothing is selected, and the pane is empty.
Deselect(gone) ==
    IF selected \in gone
    THEN selected' = None /\ detail' = NoDetail /\ behind' = FALSE
    ELSE UNCHANGED <<selected, detail, behind>>

\* The answer of a deletion takes the rows of its flows, in the store or not.
TakeRows(flows) ==
    /\ rows' = [f \in Flows |-> IF f \in flows THEN 0 ELSE rows[f]]
    /\ lost' = (lost \/ flows \cap Stored # {})

\* Broken: the list keeps the id.
HandleDeletedKeepsOrder(i) ==
    /\ reqs[i].kind = "delete" /\ reqs[i].answered
    /\ TakeRows(reqs[i].flows)
    /\ Deselect(reqs[i].flows)
    /\ reqs' = Settle(i)
    /\ UNCHANGED <<server, wire, order, picked, meddled, acts>>

\* deleteFlow, when its request has been answered.
HandleDeleted(i) ==
    /\ reqs[i].kind = "delete" /\ reqs[i].answered
    /\ TakeRows(reqs[i].flows)
    /\ order' = Only(order, Flows \ reqs[i].flows)
    /\ Deselect(reqs[i].flows)
    /\ reqs' = Settle(i)
    /\ UNCHANGED <<server, wire, picked, meddled, acts>>

\* batchDelete likewise: the rows of the ids it sent go, but from the list the
\* ids that are selected by now.
HandleBatchDeleted(i) ==
    /\ reqs[i].kind = "batch" /\ reqs[i].answered
    /\ TakeRows(reqs[i].flows)
    /\ order' = Only(order, Flows \ picked)
    /\ Deselect(picked)
    /\ picked' = {}
    /\ meddled' = (meddled \/ \E j \in 1 .. Len(reqs) : j # i /\ reqs[j].kind = "batch")
    /\ reqs' = Settle(i)
    /\ UNCHANGED <<server, wire, acts>>

-----------------------------------------------------------------------------
(* The operator.                                                           *)

\* The virtual list shows what is in the order and has a row (no filter set).
Visible == Only(order, Shown)

Spend == acts < MaxActs /\ acts' = acts + 1

Pick(flows) ==
    /\ Spend
    /\ picked' = flows
    /\ meddled' = (meddled \/ (Deleting /\ flows # picked))

\* A plain click: the selection of many ends, the flow's detail is asked for.
Click(f) ==
    /\ f \in ToSet(Visible)
    /\ Len(reqs) < MaxReqs
    /\ Pick({})
    /\ selected' = f
    /\ Ask(reqs, f)
    /\ UNCHANGED <<server, wire, rows, order, detail, lost>>

\* Ctrl-click, or a row's box.
Toggle(f) ==
    /\ f \in ToSet(Visible)
    /\ Pick(IF f \in picked THEN picked \ {f} ELSE picked \cup {f})
    /\ UNCHANGED <<server, wire, rows, order, selected, detail, reqs, behind, lost>>

\* Shift-click: everything between this row and the one clicked last, which may
\* be any (its box, clicked twice, changes nothing else).
RangeSelect(f) ==
    /\ f \in ToSet(Visible)
    /\ \E from, to \in 1 .. Len(Visible) :
        /\ from <= to
        /\ f \in {Visible[from], Visible[to]}
        /\ Pick(picked \cup {Visible[i] : i \in from .. to})
    /\ UNCHANGED <<server, wire, rows, order, selected, detail, reqs, behind, lost>>

SelectAllVisible ==
    /\ ~(ToSet(Visible) \subseteq picked)
    /\ Pick(picked \cup ToSet(Visible))
    /\ UNCHANGED <<server, wire, rows, order, selected, detail, reqs, behind, lost>>

ClearSelection ==
    /\ picked # {}
    /\ Pick({})
    /\ UNCHANGED <<server, wire, rows, order, selected, detail, reqs, behind, lost>>

Post(kind, flows) ==
    /\ Len(reqs) < MaxReqs
    /\ reqs' = Append(reqs, Request(kind, flows))
    /\ Spend
    /\ UNCHANGED <<server, wire, rows, order, selected, picked, detail, behind, lost, meddled>>

Mark == detail.flow # None /\ MayChange /\ Post("mark", {detail.flow})
DeleteFlow(f) == f \in ToSet(Visible) /\ Post("delete", {f})
BatchDelete == picked # {} /\ Post("batch", picked)

-----------------------------------------------------------------------------

Deliver == HandleSnapshot \/ HandleAdd \/ HandleUpdate \/ HandleRemoved \/ HandleClear
Serve(i) == ServeDetail(i) \/ ServeMark(i) \/ ServeDelete(i)
Handle(i) == HandleDetail(i) \/ HandleMarked(i) \/ HandleDeleted(i) \/ HandleBatchDeleted(i)

Next ==
    \/ \E f \in Flows : Add(f) \/ Touch(f) \/ Announce(f) \/ Change(f) \/ RemoveFlow(f)
    \/ \E flows \in SUBSET Seen : LoadSession(flows)
    \/ Clear \/ Resize
    \/ \E i \in 1 .. Len(reqs) : Serve(i) \/ Handle(i)
    \/ Connect("unopened") \/ Connect("down") \/ Drop
    \/ Deliver
    \/ \E f \in Flows : Click(f) \/ Toggle(f) \/ RangeSelect(f) \/ DeleteFlow(f)
    \/ SelectAllVisible \/ ClearSelection \/ Mark \/ BatchDelete

Spec == Init /\ [][Next]_vars

\* The connection delivers, and a page that lost it comes back.
FairSpec ==
    /\ Spec
    /\ WF_vars(Deliver)
    /\ WF_vars(Connect("down"))

-----------------------------------------------------------------------------

\* Contents a page may show of a flow: that of the store's object, and none that
\* was announced before the last.
Current(f) == {v \in Nat : v = ver[f] \/ v >= told[f]}

\* A page that has read all it was sent shows every stored flow, in the store's
\* order, with nothing older than the last that was said of it, whenever the page
\* connected and whatever was evicted, deleted, cleared or loaded meanwhile.  What
\* a handler changes without an event may be missing (that the flow is paused is,
\* request-handler.ts:109-110), and the row of a flow that a session load brought
\* back while the page waited for the answer of its deletion is lost (server.ts:60-66,
\* 171-186; app.js:46-75, 540-557).
ShowsEveryFlow ==
    link = "up" /\ chan = <<>> /\ ~lost =>
        /\ \A f \in Stored : rows[f] \in Current(f)
        /\ ~meddled => Only(order, Stored) = list

\* The page's map and its list agree and no flow is listed twice, unless the
\* selection changed under a batch deletion: that one takes the ids that are
\* selected when it is answered off the list, and a flow whose row remains is
\* never listed again (app.js:72-75, 327-328, 551-557).
RowsListed ==
    ~meddled => ToSet(order) = Shown /\ Len(order) = Cardinality(Shown)

\* "detail will refresh via ws update" (app.js:592): when nothing is under way
\* the detail is that of the selected flow, and nothing older than the last that
\* was said of it, unless an answer overtook another, the page came back after a
\* loss, it asked for the flow it had marked when another was selected, or a
\* session load put a copy in the flow's place: that is announced as an "add",
\* upon which the page does not ask again (app.js:53-56).
DetailRefreshes ==
    link = "up" /\ chan = <<>> /\ reqs = <<>> /\ ~behind /\ selected \in Stored =>
        detail.flow = selected /\ detail.ver \in Current(selected)

\* Whatever connections are lost and whatever is removed meanwhile, an opened
\* page comes to have read everything it was sent, and with ShowsEveryFlow to
\* show every flow (app.js:42-66).
CatchesUp == (link # "unopened") ~> (link = "up" /\ chan = <<>>)

=============================================================================
