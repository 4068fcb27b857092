------------------------------- MODULE WsFrames -------------------------------
(***************************************************************************)
(* The incremental WebSocket frame parser (src/core/ws-frame.ts), and what *)
(* it should find in a stream, said without buffers.                       *)
(*                                                                         *)
(* A stream is a sequence of cells, and a frame is two of them: its header, *)
(* named by what the header says, and its payload "~".  A header or payload *)
(* that is cut counts as not there yet, which is how the parser treats it. *)
(* A message is the set of the places of its payloads, and whether it was  *)
(* inflated.                                                               *)
(***************************************************************************)
EXTENDS Naturals, Sequences, Subsequences

Unfragmented == {"msg", "zmsg"}      \* FIN and a data opcode; z: with RSV1
Opening == {"frag", "zfrag"}         \* a data opcode without FIN
Continuing == {"cont", "fin"}        \* opcode 0, without and with FIN
FrameHeads == Unfragmented \cup Opening \cup Continuing \cup {"ping"}
Deflated == {"zmsg", "zfrag"}
Final == Unfragmented \cup {"fin"}

NewParser == [buf |-> <<>>, parts |-> {}, zip |-> FALSE, out |-> <<>>]

Message(parts, zip) == [parts |-> parts, zip |-> zip]
Messages == [parts : SUBSET Nat, zip : BOOLEAN]
Parsers == [buf : Seq(Nat), parts : SUBSET Nat, zip : BOOLEAN, out : Seq(Messages)]

\* One complete frame, whose payload is at `place` of the stream `cells`.
Frame(parser, cells, place, deflate) ==
    LET head == cells[place - 1]
        parts == {place} \cup (IF head \in Continuing THEN parser.parts ELSE {})
        zip == IF head \in Continuing THEN parser.zip
               ELSE deflate /\ head \in Deflated IN
    IF head = "ping" THEN [parser EXCEPT !.out = Append(@, Message({place}, FALSE))]
    ELSE [parser EXCEPT
            !.parts = IF head \in Final THEN {} ELSE parts,
            !.zip = zip,
            !.out = IF head \in Final THEN Append(@, Message(parts, zip)) ELSE @]

\* The frames whose payloads are at these places, one after the other.
ReadFrames(parser, cells, bodies, deflate) ==
    LET read[n \in 0 .. Len(bodies)] ==
            IF n = 0 THEN parser ELSE Frame(read[n - 1], cells, bodies[n], deflate)
    IN  read[Len(bodies)]

Payloads(cells) == {p \in 1 .. Len(cells) : cells[p] = "~"}

\* push(): the messages that are complete with this chunk are `out`.  A parser
\* that starts inside a frame takes a payload for a header; what it finds
\* then means nothing, and is left out.
Push(parser, cells, chunk, deflate) ==
    LET buf == parser.buf \o chunk
        bodies == Only(buf, Payloads(cells))
        fresh == [parser EXCEPT !.out = <<>>] IN
    IF buf # <<>> /\ buf[1] \in Payloads(cells)
    THEN [fresh EXCEPT !.buf = buf]
    ELSE [ReadFrames(fresh, cells, bodies, deflate) EXCEPT
            !.buf = SubSeq(buf, 2 * Len(bodies) + 1, Len(buf))]

-----------------------------------------------------------------------------

\* The payloads that complete a message, and the message that the one at place p
\* completes: it alone for a control frame, else everything since the last data
\* message was complete.
Completing(cells) == {p \in Payloads(cells) : cells[p - 1] \in Final \cup {"ping"}}

MessageAt(cells, p, agreed) ==
    LET data == {q \in 1 .. p : cells[q] = "~" /\ cells[q - 1] # "ping"}
        done == {q \in data : q < p /\ cells[q - 1] \in Final}
        parts == {q \in data : \A r \in done : r < q}
    IN  IF cells[p - 1] = "ping" THEN Message({p}, FALSE)
        ELSE Message(parts, agreed /\ \E q \in parts : cells[q - 1] \in Deflated)

\* Headers and payloads alternate after the first `from` cells, and a message is
\* continued before another is begun.
Framed(cells, from) ==
    \A p \in 1 .. Len(cells) :
        LET pending == \E q \in 1 .. p - 1 : /\ cells[q] \in Opening
                                            /\ \A r \in q + 1 .. p - 1 : cells[r] \notin Final
        IN  /\ cells[p] \in FrameHeads <=> p > from /\ (p - from) % 2 = 1
            /\ cells[p] = "~" <=> p > from /\ (p - from) % 2 = 0
            /\ cells[p] \in Continuing => pending
            /\ cells[p] \in Opening \cup Unfragmented => ~pending

===============================================================================
