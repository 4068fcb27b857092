------------------------------ MODULE FrontProofs ------------------------------
(***************************************************************************)
(* The connection front and the WebSocket relay, for any streams that      *)
(* clients and origins may send, cut into chunks anywhere.  The inductive  *)
(* invariants build on one another: where each reader is in the stream     *)
(* (ReadInv), what the replies told the client mean (SocksInv), whose end  *)
(* is known to whom (EndInv), what is empty before the hop is up           *)
(* (FreshInv), what is held for the hop or written to it (HopInv), and     *)
(* what the parsers have read and the log recorded (CaptureInv).           *)
(***************************************************************************)
EXTENDS Front, SubsequenceProofs, FiniteSetTheorems

-----------------------------------------------------------------------------
(* The frame parser.                                                       *)

\* A parser that has read a frame is a parser.
LEMMA FrameType ==
    ASSUME NEW st \in Parsers, NEW c, NEW p \in Nat, NEW deflates \in BOOLEAN
    PROVE  Frame(st, c, p, deflates) \in Parsers
<1> DEFINE parts == {p} \cup (IF c[p - 1] \in Continuing THEN st.parts ELSE {})
           zip == IF c[p - 1] \in Continuing THEN st.zip ELSE deflates /\ c[p - 1] \in Deflated
<1>1. parts \in SUBSET Nat /\ zip \in BOOLEAN
    BY DEF Parsers
<1>2. Message({p}, FALSE) \in Messages /\ Message(parts, zip) \in Messages
    BY <1>1 DEF Message, Messages
<1> HIDE DEF parts, zip
<1>3. /\ Append(st.out, Message({p}, FALSE)) \in Seq(Messages)
      /\ Append(st.out, Message(parts, zip)) \in Seq(Messages)
    BY <1>2, AppendProperties DEF Parsers
<1>4. CASE c[p - 1] = "ping"
    <2>1. Frame(st, c, p, deflates) = [st EXCEPT !.out = Append(@, Message({p}, FALSE))]
        BY <1>4 DEF Frame
    <2> QED BY <2>1, <1>3 DEF Parsers
<1>5. CASE c[p - 1] # "ping"
    <2>1. Frame(st, c, p, deflates) =
            [st EXCEPT !.parts = IF c[p - 1] \in Final THEN {} ELSE parts,
                       !.zip = zip,
                       !.out = IF c[p - 1] \in Final THEN Append(@, Message(parts, zip)) ELSE @]
        BY <1>5, Zenon DEF Frame, parts, zip
    <2> QED BY <2>1, <1>1, <1>3 DEF Parsers
<1> QED BY <1>4, <1>5

Reads(f, st, c, bodies, deflates) ==
    /\ f \in [0 .. Len(bodies) -> Parsers]
    /\ f[0] = st
    /\ \A n \in 1 .. Len(bodies) : f[n] = Frame(f[n - 1], c, bodies[n], deflates)
    /\ ReadFrames(st, c, bodies, deflates) = f[Len(bodies)]

\* The recursive function inside ReadFrames exists.
LEMMA FramesAreRead ==
    ASSUME NEW st \in Parsers, NEW c, NEW bodies \in Seq(Nat), NEW deflates \in BOOLEAN
    PROVE  \E f : Reads(f, st, c, bodies, deflates)
<1> DEFINE N == Len(bodies)
           G == [x \in (1 .. N) \X Parsers |-> Frame(x[2], c, bodies[x[1]], deflates)]
           Rec(f) == f = [n \in 0 .. N |-> IF n = 0 THEN st
                                           ELSE Frame(f[n - 1], c, bodies[n], deflates)]
           read == CHOOSE f : Rec(f)
<1>1. N \in Nat
    BY LenProperties
<1>2. G \in Steps(N, Parsers)
    <2> SUFFICES ASSUME NEW n \in 1 .. N, NEW q \in Parsers
                 PROVE  Frame(q, c, bodies[n], deflates) \in Parsers
        BY DEF Steps
    <2> QED BY ElementOfSeq, FrameType
<1>3. PICK f : Iterates(f, G, st, N, Parsers)
    <2> HIDE DEF G, N
    <2> QED BY <1>1, <1>2, RecursionOnInterval
<1>4. /\ f \in [0 .. N -> Parsers] /\ f[0] = st
      /\ \A n \in 1 .. N : f[n] = G[<<n, f[n - 1]>>]
    BY <1>3 DEF Iterates
<1>5. ASSUME NEW n \in 1 .. N
      PROVE  f[n] = Frame(f[n - 1], c, bodies[n], deflates)
    <2>1. n - 1 \in 0 .. N BY <1>1
    <2>2. f[n - 1] \in Parsers BY <2>1, <1>4
    <2>3. G[<<n, f[n - 1]>>] = Frame(f[n - 1], c, bodies[n], deflates)
        BY <2>2
    <2> QED BY <2>3, <1>4
<1>6. Rec(f)
    <2> DEFINE h == [n \in 0 .. N |-> IF n = 0 THEN st
                                      ELSE Frame(f[n - 1], c, bodies[n], deflates)]
    <2>1. ASSUME NEW n \in 0 .. N PROVE f[n] = h[n]
        <3>1. CASE n = 0 BY <1>4, <3>1
        <3>2. CASE n # 0
            <4>1. n \in 1 .. N BY <3>2, <1>1
            <4> QED BY <3>2, <4>1, <1>5
        <3> QED BY <3>1, <3>2
    <2> HIDE DEF h
    <2>2. f = [n \in 0 .. N |-> h[n]] BY <2>1, <1>4
    <2>3. h = [n \in 0 .. N |-> h[n]] BY DEF h
    <2> QED BY <2>2, <2>3 DEF h
<1>7. Rec(read)
    <2> HIDE DEF Rec
    <2> QED BY <1>6
<1>8. ReadFrames(st, c, bodies, deflates) = read[N]
    BY DEF ReadFrames
<1> HIDE DEF read, N
<1>9. /\ read = [n \in 0 .. N |-> read[n]]
      /\ read[0] = st
      /\ \A n \in 1 .. N : read[n] = Frame(read[n - 1], c, bodies[n], deflates)
    <2>1. read = [n \in 0 .. N |-> IF n = 0 THEN st ELSE Frame(read[n - 1], c, bodies[n], deflates)]
        BY <1>7
    <2>2. \A n \in 0 .. N :
            read[n] = IF n = 0 THEN st ELSE Frame(read[n - 1], c, bodies[n], deflates)
        BY <2>1
    <2>3. read = [n \in 0 .. N |-> read[n]]
        BY <2>1
    <2>4. 0 \in 0 .. N /\ \A n \in 1 .. N : n \in 0 .. N /\ n # 0
        BY <1>1
    <2> HIDE <1>7
    <2> QED BY <2>2, <2>3, <2>4
<1>10. read \in [0 .. N -> Parsers]
    <2> DEFINE H == {n \in Nat : n \in 0 .. N => read[n] \in Parsers}
    <2>1. 0 \in H BY <1>9
    <2>2. ASSUME NEW n \in H PROVE n + 1 \in H
        <3> SUFFICES ASSUME n + 1 \in 1 .. N PROVE read[n + 1] \in Parsers
            BY <1>1
        <3>1. n \in 0 .. N /\ read[n] \in Parsers /\ bodies[n + 1] \in Nat
            BY <1>1, ElementOfSeq DEF N
        <3>2. read[n + 1] = Frame(read[n], c, bodies[n + 1], deflates)
            BY <1>9, <1>1
        <3> QED BY <3>1, <3>2, FrameType
    <2>3. H = Nat
        <3>1. H \subseteq Nat OBVIOUS
        <3> HIDE DEF H
        <3> QED BY <2>1, <2>2, <3>1, NatSetInduction
    <2> QED BY <2>3, <1>9, <1>1
<1> QED BY <1>8, <1>9, <1>10 DEF Reads, N

\* A parser that has read frames is a parser.
LEMMA ReadFramesType ==
    ASSUME NEW st \in Parsers, NEW c, NEW bodies \in Seq(Nat), NEW deflates \in BOOLEAN
    PROVE  ReadFrames(st, c, bodies, deflates) \in Parsers
<1>1. PICK f : Reads(f, st, c, bodies, deflates)
    BY FramesAreRead
<1>2. Len(bodies) \in 0 .. Len(bodies)
    BY LenProperties
<1> QED BY <1>1, <1>2 DEF Reads

\* No frames change nothing.
LEMMA ReadFramesEmpty ==
    ASSUME NEW st \in Parsers, NEW c, NEW deflates \in BOOLEAN
    PROVE  ReadFrames(st, c, <<>>, deflates) = st
<1>1. <<>> \in Seq(Nat) /\ Len(<<>>) = 0
    BY EmptySeq
<1>2. PICK f : Reads(f, st, c, <<>>, deflates)
    BY <1>1, FramesAreRead
<1> QED BY <1>1, <1>2 DEF Reads

\* The last of some frames is read after the others.
LEMMA ReadFramesAppend ==
    ASSUME NEW st \in Parsers, NEW c, NEW bodies \in Seq(Nat), NEW p \in Nat,
           NEW deflates \in BOOLEAN
    PROVE  ReadFrames(st, c, Append(bodies, p), deflates)
              = Frame(ReadFrames(st, c, bodies, deflates), c, p, deflates)
<1> DEFINE more == Append(bodies, p)
           N == Len(bodies)
<1>1. /\ more \in Seq(Nat) /\ Len(more) = N + 1 /\ N \in Nat
      /\ \A i \in 1 .. N : more[i] = bodies[i]
      /\ more[N + 1] = p
    BY AppendProperties, LenProperties
<1>2. PICK f : Reads(f, st, c, bodies, deflates)
    BY FramesAreRead
<1>3. /\ f[0] = st /\ ReadFrames(st, c, bodies, deflates) = f[N]
      /\ \A n \in 1 .. N : f[n] = Frame(f[n - 1], c, bodies[n], deflates)
    BY <1>2 DEF Reads
<1> HIDE DEF more, N
<1>4. PICK g : Reads(g, st, c, more, deflates)
    BY <1>1, FramesAreRead
<1>5. /\ g[0] = st /\ ReadFrames(st, c, more, deflates) = g[N + 1]
      /\ \A n \in 1 .. N + 1 : g[n] = Frame(g[n - 1], c, more[n], deflates)
    BY <1>1, <1>4 DEF Reads
<1> DEFINE H == {n \in Nat : n <= N => g[n] = f[n]}
<1>6. 0 \in H
    BY <1>3, <1>5
<1>7. ASSUME NEW n \in H PROVE n + 1 \in H
    <2> SUFFICES ASSUME n + 1 <= N PROVE g[n + 1] = f[n + 1]
        OBVIOUS
    <2>1. n + 1 \in 1 .. N /\ n + 1 \in 1 .. N + 1 /\ (n + 1) - 1 = n
        BY <1>1
    <2>2. g[n] = f[n] /\ more[n + 1] = bodies[n + 1]
        BY <2>1, <1>1
    <2>3. g[n + 1] = Frame(g[n], c, more[n + 1], deflates)
        BY <2>1, <1>5
    <2>4. f[n + 1] = Frame(f[n], c, bodies[n + 1], deflates)
        BY <2>1, <1>3
    <2> QED BY <2>2, <2>3, <2>4
<1>8. H = Nat
    <2>1. H \subseteq Nat OBVIOUS
    <2> HIDE DEF H
    <2> QED BY <1>6, <1>7, <2>1, NatSetInduction
<1>9. g[N] = f[N]
    BY <1>1, <1>8
<1>10. N + 1 \in 1 .. N + 1 /\ (N + 1) - 1 = N
    BY <1>1
<1>11. g[N + 1] = Frame(g[N], c, more[N + 1], deflates)
    BY <1>5, <1>10
<1> QED BY <1>1, <1>3, <1>5, <1>9, <1>11 DEF more

\* A parser that was given a chunk is a parser.
LEMMA PushType ==
    ASSUME NEW st \in Parsers, NEW c, NEW chunk \in Seq(Nat), NEW deflates \in BOOLEAN
    PROVE  Push(st, c, chunk, deflates) \in Parsers
<1> DEFINE buf == st.buf \o chunk
           bodies == Only(buf, Payloads(c))
           fresh == [st EXCEPT !.out = <<>>]
           read == ReadFrames(fresh, c, bodies, deflates)
           rest == SubSeq(buf, 2 * Len(bodies) + 1, Len(buf))
<1>1. buf \in Seq(Nat)
    BY ConcatProperties DEF Parsers
<1>2. bodies \in Seq(Nat)
    <2> HIDE DEF buf
    <2> QED BY <1>1, OnlyType
<1>3. fresh \in Parsers
    BY EmptySeq DEF Parsers
<1>4. read \in Parsers
    <2> HIDE DEF bodies, fresh
    <2> QED BY <1>2, <1>3, ReadFramesType
<1>5. rest \in Seq(Nat)
    <2>1. Len(bodies) \in Nat /\ Len(buf) \in Nat
        <3> HIDE DEF buf, bodies
        <3> QED BY <1>1, <1>2, LenProperties
    <2>2. \A i \in 2 * Len(bodies) + 1 .. Len(buf) : buf[i] \in Nat
        <3> HIDE DEF buf, bodies
        <3> QED BY <2>1, <1>1, ElementOfSeq
    <2> HIDE DEF buf, bodies
    <2>3. 2 * Len(bodies) + 1 \in Int /\ Len(buf) \in Int
        BY <2>1
    <2> QED BY <2>2, <2>3, SubSeqProperties
<1>6. Push(st, c, chunk, deflates) =
        IF buf # <<>> /\ buf[1] \in Payloads(c) THEN [fresh EXCEPT !.buf = buf]
        ELSE [read EXCEPT !.buf = rest]
    BY DEF Push
<1> HIDE DEF buf, fresh, read, rest
<1> QED BY <1>1, <1>3, <1>4, <1>5, <1>6 DEF Parsers

-----------------------------------------------------------------------------
(* Types.                                                                  *)

\* The type invariant holds of a connection that begins.
LEMMA InitTypeOK == Init => TypeOK
<1> SUFFICES ASSUME Init PROVE TypeOK
    OBVIOUS
<1>1. cells \in Seq(STRING) /\ Len(cells) \in Nat
    BY FrontAssumption, LenProperties DEF Init
<1>2. origin \in Origins
    BY DEF Init
<1>3. origin \in Seq(STRING) /\ Len(origin) \in Nat
    BY <1>2, FrontAssumption, LenProperties
<1>4. NewParser \in Parsers
    BY EmptySeq DEF NewParser, Parsers
<1>5. wire \in [Dirs -> Seq(Nat)] /\ log \in [Dirs -> Seq(Messages)] /\ parser \in [Dirs -> Parsers]
    BY <1>4, EmptySeq DEF Init
<1>6. /\ <<>> \in Seq(1 .. Len(cells))
      /\ <<>> \in Seq({"method", "welcome", "granted", "refused", "established"})
    BY EmptySeq
<1>7. held \in Seq(1 .. Len(cells))
      /\ told \in Seq({"method", "welcome", "granted", "refused", "established"})
    BY <1>6, Zenon DEF Init
<1>8. pos \in 0 .. Len(cells) /\ opos \in 0 .. Len(origin)
    BY <1>1, <1>3 DEF Init
<1>9. /\ cells \in Clients /\ origin \in Origins /\ auth \in BOOLEAN /\ agreed \in BOOLEAN
      /\ live \in BOOLEAN /\ deflate \in BOOLEAN /\ cut \in BOOLEAN /\ orphan \in BOOLEAN
    BY Zenon DEF Init
<1>10. /\ at \in {"first", "socks", "lead", "head", "closed"} \cup Hops
       /\ client \in {"open", "gone"} /\ hop \in {"none", "connecting", "up", "closed"}
    BY Zenon DEF Init
<1> QED BY <1>5, <1>7, <1>8, <1>9, <1>10, Zenon DEF TypeOK

\* The lengths and counters are numbers.
LEMMA SizesAreNaturals ==
    ASSUME TypeOK
    PROVE  /\ cells \in Seq(STRING) /\ Len(cells) \in Nat
           /\ origin \in Seq(STRING) /\ Len(origin) \in Nat
           /\ pos \in 0 .. Len(cells) /\ opos \in 0 .. Len(origin)
           /\ Len(held) \in Nat /\ held \in Seq(Nat)
<1>1. cells \in Seq(STRING) /\ origin \in Seq(STRING)
    BY FrontAssumption DEF TypeOK
<1>2. held \in Seq(1 .. Len(cells))
    BY DEF TypeOK
<1>3. held \in Seq(Nat)
    <2>1. 1 .. Len(cells) \subseteq Nat OBVIOUS
    <2> QED BY <1>2, <2>1, SeqMonotonic
<1> QED BY <1>1, <1>3, LenProperties DEF TypeOK

\* The first blank that a reader finds is one.
LEMMA FirstBlank ==
    ASSUME NEW s \in Seq(Nat), Blanks(s) # {}
    PROVE  LET end == CHOOSE i \in Blanks(s) : \A j \in Blanks(s) : i <= j
           IN  end \in Blanks(s) /\ \A j \in Blanks(s) : end <= j
<1>1. Blanks(s) \in SUBSET Nat
    BY LenProperties DEF Blanks
<1>2. \E i \in Blanks(s) : \A j \in Blanks(s) : i <= j
    BY <1>1, LeastElement
<1> QED BY <1>2

\* A chunk is made of places of its stream.
LEMMA PlacesAreTyped ==
    ASSUME TypeOK, NEW n \in Nat, pos + n <= Len(cells)
    PROVE  /\ Places(pos, n) \in Seq(1 .. Len(cells))
           /\ Places(pos, n) \in Seq(Nat)
<1>1. pos \in Nat /\ Len(cells) \in Nat
    BY SizesAreNaturals
<1> QED BY <1>1, PlacesWithin, PlacesProperties

Words == {"method", "welcome", "granted", "refused", "established"}

\* What the types say of the bytes that were written and recorded.
LEMMA WritesAreTyped ==
    ASSUME TypeOK, NEW d \in Dirs, NEW chunk \in Seq(Nat), NEW more \in Seq(Messages)
    PROVE  /\ [wire EXCEPT ![d] = @ \o chunk] \in [Dirs -> Seq(Nat)]
           /\ [log EXCEPT ![d] = @ \o more] \in [Dirs -> Seq(Messages)]
<1>1. wire[d] \in Seq(Nat) /\ log[d] \in Seq(Messages)
    BY DEF TypeOK
<1>2. wire[d] \o chunk \in Seq(Nat) /\ log[d] \o more \in Seq(Messages)
    BY <1>1, ConcatProperties
<1> QED BY <1>2 DEF TypeOK

\* What the front says is one of its replies.
LEMMA SayIsTyped ==
    ASSUME TypeOK, NEW what \in Words
    PROVE  Append(told, what) \in Seq(Words)
BY AppendProperties DEF TypeOK, Words

\* A buffer whose first cell is taken is a buffer.
LEMMA HeldTailTyped ==
    ASSUME TypeOK, held # <<>>
    PROVE  Tail(held) \in Seq(1 .. Len(cells)) /\ Head(held) \in 1 .. Len(cells)
BY HeadTailProperties DEF TypeOK

\* Every step keeps the type invariant.
LEMMA StepTypeOK == TypeOK /\ [Next]_vars => TypeOK'
<1> SUFFICES ASSUME TypeOK, [Next]_vars PROVE TypeOK'
    OBVIOUS
<1> USE SizesAreNaturals
<1>e. <<>> \in Seq(1 .. Len(cells))
    BY EmptySeq
<1>1. ASSUME NEW n \in 1 .. Len(cells), Arrive(n) PROVE TypeOK'
    <2>1. n \in Nat /\ pos + n <= Len(cells) /\ pos' \in 0 .. Len(cells)
        BY <1>1 DEF Arrive
    <2>2. Places(pos, n) \in Seq(1 .. Len(cells)) /\ Places(pos, n) \in Seq(Nat)
        BY <2>1, PlacesAreTyped
    <2>3. held' \in Seq(1 .. Len(cells))
        BY <1>1, <2>2, ConcatProperties DEF Arrive, TypeOK
    <2>4. wire' \in [Dirs -> Seq(Nat)]
        <3>1. [wire EXCEPT !["up"] = @ \o Places(pos, n)] \in [Dirs -> Seq(Nat)]
            BY <2>2, WritesAreTyped, EmptySeq DEF Dirs
        <3> QED BY <1>1, <3>1 DEF Arrive, TypeOK
    <2>5. at' \in {"first", "socks", "lead", "head", "closed"} \cup Hops
        BY <1>1 DEF Arrive, FirstReader, TypeOK
    <2> QED BY <1>1, <2>1, <2>3, <2>4, <2>5 DEF Arrive, TypeOK
<1>2. ASSUME SocksReads PROVE TypeOK'
    <2>1. held' \in Seq(1 .. Len(cells))
        BY <1>2, HeldTailTyped DEF SocksReads
    <2>2. told' \in Seq(Words)
        <3>1. told' = told \/ told' = Append(told, "method") \/ told' = Append(told, "welcome")
            BY <1>2 DEF SocksReads, Say
        <3>2. "method" \in Words /\ "welcome" \in Words BY DEF Words
        <3> QED BY <3>1, <3>2, SayIsTyped DEF TypeOK, Words
    <2> QED BY <1>2, <2>1, <2>2 DEF SocksReads, TypeOK, relay, Words
<1>3. ASSUME SocksRefuses PROVE TypeOK'
    <2>1. told' \in Seq(Words)
        <3>1. told' = told \/ told' = Append(told, "refused")
            BY <1>3 DEF SocksRefuses, Say
        <3>2. "refused" \in Words BY DEF Words
        <3> QED BY <3>1, <3>2, SayIsTyped DEF TypeOK, Words
    <2> QED BY <1>3, <2>1, <1>e DEF SocksRefuses, Close, TypeOK, relay, Words
<1>4. ASSUME SocksGrants PROVE TypeOK'
    <2>1. held' \in Seq(1 .. Len(cells))
        BY <1>4, HeldTailTyped DEF SocksGrants
    <2>2. told' \in Seq(Words)
        <3>1. "granted" \in Words BY DEF Words
        <3> QED BY <1>4, <3>1, SayIsTyped DEF SocksGrants, Say
    <2> QED BY <1>4, <2>1, <2>2 DEF SocksGrants, TypeOK, relay, Words
<1>5. ASSUME AfterSocks PROVE TypeOK'
    <2>1. /\ at' \in {"first", "socks", "lead", "head", "closed"} \cup Hops
          /\ hop' \in {"none", "connecting", "up", "closed"}
        BY <1>5 DEF AfterSocks, ConnectOn, TunnelTo, Hops, TypeOK
    <2> QED BY <1>5, <2>1 DEF AfterSocks, TypeOK, relay
<1>6. ASSUME HeadComplete PROVE TypeOK'
    <2> DEFINE end == CHOOSE i \in Blanks(held) : \A j \in Blanks(held) : i <= j
               after == SubSeq(held, end + 1, Len(held))
    <2>1. end \in Blanks(held)
        BY <1>6, FirstBlank DEF HeadComplete
    <2>2. after \in Seq(1 .. Len(cells))
        <3>1. end \in Nat BY <2>1 DEF Blanks
        <3> HIDE DEF end
        <3>2. \A i \in end + 1 .. Len(held) : held[i] \in 1 .. Len(cells)
            BY <3>1, ElementOfSeq DEF TypeOK
        <3>3. end + 1 \in Int /\ Len(held) \in Int BY <3>1
        <3> QED BY <3>2, <3>3, SubSeqProperties
    <2>3. held' \in {held, after, <<>>}
        BY <1>6 DEF HeadComplete, Close
    <2>4. held' \in Seq(1 .. Len(cells))
        <3> HIDE DEF after
        <3> QED BY <2>2, <2>3, <1>e DEF TypeOK
    <2>5. /\ at' \in {"first", "socks", "lead", "head", "closed"} \cup Hops
          /\ hop' \in {"none", "connecting", "up", "closed"}
          /\ client' \in {"open", "gone"}
        BY <1>6 DEF HeadComplete, ConnectOn, TunnelTo, Close, Hops, TypeOK
    <2>6. told' \in Seq(Words)
        <3>1. told' = told \/ told' = Append(told, "established")
            BY <1>6 DEF HeadComplete, Say
        <3>2. "established" \in Words BY DEF Words
        <3> QED BY <3>1, <3>2, SayIsTyped DEF TypeOK, Words
    <2> QED BY <1>6, <2>4, <2>5, <2>6 DEF HeadComplete, TypeOK, relay, Words
<1>7. ASSUME HeadTooLong PROVE TypeOK'
    BY <1>7, <1>e DEF HeadTooLong, Close, TypeOK, relay
<1>8. ASSUME NEW kind \in Hops, HopUp(kind) PROVE TypeOK'
    <2>1. wire' \in [Dirs -> Seq(Nat)]
        BY <1>8, WritesAreTyped, EmptySeq DEF HopUp, Dirs
    <2> QED BY <1>8, <2>1, <1>e DEF HopUp, TypeOK
<1>9. ASSUME RelayReady PROVE TypeOK'
    <2> DEFINE once == Push(NewParser, cells, held, FALSE)
    <2>1. NewParser \in Parsers
        BY EmptySeq DEF NewParser, Parsers
    <2>2. once \in Parsers
        BY <2>1, PushType
    <2>3. once.out \in Seq(Messages)
        <3> HIDE DEF once
        <3> QED BY <2>2 DEF Parsers
    <2>4. wire' \in [Dirs -> Seq(Nat)] /\ log' \in [Dirs -> Seq(Messages)]
        <3> HIDE DEF once
        <3>1. log' = [log EXCEPT !["up"] = @ \o once.out]
            BY <1>9 DEF RelayReady, once
        <3>2. wire' = [wire EXCEPT !["up"] = @ \o held]
            BY <1>9 DEF RelayReady
        <3>3. "up" \in Dirs BY DEF Dirs
        <3> QED BY <2>3, <3>1, <3>2, <3>3, WritesAreTyped
    <2>5. cut' \in BOOLEAN
        BY <1>9, Zenon DEF RelayReady
    <2> QED BY <1>9, <2>4, <2>5, <1>e DEF RelayReady, TypeOK

<1>10. ASSUME NEW n \in 1 .. Len(cells), RelayClientData(n) PROVE TypeOK'
    <2> DEFINE chunk == Places(pos, n)
               p == Push(parser["up"], cells, chunk, deflate)
    <2>1. n \in Nat /\ pos + n <= Len(cells) /\ pos' \in 0 .. Len(cells) /\ "up" \in Dirs
        BY <1>10 DEF RelayClientData, Dirs
    <2>2. chunk \in Seq(Nat)
        BY <2>1, PlacesAreTyped
    <2>3. parser["up"] \in Parsers /\ deflate \in BOOLEAN
        BY <2>1 DEF TypeOK
    <2>4. p \in Parsers
        <3> HIDE DEF chunk
        <3> QED BY <2>2, <2>3, PushType
    <2>5. parser' = [parser EXCEPT !["up"] = p] /\ log' = [log EXCEPT !["up"] = @ \o p.out]
          /\ wire' = [wire EXCEPT !["up"] = @ \o chunk]
        BY <1>10 DEF RelayClientData, Parsed
    <2> HIDE DEF p, chunk
    <2>6. p.out \in Seq(Messages)
        BY <2>4 DEF Parsers
    <2>7. wire' \in [Dirs -> Seq(Nat)] /\ log' \in [Dirs -> Seq(Messages)]
        BY <2>1, <2>2, <2>5, <2>6, WritesAreTyped
    <2>8. parser' \in [Dirs -> Parsers]
        BY <2>4, <2>5 DEF TypeOK
    <2> QED BY <1>10, <2>1, <2>7, <2>8 DEF RelayClientData, TypeOK
<1>11. ASSUME NEW n \in 1 .. Len(origin), RelayOriginData(n) PROVE TypeOK'
    <2> DEFINE chunk == Places(opos, n)
               frames == Only(chunk, 3 .. Len(origin))
               p == Push(parser["down"], origin, frames, deflate')
    <2>1. n \in Nat /\ opos + n <= Len(origin) /\ opos' \in 0 .. Len(origin)
          /\ opos \in Nat /\ "down" \in Dirs
        BY <1>11 DEF RelayOriginData, Dirs
    <2>2. chunk \in Seq(Nat)
        BY <2>1, PlacesProperties
    <2>3. frames \in Seq(Nat)
        <3> HIDE DEF chunk
        <3> QED BY <2>2, OnlyType
    <2>4. deflate' \in BOOLEAN
        BY <1>11, Zenon DEF RelayOriginData
    <2>5. parser["down"] \in Parsers
        BY <2>1 DEF TypeOK
    <2>6. p \in Parsers
        <3> HIDE DEF frames
        <3> QED BY <2>3, <2>4, <2>5, PushType
    <2>7. parser' = [parser EXCEPT !["down"] = p] /\ log' = [log EXCEPT !["down"] = @ \o p.out]
          /\ wire' = [wire EXCEPT !["down"] = @ \o chunk]
        BY <1>11 DEF RelayOriginData, Parsed
    <2> HIDE DEF p, chunk
    <2>8. p.out \in Seq(Messages)
        BY <2>6 DEF Parsers
    <2>9. wire' \in [Dirs -> Seq(Nat)] /\ log' \in [Dirs -> Seq(Messages)]
        BY <2>1, <2>2, <2>7, <2>8, WritesAreTyped
    <2>10. parser' \in [Dirs -> Parsers]
        BY <2>6, <2>7 DEF TypeOK
    <2> QED BY <1>11, <2>1, <2>4, <2>9, <2>10 DEF RelayOriginData, TypeOK
<1>12. ASSUME NEW d \in Dirs, Inject(d) PROVE TypeOK'
    <2>1. wire[d] \in Seq(Nat) /\ log[d] \in Seq(Messages) /\ Injected \in Messages
        BY DEF TypeOK, Injected, Message, Messages
    <2>2. Append(wire[d], 0) \in Seq(Nat) /\ Append(log[d], Injected) \in Seq(Messages)
        BY <2>1, AppendProperties
    <2>3. wire' \in [Dirs -> Seq(Nat)] /\ log' \in [Dirs -> Seq(Messages)]
        BY <1>12, <2>2 DEF Inject, TypeOK
    <2> QED BY <1>12, <2>3 DEF Inject, TypeOK, front
<1>13. ASSUME NEW error \in BOOLEAN, ClientLeaves(error) PROVE TypeOK'
    <2>1. told' \in Seq(Words)
        <3>1. told' = told \/ told' = Append(told, "refused") \/ told' = Append(told, "granted")
            BY <1>13 DEF ClientLeaves, Say
        <3>2. "refused" \in Words /\ "granted" \in Words BY DEF Words
        <3> QED BY <3>1, <3>2, SayIsTyped DEF TypeOK, Words
    <2>2. at' \in {"first", "socks", "lead", "head", "closed"} \cup Hops
        BY <1>13 DEF ClientLeaves, TypeOK
    <2>3. hop' \in {"none", "connecting", "up", "closed"} /\ client' \in {"open", "gone"}
        BY <1>13 DEF ClientLeaves, TypeOK
    <2>4. live' \in BOOLEAN /\ orphan' \in BOOLEAN
        BY <1>13, Zenon DEF ClientLeaves
    <2> QED BY <1>13, <2>1, <2>2, <2>3, <2>4 DEF ClientLeaves, TypeOK, Words
<1>14. ASSUME HopEnds PROVE TypeOK'
    BY <1>14 DEF HopEnds, TypeOK
<1>15. CASE UNCHANGED vars
    BY <1>15 DEF vars, TypeOK
<1> QED
    BY <1>1, <1>2, <1>3, <1>4, <1>5, <1>6, <1>7, <1>8, <1>9, <1>10, <1>11, <1>12, <1>13,
       <1>14, <1>15 DEF Next

\* Every variable of the front and of the relay has its type throughout.
THEOREM FrontTypeCorrect == Spec => []TypeOK
BY InitTypeOK, StepTypeOK, PTL DEF Spec

-----------------------------------------------------------------------------
(* What the readers have taken.                                            *)

Taken == pos - Len(held)
Told(what) == \E i \in 1 .. Len(told) : told[i] = what

\* What a reader holds is what has arrived since the cells it took, SOCKS ends
\* where the head begins, and only a reader runs without a hop.
ReadInv ==
    /\ hop = "none" <=> at \notin Hops
    /\ at = "first" => pos = 0 /\ held = <<>>
    /\ at \in {"socks", "lead", "head"} =>
        /\ Len(held) <= pos
        /\ held = Places(Taken, Len(held))
    /\ at = "socks" => Taken < SocksLength(cells) \/ Taken = Len(cells)
    /\ at = "lead" => Taken = SocksLength(cells) \/ (client = "gone" /\ held = <<>>)
    /\ at = "head" => Taken = SocksLength(cells)

\* 1 .. n has n elements.
LEMMA IntervalSize ==
    ASSUME NEW k \in Nat
    PROVE  IsFiniteSet(1 .. k) /\ Cardinality(1 .. k) = k
<1>1. 1 \in Int /\ k \in Int
    OBVIOUS
<1>2. IsFiniteSet(1 .. k) /\ Cardinality(1 .. k) = IF 1 > k THEN 0 ELSE k - 1 + 1
    BY <1>1, FS_Interval
<1>3. (IF 1 > k THEN 0 ELSE k - 1 + 1) = k
    OBVIOUS
<1> QED BY <1>2, <1>3

\* The SOCKS cells of a client are a prefix of what it sends.
LEMMA ClientShape ==
    ASSUME TypeOK
    PROVE  /\ SocksLength(cells) \in 0 .. Len(cells)
           /\ FollowsSocks(cells) /\ FollowsHttp(cells)
<1>1. FollowsSocks(cells) /\ FollowsHttp(cells)
    BY FrontAssumption DEF TypeOK
<1>2. Len(cells) \in Nat
    BY SizesAreNaturals
<1> DEFINE S == {i \in 1 .. Len(cells) : cells[i] \in SocksCells}
<1>3. IsFiniteSet(1 .. Len(cells)) /\ Cardinality(1 .. Len(cells)) = Len(cells)
    BY <1>2, IntervalSize
<1>4. S \subseteq 1 .. Len(cells)
    OBVIOUS
<1> HIDE DEF S
<1>5. Cardinality(S) <= Len(cells) /\ Cardinality(S) \in Nat
    BY <1>3, <1>4, FS_Subset, FS_CardinalityType
<1>6. SocksLength(cells) \in 0 .. Len(cells)
    BY <1>2, <1>5 DEF SocksLength, S
<1> QED BY <1>1, <1>6

\* A connection's client, login and origin are given.
LEMMA GivenStays == [Next]_vars => UNCHANGED <<cells, auth, origin, agreed>>
BY DEF Next, vars, relay, front, Arrive, SocksReads, SocksRefuses, SocksGrants, AfterSocks,
       HeadComplete, HeadTooLong, HopUp, RelayReady, RelayClientData, RelayOriginData, Inject,
       ClientLeaves, HopEnds

\* A reader that holds something has it from the cell after the ones it took.
LEMMA ReaderHolds ==
    ASSUME TypeOK, ReadInv, at \in {"socks", "lead", "head"}
    PROVE  /\ Taken \in Nat /\ Len(held) \in Nat /\ Taken + Len(held) = pos
           /\ held = Places(Taken, Len(held))
           /\ \A i \in 1 .. Len(held) : held[i] = Taken + i
           /\ held # <<>> => /\ Len(held) > 0 /\ Taken < Len(cells)
                             /\ Head(held) = Taken + 1
                             /\ Tail(held) = Places(Taken + 1, Len(held) - 1)
<1>1. /\ Len(held) \in Nat /\ held \in Seq(Nat) /\ pos \in 0 .. Len(cells) /\ Len(cells) \in Nat
    BY SizesAreNaturals
<1>2. /\ Len(held) <= pos /\ held = Places(Taken, Len(held))
    BY DEF ReadInv
<1>3. Taken \in Nat /\ Taken + Len(held) = pos
    BY <1>1, <1>2 DEF Taken
<1>4. \A i \in 1 .. Len(held) : held[i] = Taken + i
    <2> DEFINE k == Len(held)
               t == Taken
    <2>1. k \in Nat /\ t \in Nat BY <1>1, <1>3
    <2>2. held = Places(t, k) BY <1>2
    <2> HIDE DEF k, t
    <2>3. \A i \in 1 .. k : Places(t, k)[i] = t + i BY <2>1, PlacesProperties
    <2>4. \A i \in 1 .. k : held[i] = t + i BY <2>2, <2>3
    <2> QED BY <2>4 DEF k, t
<1>5. ASSUME held # <<>>
      PROVE  /\ Len(held) > 0 /\ Taken < Len(cells)
             /\ Head(held) = Taken + 1
             /\ Tail(held) = Places(Taken + 1, Len(held) - 1)
    <2> DEFINE k == Len(held)
               t == Taken
    <2>1. k > 0 BY <1>1, <1>5, EmptySeq
    <2>2. k \in Nat \ {0} /\ t \in Nat BY <1>1, <1>3, <2>1
    <2>3. held = Places(t, k) BY <1>2
    <2> HIDE DEF k, t
    <2>4. Head(Places(t, k)) = t + 1 /\ Tail(Places(t, k)) = Places(t + 1, k - 1)
        BY <2>2, PlacesTail
    <2>5. Head(held) = t + 1 /\ Tail(held) = Places(t + 1, k - 1)
        BY <2>3, <2>4
    <2>6. t + k = pos BY <1>3 DEF t, k
    <2>7. t < Len(cells) BY <2>1, <2>2, <2>6, <1>1
    <2> QED BY <2>1, <2>5, <2>7 DEF k, t
<1> QED BY <1>1, <1>2, <1>3, <1>4, <1>5

\* Nothing has been read at first.
LEMMA InitReadInv == Init => ReadInv
BY DEF Init, ReadInv, Hops

\* Every step keeps the readers in their places.
LEMMA StepReadInv == TypeOK /\ TypeOK' /\ ReadInv /\ [Next]_vars => ReadInv'
<1> SUFFICES ASSUME TypeOK, TypeOK', ReadInv, [Next]_vars PROVE ReadInv'
    OBVIOUS
<1> DEFINE N == SocksLength(cells)
<1>a. /\ N \in Nat /\ N <= Len(cells) /\ SocksLength(cells)' = N
      /\ Len(cells) \in Nat /\ Len(cells') = Len(cells)
      /\ Len(held) \in Nat /\ Len(held') \in Nat /\ pos \in Nat /\ pos' \in Nat
    BY ClientShape, GivenStays, SizesAreNaturals DEF TypeOK
<1>b. FollowsSocks(cells)
    BY ClientShape
<1> HIDE DEF N
<1>1. ASSUME NEW n \in 1 .. Len(cells), Arrive(n) PROVE ReadInv'
    <2> DEFINE chunk == Places(pos, n)
    <2>1. chunk \in Seq(Nat) /\ Len(chunk) = n /\ chunk[1] = pos + 1 /\ n > 0 /\ n \in Nat
        <3>1. n \in Nat /\ 1 \in 1 .. n /\ n > 0 BY <1>a
        <3>2. chunk \in Seq(Nat) /\ Len(chunk) = n /\ \A i \in 1 .. n : chunk[i] = pos + i
            BY <3>1, <1>a, PlacesProperties
        <3> HIDE DEF chunk
        <3> QED BY <3>1, <3>2
    <2>2. /\ pos' = pos + n /\ pos + n <= Len(cells) /\ hop' = hop /\ client' = client /\ cells' = cells
          /\ client = "open" /\ ~Ready
          /\ held' = IF hop = "none" THEN held \o chunk ELSE held
          /\ at' = IF at = "first" THEN FirstReader(chunk) ELSE at
        BY <1>1 DEF Arrive
    <2> HIDE DEF chunk
    <2>3. CASE at = "first"
        <3>1. hop = "none" /\ pos = 0 /\ held = <<>>
            BY <2>3 DEF ReadInv, Hops
        <3>2. held' = Places(0, n) /\ Len(held') = n /\ pos' = n
            BY <2>1, <2>2, <3>1, ConcatEmptySeq DEF chunk
        <3>3. at' = FirstReader(chunk) /\ chunk[1] = 1
            BY <2>1, <2>2, <2>3, <3>1
        <3>4. CASE cells[1] \in {"v5", "v4"}
            <4>1. at' = "socks" BY <3>3, <3>4 DEF FirstReader, Kind
            <4>2. 1 \in 1 .. Len(cells) /\ cells[1] \in SocksCells
                BY <1>a, <2>1, <3>4 DEF SocksCells
            <4>3. N > 0 BY <1>a, <1>b, <4>2 DEF FollowsSocks, N
            <4> QED BY <4>1, <4>3, <3>1, <3>2, <2>2, <2>1, <1>a DEF ReadInv, Taken, Hops, N
        <3>5. CASE cells[1] \notin {"v5", "v4"}
            <4>1. at' = "head" BY <3>3, <3>5 DEF FirstReader, Kind
            <4>2. N = 0 BY <1>a, <1>b, <3>5 DEF FollowsSocks, N
            <4> QED BY <4>1, <4>2, <3>1, <3>2, <2>2, <2>1, <1>a DEF ReadInv, Taken, Hops, N
        <3> QED BY <3>4, <3>5
    <2>4. CASE at \in {"socks", "lead", "head"}
        <3>1. hop = "none" BY <2>4 DEF ReadInv, Hops
        <3>2. /\ Taken \in Nat /\ Taken + Len(held) = pos /\ held = Places(Taken, Len(held))
            BY <2>4, ReaderHolds
        <3>3. held' = held \o chunk /\ at' = at
            BY <3>1, <2>2, <2>4
        <3>4. held' = Places(Taken, Len(held) + n) /\ Len(held') = Len(held) + n
            <4> DEFINE t == Taken
                       k == Len(held)
            <4>1. t \in Nat /\ k \in Nat /\ chunk = Places(t + k, n) /\ held = Places(t, k)
                BY <1>a, <3>2 DEF chunk
            <4> HIDE DEF t, k
            <4>2. Places(t, k) \o Places(t + k, n) = Places(t, k + n)
                BY <4>1, <2>1, PlacesConcat
            <4>3. k + n \in Nat BY <4>1, <2>1
            <4>4. Len(Places(t, k + n)) = k + n BY <4>1, <4>3, PlacesProperties
            <4>5. held' = Places(t, k + n) BY <4>1, <4>2, <3>3
            <4>6. Len(held') = k + n BY <4>4, <4>5
            <4> QED BY <4>5, <4>6 DEF t, k
        <3>5. Taken' = Taken
            <4>1. Len(held') = Len(held) + n /\ pos' = pos + n /\ n \in Nat
                BY <3>4, <2>1, <2>2
            <4> QED BY <4>1, <1>a DEF Taken
        <3>5a. Len(held') <= pos' /\ held' = Places(Taken', Len(held'))
            <4>1. Len(held') = Len(held) + n /\ pos' = pos + n /\ n \in Nat
                  /\ held' = Places(Taken, Len(held) + n)
                BY <3>4, <2>1, <2>2
            <4>2. Len(held) <= pos
                BY <2>4 DEF ReadInv
            <4> QED BY <4>1, <4>2, <3>5, <1>a
        <3>6. at = "socks" \/ at = "lead" => held = <<>>
            BY <2>2, <2>4 DEF Ready
        <3>7. at = "socks" => Taken < N
            <4>1. held = <<>> => Len(held) = 0 BY EmptySeq
            <4> QED BY <4>1, <3>2, <3>6, <2>1, <2>2, <1>a DEF ReadInv, N
        <3>8. at = "lead" => Taken = N
            BY <2>2 DEF ReadInv, N
        <3>9. at = "head" => Taken = N
            BY DEF ReadInv, N
        <3> QED BY <3>1, <3>3, <3>5, <3>5a, <3>7, <3>8, <3>9, <2>2, <2>4, <1>a DEF ReadInv, Hops, N
    <2>5. CASE at \notin {"first", "socks", "lead", "head"}
        <3>1. at' = at /\ hop' = hop BY <2>2, <2>5
        <3> QED BY <2>5, <3>1 DEF ReadInv, Hops
    <2> QED BY <2>3, <2>4, <2>5
<1>2. ASSUME SocksReads PROVE ReadInv'
    <2>1. /\ at = "socks" /\ held # <<>> /\ held' = Tail(held)
          /\ ~Refuses(cells[Head(held)]) /\ ~Grants(cells[Head(held)])
          /\ UNCHANGED <<cells, pos, at, client, hop>>
        BY <1>2 DEF SocksReads, Kind
    <2>2. /\ Taken \in Nat /\ Len(held) > 0 /\ Taken + Len(held) = pos /\ Taken < Len(cells)
          /\ Head(held) = Taken + 1 /\ held' = Places(Taken + 1, Len(held) - 1)
        BY <2>1, ReaderHolds
    <2>3. Len(held') = Len(held) - 1
        <3>1. Len(held) - 1 \in Nat /\ Taken + 1 \in Nat BY <1>a, <2>2
        <3> QED BY <2>2, <3>1, PlacesProperties
    <2>4. Taken' = Taken + 1
        BY <1>a, <2>1, <2>2, <2>3 DEF Taken
    <2>5. Taken < N
        BY <1>a, <2>1, <2>2 DEF ReadInv, N
    <2>6. CASE Taken + 1 = N /\ N < Len(cells)
        <3>1. cells[N] \in Granting(cells) \cup Refused(cells)
            BY <1>a, <1>b, <2>2, <2>6 DEF FollowsSocks, N
        <3> QED BY <2>1, <2>2, <2>6, <3>1 DEF Refuses, Grants
    <2>7. CASE Taken + 1 < N \/ N = Len(cells)
        <3>1. Taken + 1 < N \/ Taken + 1 = Len(cells)
            BY <1>a, <2>2, <2>5, <2>7
        <3>2. Len(held') <= pos' /\ held' = Places(Taken', Len(held'))
            BY <1>a, <2>1, <2>2, <2>3, <2>4
        <3> QED BY <1>a, <2>1, <2>4, <3>1, <3>2 DEF ReadInv, N
    <2>8. Taken + 1 < N \/ Taken + 1 = N
        BY <1>a, <2>2, <2>5
    <2> QED BY <1>a, <2>6, <2>7, <2>8
<1>3. ASSUME SocksRefuses PROVE ReadInv'
    BY <1>3 DEF SocksRefuses, Close, ReadInv, Hops
<1>4. ASSUME SocksGrants PROVE ReadInv'
    <2>1. /\ at = "socks" /\ held # <<>> /\ held' = Tail(held) /\ at' = "lead"
          /\ Grants(cells[Head(held)])
          /\ UNCHANGED <<cells, pos, client, hop>>
        BY <1>4 DEF SocksGrants, Kind
    <2>2. /\ Taken \in Nat /\ Len(held) > 0 /\ Taken + Len(held) = pos /\ Taken < Len(cells)
          /\ Head(held) = Taken + 1 /\ held' = Places(Taken + 1, Len(held) - 1)
        BY <2>1, ReaderHolds
    <2>3. Len(held') = Len(held) - 1
        <3>1. Len(held) - 1 \in Nat /\ Taken + 1 \in Nat BY <1>a, <2>2
        <3> QED BY <2>2, <3>1, PlacesProperties
    <2>4. Taken' = Taken + 1
        BY <1>a, <2>1, <2>2, <2>3 DEF Taken
    <2>5. Taken + 1 \in 1 .. N
        BY <1>a, <2>1, <2>2 DEF ReadInv, N
    <2>6. Taken + 1 = N
        BY <1>b, <2>1, <2>2, <2>5 DEF FollowsSocks, Grants, N
    <2>7. hop = "none"
        BY <2>1 DEF ReadInv, Hops
    <2>8. Len(held') <= pos' /\ held' = Places(Taken', Len(held'))
        BY <1>a, <2>1, <2>2, <2>3, <2>4
    <2> QED BY <1>a, <2>1, <2>4, <2>6, <2>7, <2>8 DEF ReadInv, Hops, N
<1>5. ASSUME AfterSocks PROVE ReadInv'
    BY <1>5, <1>a DEF AfterSocks, ConnectOn, TunnelTo, ReadInv, Hops, Taken, N, relay
<1>6. ASSUME HeadComplete PROVE ReadInv'
    <2>1. hop = "none"
        BY <1>6 DEF HeadComplete, ReadInv, Hops
    <2>2. (at' = "closed" /\ hop' = hop) \/ (at' \in Hops /\ hop' = "connecting")
        BY <1>6 DEF HeadComplete, Close, ConnectOn, TunnelTo, Hops
    <2> QED BY <2>1, <2>2 DEF ReadInv, Hops
<1>7. ASSUME HeadTooLong PROVE ReadInv'
    BY <1>7 DEF HeadTooLong, Close, ReadInv, Hops
<1>8. ASSUME NEW kind \in Hops, HopUp(kind) PROVE ReadInv'
    BY <1>8 DEF HopUp, ReadInv, Hops
<1>9. ASSUME RelayReady PROVE ReadInv'
    BY <1>9 DEF RelayReady, ReadInv, Hops
<1>10. ASSUME NEW n \in 1 .. Len(cells), RelayClientData(n) PROVE ReadInv'
    BY <1>10 DEF RelayClientData, ReadInv, Hops
<1>11. ASSUME NEW n \in 1 .. Len(origin), RelayOriginData(n) PROVE ReadInv'
    BY <1>11 DEF RelayOriginData, ReadInv, Hops
<1>12. ASSUME NEW d \in Dirs, Inject(d) PROVE ReadInv'
    BY <1>12 DEF Inject, front, ReadInv, Taken
<1>13. ASSUME NEW error \in BOOLEAN, ClientLeaves(error) PROVE ReadInv'
    <2>1. /\ UNCHANGED <<cells, pos, held>> /\ client' = "gone" /\ ~Ready
          /\ at' \in {at, "lead", "closed"}
          /\ at' = "lead" => at \in {"socks", "lead"}
          /\ at' = "closed" => hop = "none"
          /\ at' \notin {"socks", "head"}
          /\ hop' \in {hop, "closed"} /\ (hop' = "none" <=> hop = "none")
        <3>1. at \in {"socks", "head"} => hop = "none"
            BY DEF ReadInv, Hops
        <3>2. at = "closed" => hop = "none"
            BY DEF ReadInv, Hops
        <3> QED BY <1>13, <3>1, <3>2 DEF ClientLeaves
    <2>2. at' = "lead" => held = <<>>
        BY <2>1 DEF Ready
    <2>3. at' = "lead" => Len(held) <= pos /\ held = Places(Taken, Len(held))
        BY <2>1 DEF ReadInv
    <2> QED BY <2>1, <2>2, <2>3 DEF ReadInv, Hops, Taken
<1>14. ASSUME HopEnds PROVE ReadInv'
    BY <1>14 DEF HopEnds, ReadInv, Hops
<1>15. CASE UNCHANGED vars
    BY <1>15 DEF vars, ReadInv, Taken
<1> QED
    BY <1>1, <1>2, <1>3, <1>4, <1>5, <1>6, <1>7, <1>8, <1>9, <1>10, <1>11, <1>12, <1>13,
       <1>14, <1>15 DEF Next

-----------------------------------------------------------------------------
(* What the negotiation has granted.                                       *)

\* Of the cells taken none is refused, a login among them has been welcomed,
\* and no reader after it serves a SOCKS client that was not granted.
SocksInv ==
    /\ Has({"offers"}) => auth = Has({"login", "badLogin"})
    /\ at = "socks" =>
        /\ SocksLength(cells) > 0
        /\ \A i \in 1 .. Taken :
            /\ ~Refuses(cells[i])
            /\ cells[i] = "login" => Told("welcome")
    /\ at \in {"lead", "head"} \cup Hops /\ Has({"v5", "v4"}) =>
        /\ Told("granted")
        /\ auth /\ Has({"v5"}) => Has({"login"}) /\ Told("welcome")

\* What was said stays said.
LEMMA SayKeeps ==
    ASSUME TypeOK, NEW what \in Words, told' = Append(told, what), NEW word
    PROVE  /\ Told(word) => Told(word)'
           /\ Told(what)'
<1>1. /\ Len(told) \in Nat /\ Len(told') = Len(told) + 1 /\ told'[Len(told) + 1] = what
      /\ \A i \in 1 .. Len(told) : told'[i] = told[i]
    BY AppendProperties, LenProperties DEF TypeOK, Words
<1>2. Len(told) + 1 \in 1 .. Len(told') /\ \A i \in 1 .. Len(told) : i \in 1 .. Len(told')
    BY <1>1
<1> QED BY <1>1, <1>2 DEF Told

\* What a step leaves of what was told.
LEMMA ToldStays ==
    ASSUME TypeOK, [Next]_vars, NEW word
    PROVE  Told(word) => Told(word)'
<1>1. told' = told \/ \E what \in Words : told' = Append(told, what)
    BY DEF Next, vars, relay, front, Arrive, SocksReads, SocksRefuses, SocksGrants, AfterSocks,
           HeadComplete, HeadTooLong, HopUp, RelayReady, RelayClientData, RelayOriginData,
           Inject, ClientLeaves, HopEnds, Say, Words
<1> QED BY <1>1, SayKeeps DEF Told

\* Of a SOCKS client the first cell, and no other, says which version it is.
LEMMA VersionFirst ==
    ASSUME TypeOK, NEW v \in {"v5", "v4"}, Has({v})
    PROVE  SocksLength(cells) > 0 /\ cells[1] = v
<1>1. PICK i \in 1 .. Len(cells) : cells[i] = v
    BY DEF Has, Sends
<1>2. i <= SocksLength(cells) /\ i = 1
    BY <1>1, ClientShape, SizesAreNaturals DEF FollowsSocks, SocksCells
<1> QED BY <1>1, <1>2, ClientShape

\* Nothing has been told at first.
LEMMA InitSocksInv == Init => SocksInv
BY DEF Init, SocksInv, Hops

\* When its last field grants, a SOCKS 5 client under socksAuth has logged in.
LEMMA GrantAfterLogin ==
    ASSUME TypeOK, ReadInv, SocksInv, at = "socks", held # <<>>, Grants(cells[Head(held)]),
           auth, Has({"v5"})
    PROVE  Has({"login"}) /\ Told("welcome")
<1> DEFINE N == SocksLength(cells)
<1>1. /\ N \in Nat /\ N <= Len(cells) /\ Len(cells) \in Nat /\ FollowsSocks(cells)
    BY ClientShape, SizesAreNaturals
<1>2. /\ Taken \in Nat /\ Taken < Len(cells) /\ Head(held) = Taken + 1 /\ Len(held) > 0
      /\ Taken + Len(held) = pos /\ Len(held) \in Nat /\ pos <= Len(cells)
    BY ReaderHolds, SizesAreNaturals
<1> HIDE DEF N
<1>3. Taken + 1 \in 1 .. N
    BY <1>1, <1>2 DEF ReadInv, N
<1>4. Taken + 1 = N /\ cells[N] \in Granting(cells)
    BY <1>1, <1>2, <1>3 DEF FollowsSocks, Grants, N
<1>5. cells[1] = "v5"
    BY VersionFirst
<1>6. cells[N] \in {"addr", "name", "user"}
    BY <1>4 DEF Granting
<1>7. N > 1
    BY <1>1, <1>3, <1>5, <1>6
<1>8. cells[2] \in {"offers", "offersNot"}
    BY <1>1, <1>5, <1>7 DEF FollowsSocks, N
<1>9. 2 \in 1 .. Taken /\ 2 \in 1 .. Len(cells)
    <2>1. N # 2 BY <1>6, <1>8
    <2> QED BY <1>1, <1>2, <1>4, <1>7, <2>1
<1>10. Has({"offers"})
    BY <1>8, <1>9 DEF SocksInv, Refuses, Has, Sends
<1>11. Has({"login", "badLogin"})
    BY <1>10 DEF SocksInv
<1>12. PICK i \in 1 .. Len(cells) : cells[i] \in {"login", "badLogin"}
    BY <1>11 DEF Has, Sends
<1>13. i \in 1 .. N
    BY <1>1, <1>12 DEF FollowsSocks, SocksCells, N
<1>14. i \in 1 .. Taken
    <2>1. i # N BY <1>6, <1>12
    <2> QED BY <1>1, <1>2, <1>4, <1>13, <2>1
<1>15. cells[i] = "login"
    BY <1>12, <1>14 DEF SocksInv, Refuses, Refused
<1> QED BY <1>12, <1>14, <1>15 DEF SocksInv, Has, Sends

\* Every step keeps what the replies mean.
LEMMA StepSocksInv ==
    TypeOK /\ TypeOK' /\ ReadInv /\ ReadInv' /\ SocksInv /\ [Next]_vars => SocksInv'
<1> SUFFICES ASSUME TypeOK, TypeOK', ReadInv, ReadInv', SocksInv, [Next]_vars PROVE SocksInv'
    OBVIOUS
<1>a. /\ UNCHANGED <<cells, auth>>
      /\ \A kinds : Has(kinds)' = Has(kinds)
      /\ SocksLength(cells)' = SocksLength(cells)
      /\ \A c : Refuses(c)' = Refuses(c)
    BY GivenStays DEF Has, Refuses
<1>b. \A what \in {"granted", "welcome"} : Told(what) => Told(what)'
    BY ToldStays
<1>c. (Has({"offers"}) => auth = Has({"login", "badLogin"}))'
    BY <1>a DEF SocksInv
\* A step that starts nothing, takes nothing and routes nothing.
<1>d. ASSUME at' = "socks" => at = "socks" /\ Taken' = Taken,
             at' \in {"lead", "head"} \cup Hops => at \in {"lead", "head"} \cup Hops
      PROVE  SocksInv'
    <2>1. at' = "socks" =>
            /\ SocksLength(cells)' > 0
            /\ \A i \in 1 .. Taken' : ~Refuses(cells[i])' /\ (cells[i]' = "login" => Told("welcome")')
        BY <1>a, <1>b, <1>d DEF SocksInv
    <2>2. at' \in {"lead", "head"} \cup Hops /\ Has({"v5", "v4"})' =>
            /\ Told("granted")'
            /\ auth' /\ Has({"v5"})' => Has({"login"})' /\ Told("welcome")'
        BY <1>a, <1>b, <1>d DEF SocksInv
    <2> QED BY <1>c, <2>1, <2>2 DEF SocksInv
<1>1. ASSUME NEW n \in 1 .. Len(cells), Arrive(n) PROVE SocksInv'
    <2> DEFINE chunk == Places(pos, n)
    <2>1. /\ held' = IF hop = "none" THEN held \o chunk ELSE held
          /\ at' = IF at = "first" THEN FirstReader(chunk) ELSE at
          /\ pos' = pos + n
        BY <1>1 DEF Arrive
    <2>2. CASE at = "first"
        <3>1. pos = 0 /\ held = <<>> /\ hop = "none" /\ n \in Nat /\ 1 \in 1 .. n
            BY <2>2 DEF ReadInv, Hops
        <3>2. chunk \in Seq(Nat) /\ Len(chunk) = n /\ chunk[1] = 1
            <4>1. pos \in Nat BY SizesAreNaturals
            <4>2. chunk \in Seq(Nat) /\ Len(chunk) = n /\ \A i \in 1 .. n : chunk[i] = pos + i
                BY <3>1, <4>1, PlacesProperties
            <4> HIDE DEF chunk
            <4> QED BY <3>1, <4>2
        <3> HIDE DEF chunk
        <3>3. held' = chunk /\ at' = FirstReader(chunk) /\ Taken' = 0
            BY <2>1, <2>2, <3>1, <3>2, ConcatEmptySeq DEF Taken
        <3>4. CASE cells[1] \in {"v5", "v4"}
            <4>1. at' = "socks"
                BY <3>2, <3>3, <3>4 DEF FirstReader, Kind
            <4>2. Has({cells[1]}) /\ SocksLength(cells) > 0
                <5>1. 1 \in 1 .. Len(cells) BY SizesAreNaturals
                <5>2. Has({cells[1]}) BY <5>1 DEF Has, Sends
                <5> QED BY <3>4, <5>2, VersionFirst
            <4> QED BY <1>a, <1>c, <3>3, <4>1, <4>2 DEF SocksInv, Hops
        <3>5. CASE cells[1] \notin {"v5", "v4"}
            <4>1. at' = "head"
                BY <3>2, <3>3, <3>5 DEF FirstReader, Kind
            <4>2. ~Has({"v5", "v4"})
                <5>1. ~Has({"v5"}) /\ ~Has({"v4"}) BY <3>5, VersionFirst
                <5> QED BY <5>1 DEF Has, Sends
            <4> QED BY <1>a, <1>c, <4>1, <4>2 DEF SocksInv
        <3> QED BY <3>4, <3>5
    <2>3. CASE at # "first"
        <3>1. at' = at BY <2>1, <2>3
        <3>2. at' = "socks" => Taken' = Taken
            <4> SUFFICES ASSUME at = "socks" PROVE Taken' = Taken
                BY <3>1
            <4>1. held' = held \o chunk /\ held \in Seq(Nat) /\ Len(held) \in Nat
                BY <2>1, SizesAreNaturals DEF ReadInv, Hops
            <4>2. chunk \in Seq(Nat) /\ Len(chunk) = n /\ n \in Nat /\ pos \in Nat
                BY PlacesProperties, SizesAreNaturals
            <4> HIDE DEF chunk
            <4>3. Len(held') = Len(held) + n BY <4>1, <4>2, ConcatProperties
            <4>4. pos' = pos + n /\ pos \in Nat /\ n \in Nat BY <2>1, <4>2
            <4> QED BY <4>1, <4>3, <4>4 DEF Taken
        <3> QED BY <1>d, <3>1, <3>2
    <2> QED BY <2>2, <2>3
<1>2. ASSUME SocksReads PROVE SocksInv'
    <2> DEFINE c == cells[Head(held)]
    <2>1. /\ at = "socks" /\ held # <<>> /\ held' = Tail(held) /\ ~Refuses(c)
          /\ UNCHANGED <<pos, at>>
          /\ c = "login" => told' = Append(told, "welcome")
        BY <1>2 DEF SocksReads, Kind, Say
    <2>2. /\ Taken \in Nat /\ Len(held) \in Nat /\ Len(held) > 0 /\ Taken + Len(held) = pos
          /\ Head(held) = Taken + 1 /\ held' = Places(Taken + 1, Len(held) - 1)
        BY <2>1, ReaderHolds
    <2>3. Taken' = Taken + 1
        <3>1. Len(held) - 1 \in Nat /\ Taken + 1 \in Nat BY <2>2
        <3>2. Len(held') = Len(held) - 1 BY <2>2, <3>1, PlacesProperties
        <3> QED BY <2>1, <2>2, <3>2 DEF Taken
    <2>4. ASSUME NEW i \in 1 .. Taken + 1
          PROVE  ~Refuses(cells[i]) /\ (cells[i] = "login" => Told("welcome")')
        <3>1. CASE i = Taken + 1
            <4>1. "welcome" \in Words BY DEF Words
            <4> QED BY <2>1, <2>2, <3>1, <4>1, SayKeeps
        <3>2. CASE i # Taken + 1
            <4>1. i \in 1 .. Taken BY <2>2, <3>2
            <4> QED BY <1>b, <2>1, <4>1 DEF SocksInv
        <3> QED BY <3>1, <3>2
    <2> QED BY <1>a, <1>c, <2>1, <2>3, <2>4 DEF SocksInv, Hops
<1>3. ASSUME SocksRefuses PROVE SocksInv'
    BY <1>3, <1>d DEF SocksRefuses, Close, Hops
<1>4. ASSUME SocksGrants PROVE SocksInv'
    <2>1. /\ at = "socks" /\ held # <<>> /\ Grants(cells[Head(held)]) /\ at' = "lead"
          /\ told' = Append(told, "granted") /\ "granted" \in Words
        BY <1>4 DEF SocksGrants, Kind, Say, Words
    <2>2. Told("granted")'
        BY <2>1, SayKeeps
    <2>3. auth /\ Has({"v5"}) => Has({"login"}) /\ Told("welcome")
        BY <2>1, GrantAfterLogin
    <2> QED BY <1>a, <1>b, <1>c, <2>1, <2>2, <2>3 DEF SocksInv
<1>5. ASSUME AfterSocks PROVE SocksInv'
    <2>1. at = "lead" /\ at' # "socks"
        BY <1>5 DEF AfterSocks, ConnectOn, TunnelTo
    <2> QED BY <1>d, <2>1
<1>6. ASSUME HeadComplete PROVE SocksInv'
    <2>1. at = "head" /\ at' # "socks"
        BY <1>6 DEF HeadComplete, Close, ConnectOn, TunnelTo
    <2> QED BY <1>d, <2>1
<1>7. ASSUME HeadTooLong PROVE SocksInv'
    BY <1>7, <1>d DEF HeadTooLong, Close, Hops
<1>8. ASSUME NEW kind \in Hops, HopUp(kind) PROVE SocksInv'
    BY <1>8, <1>d DEF HopUp, Hops
<1>9. ASSUME RelayReady PROVE SocksInv'
    BY <1>9, <1>d DEF RelayReady
<1>10. ASSUME NEW n \in 1 .. Len(cells), RelayClientData(n) PROVE SocksInv'
    BY <1>10, <1>d DEF RelayClientData
<1>11. ASSUME NEW n \in 1 .. Len(origin), RelayOriginData(n) PROVE SocksInv'
    BY <1>11, <1>d DEF RelayOriginData
<1>12. ASSUME NEW d \in Dirs, Inject(d) PROVE SocksInv'
    BY <1>12, <1>d DEF Inject, front, Taken
<1>13. ASSUME NEW error \in BOOLEAN, ClientLeaves(error) PROVE SocksInv'
    <2>1. /\ at = "socks" /\ at' = "lead" => Has({"v4"}) /\ told' = Append(told, "granted")
          /\ at' \in {at, "lead", "closed"} /\ at' # "socks"
          /\ at' = "lead" => at \in {"socks", "lead"}
        <3>1. at = "socks" => hop = "none"
            BY DEF ReadInv, Hops
        <3>2. at = "closed" => hop = "none"
            BY DEF ReadInv, Hops
        <3> QED BY <1>13, <3>1, <3>2 DEF ClientLeaves, Say
    <2>2. CASE at = "socks" /\ at' = "lead"
        <3>1. cells[1] = "v4" /\ "granted" \in Words
            BY <2>1, <2>2, VersionFirst DEF Words
        <3>2. ~Has({"v5"})
            BY <3>1, VersionFirst
        <3>3. Told("granted")'
            BY <2>1, <2>2, <3>1, SayKeeps
        <3> QED BY <1>a, <1>c, <2>2, <3>2, <3>3 DEF SocksInv
    <2>3. CASE ~(at = "socks" /\ at' = "lead")
        <3>1. at' \in {"lead", "head"} \cup Hops => at \in {"lead", "head"} \cup Hops
            BY <2>1, <2>3 DEF Hops
        <3> QED BY <1>d, <2>1, <3>1
    <2> QED BY <2>2, <2>3
<1>14. ASSUME HopEnds PROVE SocksInv'
    BY <1>14, <1>d DEF HopEnds, Taken
<1>15. CASE UNCHANGED vars
    BY <1>15, <1>d DEF vars, Taken
<1> QED
    BY <1>1, <1>2, <1>3, <1>4, <1>5, <1>6, <1>7, <1>8, <1>9, <1>10, <1>11, <1>12, <1>13,
       <1>14, <1>15 DEF Next

\* No SOCKS client is connected before the negotiation granted it, nor one
\* under socksAuth before its password was right (socks.ts:79-168).
THEOREM FrontOnlyGrantedRouted == Spec => []OnlyGrantedRouted
<1>1. TypeOK /\ ReadInv /\ SocksInv => OnlyGrantedRouted
    <2> SUFFICES ASSUME TypeOK, ReadInv, SocksInv, hop # "none", Has({"v5", "v4"})
                 PROVE  /\ Told("granted")
                        /\ auth /\ Has({"v5"}) => Has({"login"}) /\ Told("welcome")
        BY DEF OnlyGrantedRouted, Told
    <2>1. at \in Hops
        BY DEF ReadInv
    <2> QED BY <2>1 DEF SocksInv
<1> QED
    BY <1>1, InitTypeOK, StepTypeOK, InitReadInv, StepReadInv, InitSocksInv, StepSocksInv, PTL
    DEF Spec

-----------------------------------------------------------------------------
(* Ends.                                                                   *)

\* A client that left has no reader to come back to, and a hop that is not yet
\* up knows of it, but for a blind tunnel's and a relay's.
EndInv ==
    /\ client = "gone" => at \notin {"socks", "head"} /\ (at = "lead" => held = <<>>)
    /\ client = "gone" /\ hop = "connecting" => at = "blind" \/ (at = "relay" /\ orphan)
    /\ client = "gone" /\ hop = "up" => orphan
    /\ live => hop = "up" /\ at = "relay"

\* A connection begins with its client.
LEMMA InitEndInv == Init => EndInv
BY DEF Init, EndInv

\* Every step keeps a hop with its client.
LEMMA StepEndInv == TypeOK /\ ReadInv /\ EndInv /\ [Next]_vars => EndInv'
<1> SUFFICES ASSUME TypeOK, ReadInv, EndInv, [Next]_vars PROVE EndInv'
    OBVIOUS
<1>1. ASSUME NEW n \in 1 .. Len(cells), Arrive(n) PROVE EndInv'
    BY <1>1 DEF Arrive, EndInv, ReadInv, Hops, FirstReader
<1>2. ASSUME SocksReads PROVE EndInv'
    BY <1>2 DEF SocksReads, EndInv, relay
<1>3. ASSUME SocksRefuses PROVE EndInv'
    BY <1>3 DEF SocksRefuses, Close, EndInv, ReadInv, Hops, relay
<1>4. ASSUME SocksGrants PROVE EndInv'
    BY <1>4 DEF SocksGrants, EndInv, relay
<1>5. ASSUME AfterSocks PROVE EndInv'
    BY <1>5 DEF AfterSocks, ConnectOn, EndInv, ReadInv, Hops, relay
<1>6. ASSUME HeadComplete PROVE EndInv'
    <2>1. at = "head" /\ client = "open" /\ hop = "none" /\ ~live
        BY <1>6 DEF HeadComplete, EndInv, ReadInv, Hops, TypeOK
    <2>2. /\ UNCHANGED live
          /\ (client' = "open") \/ (client' = "gone" /\ at' = "closed" /\ hop' = hop)
        BY <1>6, <2>1 DEF HeadComplete, Close, relay
    <2> QED BY <2>1, <2>2 DEF EndInv
<1>7. ASSUME HeadTooLong PROVE EndInv'
    BY <1>7 DEF HeadTooLong, Close, EndInv, ReadInv, Hops, relay
<1>8. ASSUME NEW kind \in Hops, HopUp(kind) PROVE EndInv'
    BY <1>8 DEF HopUp, EndInv, Hops, TypeOK
<1>9. ASSUME RelayReady PROVE EndInv'
    BY <1>9 DEF RelayReady, EndInv
<1>10. ASSUME NEW n \in 1 .. Len(cells), RelayClientData(n) PROVE EndInv'
    BY <1>10 DEF RelayClientData, EndInv
<1>11. ASSUME NEW n \in 1 .. Len(origin), RelayOriginData(n) PROVE EndInv'
    BY <1>11 DEF RelayOriginData, EndInv
<1>12. ASSUME NEW d \in Dirs, Inject(d) PROVE EndInv'
    BY <1>12 DEF Inject, front, EndInv
<1>13. ASSUME NEW error \in BOOLEAN, ClientLeaves(error) PROVE EndInv'
    <2>1. hop \in {"none", "connecting", "up", "closed"}
        BY DEF TypeOK
    <2>2. at = "socks" \/ at = "lead" \/ at = "head" => hop = "none"
        BY DEF ReadInv, Hops
    <2>3. /\ client' = "gone" /\ held' = held
          /\ at' \notin {"socks", "head"}
          /\ at' = "lead" => held = <<>>
        BY <1>13, <2>2 DEF ClientLeaves, Ready
    <2>4. /\ hop' = "connecting" => hop = "connecting" /\ at' = at /\ at \in {"relay", "blind"}
          /\ hop' # "up"
        BY <1>13, <2>1, <2>2 DEF ClientLeaves
    <2>5. hop' = "connecting" /\ at = "relay" => orphan'
        BY <1>13, <2>1 DEF ClientLeaves
    <2>6. live' => live /\ hop = "connecting"
        BY <1>13 DEF ClientLeaves
    <2>7. ~live'
        BY <2>6 DEF EndInv
    <2> QED BY <2>3, <2>4, <2>5, <2>7 DEF EndInv
<1>14. ASSUME HopEnds PROVE EndInv'
    BY <1>14 DEF HopEnds, EndInv, ReadInv, Hops
<1>15. CASE UNCHANGED vars
    BY <1>15 DEF vars, EndInv
<1> QED
    BY <1>1, <1>2, <1>3, <1>4, <1>5, <1>6, <1>7, <1>8, <1>9, <1>10, <1>11, <1>12, <1>13,
       <1>14, <1>15 DEF Next

\* No hop outlives its client and no entry of liveSockets its relay, but for the
\* relay of a client that left before the origin was ready
\* (websocket.ts:80-90, 160-161; proxy.ts:390-443).
THEOREM FrontEndsWithClient == Spec => []EndsWithClient
<1>1. EndInv => EndsWithClient
    BY DEF EndInv, EndsWithClient
<1> QED
    BY <1>1, InitTypeOK, StepTypeOK, InitReadInv, StepReadInv, InitEndInv, StepEndInv, PTL
    DEF Spec

-----------------------------------------------------------------------------
(* The bytes.                                                              *)

\* Nothing has been written, parsed or captured before the hop is up.
FreshInv ==
    hop \in {"none", "connecting"} =>
        /\ wire = [d \in Dirs |-> <<>>] /\ log = [d \in Dirs |-> <<>>]
        /\ parser = [d \in Dirs |-> NewParser]
        /\ opos = 0 /\ ~deflate /\ ~cut

\* Nothing has been written at first.
LEMMA InitFreshInv == Init => FreshInv
BY DEF Init, FreshInv

\* Nothing is written, parsed or captured until the hop is up.
LEMMA StepFreshInv == TypeOK /\ ReadInv /\ EndInv /\ FreshInv /\ [Next]_vars => FreshInv'
<1> SUFFICES ASSUME TypeOK, ReadInv, EndInv, FreshInv, [Next]_vars PROVE FreshInv'
    OBVIOUS
<1>a. hop \in {"none", "connecting", "up", "closed"}
    BY DEF TypeOK
<1>b. ASSUME UNCHANGED <<opos, deflate, parser, wire, log, cut>>,
             hop' \in {"none", "connecting"} => hop \in {"none", "connecting"}
      PROVE  FreshInv'
    BY <1>b DEF FreshInv
<1>1. ASSUME NEW n \in 1 .. Len(cells), Arrive(n) PROVE FreshInv'
    <2>1. CASE hop = "up"
        BY <1>1, <2>1 DEF Arrive, FreshInv
    <2>2. CASE hop # "up"
        BY <1>1, <1>b, <2>2 DEF Arrive
    <2> QED BY <2>1, <2>2
<1>2. ASSUME SocksReads PROVE FreshInv'
    BY <1>2, <1>b DEF SocksReads, relay
<1>3. ASSUME SocksRefuses PROVE FreshInv'
    BY <1>3, <1>b DEF SocksRefuses, relay
<1>4. ASSUME SocksGrants PROVE FreshInv'
    BY <1>4, <1>b DEF SocksGrants, relay
<1>5. ASSUME AfterSocks PROVE FreshInv'
    BY <1>5, <1>b DEF AfterSocks, ConnectOn, relay, ReadInv, Hops
<1>6. ASSUME HeadComplete PROVE FreshInv'
    <2>1. hop = "none"
        BY <1>6 DEF HeadComplete, ReadInv, Hops
    <2> QED BY <1>6, <1>b, <2>1 DEF HeadComplete, relay
<1>7. ASSUME HeadTooLong PROVE FreshInv'
    BY <1>7, <1>b DEF HeadTooLong, relay
<1>8. ASSUME NEW kind \in Hops, HopUp(kind) PROVE FreshInv'
    BY <1>8 DEF HopUp, FreshInv
<1>9. ASSUME RelayReady PROVE FreshInv'
    BY <1>9 DEF RelayReady, FreshInv
<1>10. ASSUME NEW n \in 1 .. Len(cells), RelayClientData(n) PROVE FreshInv'
    BY <1>10 DEF RelayClientData, FreshInv
<1>11. ASSUME NEW n \in 1 .. Len(origin), RelayOriginData(n) PROVE FreshInv'
    BY <1>11 DEF RelayOriginData, FreshInv
<1>12. ASSUME NEW d \in Dirs, Inject(d) PROVE FreshInv'
    BY <1>12 DEF Inject, front, EndInv, FreshInv
<1>13. ASSUME NEW error \in BOOLEAN, ClientLeaves(error) PROVE FreshInv'
    BY <1>13, <1>b DEF ClientLeaves
<1>14. ASSUME HopEnds PROVE FreshInv'
    BY <1>14 DEF HopEnds, FreshInv
<1>15. CASE UNCHANGED vars
    BY <1>15 DEF vars, FreshInv
<1> QED
    BY <1>1, <1>2, <1>3, <1>4, <1>5, <1>6, <1>7, <1>8, <1>9, <1>10, <1>11, <1>12, <1>13,
       <1>14, <1>15 DEF Next

Tunnelling == {"connect", "connectSelf", "upgrade"}

\* Without a request for a tunnel the hop gets everything after SOCKS.
LEMMA StartOfRequest ==
    ASSUME TypeOK, SocksLength(cells) < Len(cells),
           cells[SocksLength(cells) + 1] \notin Tunnelling
    PROVE  Start = SocksLength(cells)
<1>1. ~Has(Tunnelling)
    BY ClientShape DEF Has, Sends, FollowsHttp, Tunnelling
<1> QED BY <1>1 DEF Start, Tunnelling

\* The first blank of the head is the first of all.
LEMMA StartOfTunnel ==
    ASSUME TypeOK, ReadInv, at = "head", Blanks(held) # {},
           cells[SocksLength(cells) + 1] \in Tunnelling
    PROVE  LET end == CHOOSE i \in Blanks(held) : \A j \in Blanks(held) : i <= j
           IN  /\ Start = SocksLength(cells) + end
               /\ Start \in 1 .. Len(cells) /\ cells[Start] = "blank"
               /\ \A j \in 1 .. Start - 1 : cells[j] # "blank"
               /\ end \in 1 .. Len(held)
<1> DEFINE end == CHOOSE i \in Blanks(held) : \A j \in Blanks(held) : i <= j
           N == SocksLength(cells)
           First(i) == i \in 1 .. Len(cells) /\ cells[i] = "blank"
                       /\ \A j \in 1 .. i - 1 : cells[j] # "blank"
<1>1. /\ N \in Nat /\ N <= Len(cells) /\ Len(cells) \in Nat /\ FollowsSocks(cells)
      /\ Len(held) \in Nat /\ held \in Seq(Nat) /\ pos \in Nat /\ pos <= Len(cells)
    BY ClientShape, SizesAreNaturals
<1>2. end \in Blanks(held) /\ \A j \in Blanks(held) : end <= j
    BY <1>1, FirstBlank
<1>3. N + Len(held) = pos /\ \A i \in 1 .. Len(held) : held[i] = N + i
    BY ReaderHolds DEF ReadInv
<1> HIDE DEF end, N
<1>4. end \in 1 .. Len(held) /\ cells[N + end] = "blank"
    BY <1>2, <1>3 DEF Blanks, Kind
<1>5. First(N + end)
    <2>1. ASSUME NEW j \in 1 .. N + end - 1 PROVE cells[j] # "blank"
        <3>1. CASE j <= N
            <4>1. cells[j] \in SocksCells
                BY <1>1, <3>1 DEF FollowsSocks, N
            <4> QED BY <4>1 DEF SocksCells
        <3>2. CASE j > N
            <4>1. j - N \in 1 .. Len(held) /\ j - N < end /\ N + (j - N) = j
                BY <1>1, <1>4, <3>2
            <4>2. j - N \notin Blanks(held)
                BY <1>2, <1>4, <4>1
            <4>3. held[j - N] = j
                BY <1>3, <4>1
            <4> QED BY <4>1, <4>2, <4>3 DEF Blanks, Kind
        <3> QED BY <1>1, <1>4, <3>1, <3>2
    <2> QED BY <1>1, <1>3, <1>4, <2>1
<1>6. ASSUME NEW i, First(i) PROVE i = N + end
    <2>1. i \in Nat /\ N \in Nat /\ end \in Nat /\ N + end > 0 /\ i > 0 BY <1>1, <1>4, <1>6
    <2>2. ~(i < N + end)
        <3> SUFFICES ASSUME i < N + end PROVE FALSE OBVIOUS
        <3>1. i \in 1 .. N + end - 1 BY <2>1
        <3> QED BY <1>5, <1>6, <3>1
    <2>3. ~(N + end < i)
        <3> SUFFICES ASSUME N + end < i PROVE FALSE OBVIOUS
        <3>1. N + end \in 1 .. i - 1 BY <2>1
        <3> QED BY <1>5, <1>6, <3>1
    <2> QED BY <2>1, <2>2, <2>3
<1>7. HeadEnd = N + end
    <2>1. HeadEnd = CHOOSE i \in 1 .. Len(cells) : First(i)
        BY DEF HeadEnd
    <2>2. \E i \in 1 .. Len(cells) : First(i)
        BY <1>5
    <2>3. First(CHOOSE i \in 1 .. Len(cells) : First(i))
        <3> HIDE DEF First
        <3> QED BY <2>2
    <2> HIDE DEF First
    <2> QED BY <1>6, <2>1, <2>3
<1>8. Has(Tunnelling)
    <2>1. N + 1 \in 1 .. Len(cells)
        BY <1>1, <1>3, <1>4
    <2> QED BY <2>1 DEF Has, Sends, N
<1>9. Start = HeadEnd
    BY <1>8 DEF Start, Tunnelling
<1> QED BY <1>4, <1>5, <1>7, <1>9 DEF end, N

\* The part of the stream that begins at Start is what the hop has, or what is
\* held for it.
HopInv ==
    /\ hop \in {"connecting", "up"} => Start \in 0 .. pos
    /\ hop = "connecting" => held = Places(Start, pos - Start)
    /\ BytesThreaded

\* More of the stream is written after what has been.
LEMMA WriteOn ==
    ASSUME NEW w \in Seq(Nat), NEW m \in Nat, NEW start \in Nat, NEW p \in Nat, NEW n \in Nat,
           start <= p, p + n <= m,
           Only(w, 1 .. m) = Places(start, p - start)
    PROVE  Only(w \o Places(p, n), 1 .. m) = Places(start, (p + n) - start)
<1> DEFINE chunk == Places(p, n)
<1>1. chunk \in Seq(Nat) /\ Len(chunk) = n /\ \A i \in 1 .. n : chunk[i] = p + i
    BY PlacesProperties
<1>2. Only(chunk, 1 .. m) = chunk
    <2>1. \A i \in 1 .. Len(chunk) : chunk[i] \in 1 .. m
        BY <1>1
    <2> HIDE DEF chunk
    <2> QED BY <1>1, <2>1, OnlyAll
<1> HIDE DEF chunk
<1>3. Only(w \o chunk, 1 .. m) = Places(start, p - start) \o chunk
    <2> DEFINE T == 1 .. m
    <2>1. Only(w, T) = Places(start, p - start) /\ Only(chunk, T) = chunk
        BY <1>2
    <2> HIDE DEF T
    <2>2. Only(w \o chunk, T) = Only(w, T) \o Only(chunk, T)
        BY <1>1, OnlyConcat
    <2> QED BY <2>1, <2>2 DEF T
<1>4. Places(start, p - start) \o chunk = Places(start, (p + n) - start)
    <2> DEFINE k == p - start
    <2>1. k \in Nat /\ start + k = p /\ (p + n) - start = k + n
        OBVIOUS
    <2> HIDE DEF k
    <2>2. Places(start, k) \o Places(start + k, n) = Places(start, k + n)
        BY <2>1, PlacesConcat
    <2> QED BY <2>1, <2>2 DEF k, chunk
<1> QED BY <1>3, <1>4 DEF chunk

\* The hop that comes up gets what was held for it.
LEMMA HeldIsWritten ==
    ASSUME TypeOK, FreshInv, HopInv, hop = "connecting"
    PROVE  Only(wire["up"] \o held, 1 .. Len(cells)) = Places(Start, pos - Start)
<1>1. Start \in Nat /\ Start <= pos /\ held = Places(Start, pos - Start) /\ pos \in Nat
      /\ Len(cells) \in Nat /\ pos <= Len(cells) /\ held \in Seq(Nat)
    BY SizesAreNaturals DEF HopInv
<1>2. wire["up"] \o held = held
    BY <1>1, ConcatEmptySeq DEF FreshInv, Dirs
<1>3. \A i \in 1 .. Len(held) : held[i] \in 1 .. Len(cells)
    BY ElementOfSeq DEF TypeOK
<1>4. Only(held, 1 .. Len(cells)) = held
    BY <1>1, <1>3, OnlyAll
<1> QED BY <1>1, <1>2, <1>4

\* There is no hop at first.
LEMMA InitHopInv == Init => HopInv
BY DEF Init, HopInv, BytesThreaded

\* A chunk the relay or the pipe writes on keeps the bytes threaded.
LEMMA ChunkThreads ==
    ASSUME TypeOK, HopInv, hop = "up", NEW n \in Nat, pos + n <= Len(cells),
           pos' = pos + n, wire' = [wire EXCEPT !["up"] = @ \o Places(pos, n)],
           cells' = cells, hop' = hop
    PROVE  HopInv'
<1>1. /\ Start \in Nat /\ Start <= pos /\ pos \in Nat /\ Len(cells) \in Nat
      /\ Only(wire["up"], 1 .. Len(cells)) = Places(Start, pos - Start)
      /\ wire["up"] \in Seq(Nat)
    BY SizesAreNaturals DEF HopInv, BytesThreaded, TypeOK, Dirs
<1>2. Start' = Start
    BY DEF Start, Has, HeadEnd
<1>3. wire'["up"] = wire["up"] \o Places(pos, n)
    BY DEF TypeOK, Dirs
<1> DEFINE w == wire["up"]
           m == Len(cells)
           start == Start
           p == pos
<1>4. Only(w \o Places(p, n), 1 .. m) = Places(start, (p + n) - start)
    <2>1. /\ w \in Seq(Nat) /\ m \in Nat /\ start \in Nat /\ p \in Nat /\ start <= p /\ p + n <= m
          /\ Only(w, 1 .. m) = Places(start, p - start)
        BY <1>1
    <2> HIDE DEF w, m, start, p
    <2> QED BY <2>1, WriteOn
<1>5. Start' \in 0 .. pos'
    BY <1>1, <1>2
<1> QED BY <1>2, <1>3, <1>4, <1>5 DEF HopInv, BytesThreaded

\* Every step keeps the bytes threaded, if a client waits while no one listens.
LEMMA StepHopInv ==
    ASSUME ~Hasty
    PROVE  TypeOK /\ ReadInv /\ EndInv /\ FreshInv /\ HopInv /\ [Next]_vars => HopInv'
<1> SUFFICES ASSUME TypeOK, ReadInv, EndInv, FreshInv, HopInv, [Next]_vars PROVE HopInv'
    OBVIOUS
<1>a. Start' = Start /\ Len(cells)' = Len(cells)
    <2>1. cells' = cells
        BY GivenStays
    <2> QED BY <2>1 DEF Start, Has, HeadEnd
<1>b. /\ SocksLength(cells) \in Nat /\ SocksLength(cells) <= Len(cells)
      /\ Len(cells) \in Nat /\ Len(held) \in Nat /\ pos \in Nat /\ pos <= Len(cells)
      /\ hop \in {"none", "connecting", "up", "closed"}
    BY ClientShape, SizesAreNaturals DEF TypeOK
\* A step that moves no byte and connects nothing.
<1>c. ASSUME UNCHANGED <<pos, held, wire>>, hop' \in {hop, "none", "closed"}
      PROVE  HopInv'
    BY <1>a, <1>c DEF HopInv, BytesThreaded
<1>d. ASSUME hop' \in {"none", "closed"} PROVE HopInv'
    BY <1>d DEF HopInv, BytesThreaded
<1>1. ASSUME NEW n \in 1 .. Len(cells), Arrive(n) PROVE HopInv'
    <2>1. CASE hop = "up"
        <3>1. /\ n \in Nat /\ pos + n <= Len(cells) /\ pos' = pos + n /\ cells' = cells
              /\ wire' = [wire EXCEPT !["up"] = @ \o Places(pos, n)] /\ hop' = hop
            BY <1>1, <2>1 DEF Arrive
        <3> QED BY <2>1, <3>1, ChunkThreads
    <2>2. CASE hop # "up"
        <3>1. hop # "connecting"
            BY <1>1, <2>2 DEF Arrive, Listening, ReadInv, Hops
        <3> QED BY <1>1, <1>b, <1>d, <2>2, <3>1 DEF Arrive
    <2> QED BY <2>1, <2>2
<1>2. ASSUME SocksReads PROVE HopInv'
    BY <1>2, <1>d DEF SocksReads, ReadInv, Hops
<1>3. ASSUME SocksRefuses PROVE HopInv'
    BY <1>3, <1>d DEF SocksRefuses, ReadInv, Hops
<1>4. ASSUME SocksGrants PROVE HopInv'
    BY <1>4, <1>d DEF SocksGrants, ReadInv, Hops
<1>5. ASSUME AfterSocks PROVE HopInv'
    <2>1. at = "lead" /\ held # <<>> /\ hop = "none" /\ Taken = SocksLength(cells)
          /\ UNCHANGED <<pos, held, wire>>
        BY <1>5 DEF AfterSocks, ReadInv, Hops, relay
    <2>2. CASE cells[Head(held)] = "hello"
        <3>1. /\ Taken + Len(held) = pos /\ Taken < Len(cells) /\ Head(held) = Taken + 1
              /\ held = Places(Taken, Len(held))
            BY <2>1, ReaderHolds
        <3>2. Start = Taken
            BY <2>1, <2>2, <3>1, StartOfRequest DEF Tunnelling
        <3>3. pos - Start = Len(held) /\ Start \in 0 .. pos
            BY <1>b, <2>1, <3>1, <3>2
        <3>4. hop' = "connecting"
            BY <1>5, <2>2 DEF AfterSocks, ConnectOn, Kind
        <3> QED BY <1>a, <2>1, <3>1, <3>2, <3>3, <3>4 DEF HopInv, BytesThreaded
    <2>3. CASE cells[Head(held)] # "hello"
        BY <1>5, <1>d, <2>1, <2>3 DEF AfterSocks, Kind
    <2> QED BY <2>2, <2>3
<1>6. ASSUME HeadComplete PROVE HopInv'
    <2> DEFINE end == CHOOSE i \in Blanks(held) : \A j \in Blanks(held) : i <= j
               method == cells[held[1]]
               after == SubSeq(held, end + 1, Len(held))
               N == SocksLength(cells)
    <2>1. at = "head" /\ hop = "none" /\ Taken = N /\ Blanks(held) # {} /\ UNCHANGED <<pos, wire>>
        BY <1>6 DEF HeadComplete, ReadInv, Hops, relay
    <2>2. /\ N + Len(held) = pos /\ held = Places(N, Len(held))
          /\ \A i \in 1 .. Len(held) : held[i] = N + i
        BY <2>1, ReaderHolds
    <2>3. Len(held) > 0 /\ held[1] = N + 1 /\ N < Len(cells)
        BY <1>b, <2>1, <2>2 DEF Blanks
    <2>4. \/ hop' = hop
          \/ hop' = "connecting" /\ method \in Tunnelling /\ held' = after
          \/ hop' = "connecting" /\ method \notin Tunnelling /\ held' = held
        BY <1>6 DEF HeadComplete, Kind, ConnectOn, Tunnelling
    <2>5. CASE hop' = hop
        BY <1>d, <2>1, <2>5
    <2>6. CASE hop' = "connecting" /\ method \in Tunnelling /\ held' = after
        <3>1. Start = N + end /\ end \in 1 .. Len(held)
            BY <2>1, <2>3, <2>6, StartOfTunnel
        <3>2. SubSeq(held, end + 1, Len(held)) = Places(N + end, Len(held) - end)
            <4> DEFINE k == Len(held)
            <4>1. held = Places(N, k) /\ N \in Nat /\ k \in Nat /\ end \in 0 .. k
                BY <1>b, <2>2, <3>1
            <4> HIDE DEF k, N, end
            <4>2. SubSeq(Places(N, k), end + 1, k) = Places(N + end, k - end)
                BY <4>1, PlacesAfter
            <4> QED BY <4>1, <4>2 DEF k
        <3> HIDE DEF N, end
        <3>3. pos - Start = Len(held) - end /\ Start \in 0 .. pos
            BY <1>b, <2>2, <3>1 DEF N
        <3>4. held' = Places(Start, pos - Start)
            BY <2>6, <3>1, <3>2, <3>3
        <3> QED BY <1>a, <2>1, <2>6, <3>3, <3>4 DEF HopInv, BytesThreaded
    <2>7. CASE hop' = "connecting" /\ method \notin Tunnelling /\ held' = held
        <3>1. Start = N
            BY <2>3, <2>7, StartOfRequest
        <3> HIDE DEF N
        <3>2. pos - Start = Len(held) /\ Start \in 0 .. pos
            BY <1>b, <2>2, <3>1 DEF N
        <3> QED BY <1>a, <2>1, <2>2, <2>7, <3>1, <3>2 DEF HopInv, BytesThreaded
    <2> QED BY <2>4, <2>5, <2>6, <2>7
<1>7. ASSUME HeadTooLong PROVE HopInv'
    BY <1>7, <1>d DEF HeadTooLong, ReadInv, Hops
<1>8. ASSUME NEW kind \in Hops, HopUp(kind) PROVE HopInv'
    <2>1. /\ hop = "connecting" /\ pos' = pos /\ hop' \in {"up", "closed"}
          /\ wire' = [wire EXCEPT !["up"] = @ \o held]
        BY <1>8 DEF HopUp
    <2>2. wire'["up"] = wire["up"] \o held
        BY <2>1 DEF TypeOK, Dirs
    <2> QED BY <1>a, <2>1, <2>2, HeldIsWritten DEF HopInv, BytesThreaded
<1>9. ASSUME RelayReady PROVE HopInv'
    <2>1. /\ hop = "connecting" /\ pos' = pos /\ hop' = "up"
          /\ wire' = [wire EXCEPT !["up"] = @ \o held]
        BY <1>9 DEF RelayReady
    <2>2. wire'["up"] = wire["up"] \o held
        BY <2>1 DEF TypeOK, Dirs
    <2> QED BY <1>a, <2>1, <2>2, HeldIsWritten DEF HopInv, BytesThreaded
<1>10. ASSUME NEW n \in 1 .. Len(cells), RelayClientData(n) PROVE HopInv'
    <2>1. /\ n \in Nat /\ pos + n <= Len(cells) /\ pos' = pos + n /\ cells' = cells
          /\ wire' = [wire EXCEPT !["up"] = @ \o Places(pos, n)] /\ hop = "up" /\ hop' = hop
        BY <1>10 DEF RelayClientData
    <2> QED BY <2>1, ChunkThreads
<1>11. ASSUME NEW n \in 1 .. Len(origin), RelayOriginData(n) PROVE HopInv'
    <2>1. wire'["up"] = wire["up"] /\ UNCHANGED <<pos, held, hop>>
        BY <1>11 DEF RelayOriginData, TypeOK, Dirs
    <2> QED BY <1>a, <2>1 DEF HopInv, BytesThreaded
<1>12. ASSUME NEW d \in Dirs, Inject(d) PROVE HopInv'
    <2>1. /\ wire["up"] \in Seq(Nat) /\ 0 \notin 1 .. Len(cells) /\ 0 \in Nat
          /\ wire'["up"] = IF d = "up" THEN Append(wire["up"], 0) ELSE wire["up"]
          /\ UNCHANGED <<pos, held, hop>>
        BY <1>12 DEF Inject, front, TypeOK, Dirs
    <2>2. Only(Append(wire["up"], 0), 1 .. Len(cells)) = Only(wire["up"], 1 .. Len(cells))
        BY <2>1, OnlyAppend
    <2>3. Only(wire'["up"], 1 .. Len(cells)) = Only(wire["up"], 1 .. Len(cells))
        BY <2>1, <2>2
    <2> QED BY <1>a, <2>1, <2>3 DEF HopInv, BytesThreaded
<1>13. ASSUME NEW error \in BOOLEAN, ClientLeaves(error) PROVE HopInv'
    BY <1>13, <1>c DEF ClientLeaves
<1>14. ASSUME HopEnds PROVE HopInv'
    BY <1>14, <1>d DEF HopEnds
<1>15. CASE UNCHANGED vars
    BY <1>15, <1>c DEF vars
<1> QED
    BY <1>1, <1>2, <1>3, <1>4, <1>5, <1>6, <1>7, <1>8, <1>9, <1>10, <1>11, <1>12, <1>13,
       <1>14, <1>15 DEF Next

\* With a client that waits while no one listens, what the four readers have
\* taken reaches the hop whole and in order (proxy.ts:306-441, socks.ts:47-59).
THEOREM FrontBytesThreaded ==
    ASSUME ~Hasty
    PROVE  Spec => []BytesThreaded
<1>1. HopInv => BytesThreaded
    BY DEF HopInv
<1>2. TypeOK /\ ReadInv /\ EndInv /\ FreshInv /\ HopInv /\ [Next]_vars => HopInv'
    BY StepHopInv
<1> QED
    BY <1>1, <1>2, InitTypeOK, StepTypeOK, InitReadInv, StepReadInv, InitEndInv, StepEndInv,
       InitFreshInv, StepFreshInv, InitHopInv, PTL DEF Spec

-----------------------------------------------------------------------------
(* The messages.                                                           *)

\* The payloads of the message that is not complete at this place.
Opened(stream, upto) ==
    {q \in Payloads(stream) :
        /\ q <= upto /\ stream[q - 1] # "ping"
        /\ \A r \in Payloads(stream) : r <= upto /\ stream[r - 1] \in Final => r < q}

Pending(stream, p) ==
    \E q \in 1 .. p - 1 : /\ stream[q] \in Opening
                          /\ \A r \in q + 1 .. p - 1 : stream[r] \notin Final

\* Where headers and payloads are.
LEMMA FramedPlaces ==
    ASSUME NEW stream \in Seq(STRING), NEW from \in Nat, Framed(stream, from),
           NEW p \in 1 .. Len(stream)
    PROVE  /\ p \in Payloads(stream) <=> p > from /\ (p - from) % 2 = 0
           /\ stream[p] \in FrameHeads <=> p > from /\ (p - from) % 2 = 1
           /\ stream[p] \in Continuing => Pending(stream, p)
           /\ stream[p] \in Opening \cup Unfragmented => ~Pending(stream, p)
BY DEF Framed, Payloads, Pending

\* Before a payload is its header.
LEMMA PayloadHasHead ==
    ASSUME NEW stream \in Seq(STRING), NEW from \in Nat, Framed(stream, from),
           NEW q \in Payloads(stream)
    PROVE  /\ q \in 1 .. Len(stream) /\ q - 1 \in 1 .. Len(stream) /\ q - 1 > from
           /\ stream[q - 1] \in FrameHeads
           /\ q - 1 \notin Payloads(stream)
<1>1. q \in 1 .. Len(stream) /\ Len(stream) \in Nat
    BY LenProperties DEF Payloads
<1>2. q > from /\ (q - from) % 2 = 0
    BY <1>1, FramedPlaces
<1>3. q - 1 > from /\ ((q - 1) - from) % 2 = 1
    BY <1>1, <1>2
<1>4. q - 1 \in 1 .. Len(stream)
    BY <1>1, <1>3
<1> QED BY <1>1, <1>3, <1>4, FramedPlaces

\* After a header is its payload.
LEMMA HeadHasPayload ==
    ASSUME NEW stream \in Seq(STRING), NEW from \in Nat, Framed(stream, from),
           NEW done \in Nat, from <= done, (done - from) % 2 = 0,
           NEW h \in 1 .. Len(stream), stream[h] \in FrameHeads, h <= done, done <= Len(stream)
    PROVE  h + 1 \in Payloads(stream) /\ h + 1 <= done
<1>1. h > from /\ (h - from) % 2 = 1
    BY FramedPlaces
<1>2. h # done /\ h + 1 <= done /\ ((h + 1) - from) % 2 = 0
    BY <1>1
<1>3. h + 1 \in 1 .. Len(stream)
    BY <1>2, LenProperties
<1> QED BY <1>1, <1>2, <1>3, FramedPlaces

\* At the end of a frame a message is open if a frame opened one and none after
\* it was final.
LEMMA OpenedIfPending ==
    ASSUME NEW stream \in Seq(STRING), NEW from \in Nat, Framed(stream, from),
           NEW done \in Nat, from <= done, (done - from) % 2 = 0, done <= Len(stream)
    PROVE  Opened(stream, done) # {} <=> Pending(stream, done + 1)
<1>0. Len(stream) \in Nat /\ (done + 1) - 1 = done
    BY LenProperties
<1>1. ASSUME Pending(stream, done + 1)
      PROVE  Opened(stream, done) # {}
    <2>1. PICK h \in 1 .. done : stream[h] \in Opening
                                 /\ \A r \in h + 1 .. done : stream[r] \notin Final
        BY <1>0, <1>1 DEF Pending
    <2>2. h \in 1 .. Len(stream) /\ stream[h] \in FrameHeads
        BY <1>0, <2>1 DEF FrameHeads
    <2>3. h + 1 \in Payloads(stream) /\ h + 1 <= done
        BY <2>2, HeadHasPayload
    <2>4. ASSUME NEW r \in Payloads(stream), r <= done, stream[r - 1] \in Final
          PROVE  r < h + 1
        <3>1. r \in Nat /\ r - 1 \in Nat BY <1>0, PayloadHasHead
        <3>2. r - 1 # h BY <2>1, <2>4 DEF Opening, Final, Unfragmented
        <3>3. r - 1 \notin h + 1 .. done BY <2>1, <2>4
        <3> QED BY <2>4, <3>1, <3>2, <3>3
    <2>5. (h + 1) - 1 = h /\ stream[h] # "ping"
        BY <2>1 DEF Opening
    <2> QED BY <2>3, <2>4, <2>5 DEF Opened
<1>2. ASSUME NEW q \in Opened(stream, done)
      PROVE  Pending(stream, done + 1)
    <2>1. /\ q \in Payloads(stream) /\ q <= done /\ stream[q - 1] # "ping"
          /\ \A r \in Payloads(stream) : r <= done /\ stream[r - 1] \in Final => r < q
        BY DEF Opened
    <2>2. /\ q \in Nat /\ q - 1 \in 1 .. Len(stream) /\ stream[q - 1] \in FrameHeads
          /\ stream[q] = "~"
        <3>1. stream[q] = "~" BY <2>1 DEF Payloads
        <3> QED BY <1>0, <2>1, <3>1, PayloadHasHead
    <2>3. stream[q - 1] \notin Final
        BY <2>1, <2>2
    <2>4. ASSUME NEW r \in q - 1 .. done PROVE stream[r] \notin Final
        <3> SUFFICES ASSUME stream[r] \in Final PROVE FALSE OBVIOUS
        <3>1. r \in 1 .. Len(stream) /\ stream[r] \in FrameHeads /\ r <= done
            BY <1>0, <2>2 DEF Final, FrameHeads, Continuing
        <3>2. r + 1 \in Payloads(stream) /\ r + 1 <= done
            BY <3>1, HeadHasPayload
        <3>3. (r + 1) - 1 = r BY <3>1
        <3>4. r + 1 < q BY <2>1, <3>2, <3>3
        <3> QED BY <2>2, <3>1, <3>4
    <2>5. CASE stream[q - 1] \in Opening
        <3>1. q - 1 \in 1 .. done BY <1>0, <2>1, <2>2
        <3>2. \A r \in (q - 1) + 1 .. done : r \in q - 1 .. done BY <2>2
        <3> QED BY <1>0, <2>4, <2>5, <3>1, <3>2 DEF Pending
    <2>6. CASE stream[q - 1] \in Continuing
        <3>1. Pending(stream, q - 1)
            BY <2>2, <2>6, FramedPlaces
        <3>2. PICK h \in 1 .. (q - 1) - 1 :
                    stream[h] \in Opening /\ \A r \in h + 1 .. (q - 1) - 1 : stream[r] \notin Final
            BY <3>1 DEF Pending
        <3>3. ASSUME NEW r \in h + 1 .. done PROVE stream[r] \notin Final
            <4>1. CASE r <= (q - 1) - 1 BY <2>2, <3>2, <4>1
            <4>2. CASE r > (q - 1) - 1
                <5>1. r \in q - 1 .. done BY <2>2, <4>2
                <5> QED BY <2>4, <5>1
            <4> QED BY <2>2, <4>1, <4>2
        <3>4. h \in 1 .. done BY <2>1, <2>2
        <3> QED BY <1>0, <3>2, <3>3, <3>4 DEF Pending
    <2> QED
        BY <2>1, <2>2, <2>3, <2>5, <2>6 DEF FrameHeads, Final
<1> QED BY <1>1, <1>2

\* What one more frame leaves open.
LEMMA OpenedNext ==
    ASSUME NEW stream \in Seq(STRING), NEW from \in Nat, Framed(stream, from),
           NEW done \in Nat, from <= done, (done - from) % 2 = 0, done + 2 <= Len(stream)
    PROVE  /\ done + 2 \in Payloads(stream) /\ stream[done + 1] \in FrameHeads
           /\ Opened(stream, done + 2) =
                IF stream[done + 1] = "ping" THEN Opened(stream, done)
                ELSE IF stream[done + 1] \in Final THEN {}
                ELSE Opened(stream, done) \cup {done + 2}
<1>1. /\ Len(stream) \in Nat /\ done + 1 \in 1 .. Len(stream) /\ done + 2 \in 1 .. Len(stream)
      /\ ((done + 1) - from) % 2 = 1 /\ ((done + 2) - from) % 2 = 0
      /\ done + 1 > from /\ done + 2 > from
    BY LenProperties
<1>2. done + 2 \in Payloads(stream) /\ stream[done + 1] \in FrameHeads
    BY <1>1, FramedPlaces
<1>3. done + 1 \notin Payloads(stream)
    BY <1>1, FramedPlaces
<1>4. ASSUME NEW q \in Payloads(stream)
      PROVE  q \in Nat /\ (q <= done + 2 <=> q <= done \/ q = done + 2)
    <2>1. q \in Nat BY DEF Payloads
    <2>2. q # done + 1 BY <1>3
    <2> QED BY <2>1, <2>2
<1>5. (done + 2) - 1 = done + 1
    OBVIOUS
<1>6. CASE stream[done + 1] = "ping"
    <2>1. stream[done + 1] \notin Final
        BY <1>6 DEF Final, Unfragmented
    <2>2. ASSUME NEW q \in Payloads(stream)
          PROVE  q \in Opened(stream, done + 2) <=> q \in Opened(stream, done)
        BY <1>4, <1>5, <1>6, <2>1 DEF Opened
    <2>3. Opened(stream, done + 2) \subseteq Payloads(stream)
          /\ Opened(stream, done) \subseteq Payloads(stream)
        BY DEF Opened
    <2> QED BY <1>2, <1>6, <2>2, <2>3
<1>7. CASE stream[done + 1] # "ping" /\ stream[done + 1] \in Final
    <2>1. ASSUME NEW q \in Opened(stream, done + 2) PROVE FALSE
        <3>1. q \in Payloads(stream) /\ q <= done + 2
              /\ (done + 2 <= done + 2 /\ stream[(done + 2) - 1] \in Final => done + 2 < q)
            BY <1>2 DEF Opened
        <3>2. q \in Nat BY <3>1, <1>4
        <3> QED BY <1>5, <1>7, <3>1, <3>2
    <2> QED BY <1>2, <1>7, <2>1
<1>8. CASE stream[done + 1] # "ping" /\ stream[done + 1] \notin Final
    <2>1. ASSUME NEW q \in Payloads(stream)
          PROVE  q \in Opened(stream, done + 2) <=> q \in Opened(stream, done) \cup {done + 2}
        <3>1. CASE q = done + 2
            BY <1>2, <1>4, <1>5, <1>8, <3>1 DEF Opened
        <3>2. CASE q # done + 2
            BY <1>2, <1>4, <1>5, <1>8, <3>2 DEF Opened
        <3> QED BY <3>1, <3>2
    <2>2. Opened(stream, done + 2) \subseteq Payloads(stream)
          /\ Opened(stream, done) \cup {done + 2} \subseteq Payloads(stream)
        BY <1>2 DEF Opened
    <2> QED BY <1>2, <1>8, <2>1, <2>2
<1> QED BY <1>6, <1>7, <1>8

\* The message that a frame completes is what was open, and its payload.
LEMMA MessageOfOpened ==
    ASSUME NEW stream \in Seq(STRING), NEW from \in Nat, Framed(stream, from),
           NEW done \in Nat, from <= done, (done - from) % 2 = 0, done + 2 <= Len(stream),
           NEW zips \in BOOLEAN, stream[done + 1] # "ping"
    PROVE  MessageAt(stream, done + 2, zips) =
             Message(Opened(stream, done) \cup {done + 2},
                     zips /\ \E q \in Opened(stream, done) \cup {done + 2} :
                                stream[q - 1] \in Deflated)
<1> DEFINE P == done + 2
           data == {q \in 1 .. P : stream[q] = "~" /\ stream[q - 1] # "ping"}
           final == {q \in data : q < P /\ stream[q - 1] \in Final}
           parts == {q \in data : \A r \in final : r < q}
<1>1. Len(stream) \in Nat /\ P \in Payloads(stream) /\ P - 1 = done + 1 /\ done + 1 \in 1 .. Len(stream)
    <2>1. Len(stream) \in Nat
        BY LenProperties
    <2>2. done + 2 \in Payloads(stream)
        BY OpenedNext
    <2> QED BY <2>1, <2>2
<1>2. done + 1 \notin Payloads(stream)
    <2>1. P - 1 \notin Payloads(stream) BY <1>1, PayloadHasHead
    <2> QED BY <1>1, <2>1
<1>3. ASSUME NEW q \in 1 .. P
      PROVE  q \in data <=> q \in Payloads(stream) /\ stream[q - 1] # "ping"
    BY <1>1 DEF Payloads
<1>4. ASSUME NEW q
      PROVE  q \in final <=> q \in Payloads(stream) /\ q <= done /\ stream[q - 1] \in Final
    <2>1. ASSUME q \in final
          PROVE  q \in Payloads(stream) /\ q <= done /\ stream[q - 1] \in Final
        <3>1. q \in 1 .. P /\ q < P /\ q \in Payloads(stream) /\ stream[q - 1] \in Final
            BY <2>1, <1>3
        <3>2. q # done + 1 BY <1>2, <3>1
        <3> QED BY <3>1, <3>2
    <2>2. ASSUME q \in Payloads(stream), q <= done, stream[q - 1] \in Final
          PROVE  q \in final
        <3>1. q \in 1 .. P /\ q < P BY <2>2 DEF Payloads
        <3>2. stream[q - 1] # "ping" BY <2>2 DEF Final, Unfragmented
        <3>3. q \in data BY <1>3, <2>2, <3>1, <3>2
        <3> HIDE DEF data
        <3> QED BY <2>2, <3>1, <3>3
    <2> QED BY <2>1, <2>2
<1>5. parts = Opened(stream, done) \cup {P}
    <2> HIDE DEF final
    <2>1. ASSUME NEW q \in parts PROVE q \in Opened(stream, done) \cup {P}
        <3>1. q \in 1 .. P /\ q \in Payloads(stream) /\ stream[q - 1] # "ping"
            BY <1>3
        <3>2. \A r \in Payloads(stream) : r <= done /\ stream[r - 1] \in Final => r < q
            BY <1>4
        <3>3. q # done + 1 BY <1>2, <3>1
        <3>4. q <= done \/ q = P BY <3>1, <3>3
        <3> QED BY <3>1, <3>2, <3>4 DEF Opened
    <2>2. ASSUME NEW q \in Opened(stream, done) PROVE q \in parts
        <3>1. q \in Payloads(stream) /\ q <= done /\ stream[q - 1] # "ping" /\ q \in 1 .. P
            BY DEF Opened, Payloads
        <3>2. q \in data BY <1>3, <3>1
        <3>3. \A r \in final : r < q BY <1>4 DEF Opened
        <3> HIDE DEF data
        <3> QED BY <3>2, <3>3
    <2>3. P \in parts
        <3>1. P \in 1 .. P /\ stream[P - 1] # "ping" BY <1>1
        <3>2. P \in data BY <1>1, <1>3, <3>1
        <3>3. \A r \in final : r < P
            <4> SUFFICES ASSUME NEW r \in final PROVE r < P OBVIOUS
            <4>1. r \in Payloads(stream) /\ r <= done BY <1>4
            <4> QED BY <4>1 DEF Payloads
        <3> HIDE DEF data, P
        <3> QED BY <3>2, <3>3
    <2> HIDE DEF parts
    <2> QED BY <2>1, <2>2, <2>3 DEF parts
<1>6. MessageAt(stream, P, zips) =
        Message(parts, zips /\ \E q \in parts : stream[q - 1] \in Deflated)
    <2>1. stream[P - 1] # "ping" BY <1>1
    <2> QED BY <2>1, Zenon DEF MessageAt
<1> HIDE DEF parts
<1> QED BY <1>5, <1>6, Zenon DEF P

\* A parser that has read the frames up to a place.
Aligned(p, stream, upto, zips) ==
    /\ p \in Parsers
    /\ p.parts = Opened(stream, upto)
    /\ p.parts # {} => p.zip = (zips /\ \E q \in p.parts : stream[q - 1] \in Deflated)

\* The next frame adds its message, if it completes one.
LEMMA FrameReads ==
    ASSUME NEW stream \in Seq(STRING), NEW from \in Nat, Framed(stream, from),
           NEW done \in Nat, from <= done, (done - from) % 2 = 0, done + 2 <= Len(stream),
           NEW zips \in BOOLEAN, NEW deflates \in BOOLEAN,
           stream[done + 1] \in Deflated => deflates /\ zips,
           NEW p, Aligned(p, stream, done, zips)
    PROVE  LET after == Frame(p, stream, done + 2, deflates) IN
           /\ Aligned(after, stream, done + 2, zips)
           /\ after.buf = p.buf
           /\ after.out = IF done + 2 \in Completing(stream)
                          THEN Append(p.out, MessageAt(stream, done + 2, zips)) ELSE p.out
<1> DEFINE P == done + 2
           head == stream[P - 1]
           open == Opened(stream, done)
           parts == {P} \cup (IF head \in Continuing THEN p.parts ELSE {})
           zip == IF head \in Continuing THEN p.zip ELSE deflates /\ head \in Deflated
           after == Frame(p, stream, P, deflates)
<1>1. Len(stream) \in Nat /\ P - 1 = done + 1 /\ done + 1 \in 1 .. Len(stream) /\ P \in Nat
    BY LenProperties
<1>2. /\ P \in Payloads(stream) /\ head \in FrameHeads
      /\ Opened(stream, P) = IF head = "ping" THEN open
                             ELSE IF head \in Final THEN {} ELSE open \cup {P}
    BY <1>1, OpenedNext
<1>3. P \in Completing(stream) <=> head \in Final \cup {"ping"}
    BY <1>2 DEF Completing
<1>4. /\ p \in Parsers /\ p.parts = open /\ after \in Parsers
      /\ open # {} => p.zip = (zips /\ \E q \in open : stream[q - 1] \in Deflated)
    <2>1. /\ p \in Parsers /\ p.parts = open
          /\ open # {} => p.zip = (zips /\ \E q \in open : stream[q - 1] \in Deflated)
        BY Zenon DEF Aligned
    <2>2. after \in Parsers
        <3> HIDE DEF P
        <3> QED BY <1>1, <2>1, FrameType
    <2> HIDE DEF open, after
    <2> QED BY <2>1, <2>2, Zenon
<1>5. open # {} <=> Pending(stream, done + 1)
    BY <1>1, OpenedIfPending
<1>6. /\ head \in Continuing => open # {}
      /\ head \in Opening \cup Unfragmented => open = {}
    <2> HIDE DEF open
    <2> QED BY <1>1, <1>5, FramedPlaces
<1>7. head \in Deflated => deflates /\ zips
    BY <1>1
<1>8. head # "ping" => MessageAt(stream, P, zips) =
             Message(open \cup {P}, zips /\ \E q \in open \cup {P} : stream[q - 1] \in Deflated)
    BY <1>1, MessageOfOpened
<1>9. head = "ping" => after = [p EXCEPT !.out = Append(@, Message({P}, FALSE))]
    BY DEF Frame
<1>10. head # "ping" => after =
            [p EXCEPT !.parts = IF head \in Final THEN {} ELSE parts,
                      !.zip = zip,
                      !.out = IF head \in Final THEN Append(@, Message(parts, zip)) ELSE @]
    BY Zenon DEF Frame
<1>11. head = "ping" => MessageAt(stream, P, zips) = Message({P}, FALSE)
    BY Zenon DEF MessageAt
<1> HIDE DEF head, open, after
\* A frame that continues has something to continue, and one that does not has not.
<1>12. head # "ping" => parts = open \cup {P}
    <2>1. head \in Continuing => parts = {P} \cup open
        BY <1>4
    <2>2. head \notin Continuing /\ head # "ping" => head \in Opening \cup Unfragmented
        BY <1>2 DEF FrameHeads
    <2> QED BY <1>6, <2>1, <2>2
<1>13. head # "ping" => zip = (zips /\ \E q \in open \cup {P} : stream[q - 1] \in Deflated)
    <2>1. CASE head \in Continuing
        <3>1. head \notin Deflated
            BY <2>1 DEF Continuing, Deflated
        <3>2. (\E q \in open \cup {P} : stream[q - 1] \in Deflated)
                <=> (\E q \in open : stream[q - 1] \in Deflated)
            BY <3>1 DEF head
        <3>3. p.zip = (zips /\ \E q \in open : stream[q - 1] \in Deflated)
            BY <1>4, <1>6, <2>1
        <3>4. zip = p.zip
            BY <2>1
        <3> HIDE DEF zip
        <3> QED BY <3>2, <3>3, <3>4, Zenon
    <2>2. CASE head \notin Continuing
        <3> SUFFICES ASSUME head # "ping"
                     PROVE  zip = (zips /\ \E q \in open \cup {P} : stream[q - 1] \in Deflated)
            OBVIOUS
        <3>1. open = {}
            BY <1>2, <1>6, <2>2 DEF FrameHeads
        <3>2. (\E q \in open \cup {P} : stream[q - 1] \in Deflated) <=> head \in Deflated
            BY <3>1 DEF head
        <3>3. zip = (deflates /\ head \in Deflated)
            BY <2>2
        <3>4. (deflates /\ head \in Deflated) <=> (zips /\ head \in Deflated)
            BY <1>7
        <3> HIDE DEF zip
        <3> QED BY <3>2, <3>3, <3>4, Zenon
    <2> QED BY <2>1, <2>2
<1> HIDE DEF parts, zip, P
<1>14. CASE head = "ping"
    <2>1. /\ after.parts = p.parts /\ after.zip = p.zip /\ after.buf = p.buf
          /\ after.out = Append(p.out, Message({P}, FALSE))
        BY <1>4, <1>9, <1>14 DEF Parsers
    <2>2. Opened(stream, P) = open
        BY <1>2, <1>14
    <2>3. Aligned(after, stream, P, zips)
        BY <1>4, <2>1, <2>2, Zenon DEF Aligned
    <2>4. after.out = IF P \in Completing(stream)
                      THEN Append(p.out, MessageAt(stream, P, zips)) ELSE p.out
        BY <1>3, <1>11, <1>14, <2>1
    <2> QED BY <2>1, <2>3, <2>4 DEF after, P
<1>15. CASE head # "ping"
    <2>1. /\ after.parts = IF head \in Final THEN {} ELSE parts
          /\ after.zip = zip /\ after.buf = p.buf
          /\ after.out = IF head \in Final THEN Append(p.out, Message(parts, zip)) ELSE p.out
        BY <1>4, <1>10, <1>15 DEF Parsers
    <2>2. after.parts = Opened(stream, P)
        BY <1>2, <1>12, <1>15, <2>1
    <2>3. after.parts # {} => after.parts = open \cup {P}
        BY <1>12, <1>15, <2>1
    <2>4. Aligned(after, stream, P, zips)
        BY <1>4, <1>13, <1>15, <2>1, <2>2, <2>3, Zenon DEF Aligned
    <2>5. Message(parts, zip) = MessageAt(stream, P, zips)
        BY <1>8, <1>12, <1>13, <1>15, Zenon
    <2>6. after.out = IF P \in Completing(stream)
                      THEN Append(p.out, MessageAt(stream, P, zips)) ELSE p.out
        BY <1>3, <1>15, <2>1, <2>5
    <2> QED BY <2>1, <2>4, <2>6 DEF after, P
<1> QED BY <1>14, <1>15

\* What the log says of a part of the wire.
Recorded(stream, w, zips) ==
    [i \in 1 .. Len(w) |-> IF w[i] = 0 THEN Injected ELSE MessageAt(stream, w[i], zips)]

\* The message that a place completes is a message.
LEMMA MessageType ==
    ASSUME NEW stream, NEW p \in Nat, NEW zips \in BOOLEAN
    PROVE  MessageAt(stream, p, zips) \in Messages
<1> DEFINE data == {q \in 1 .. p : stream[q] = "~" /\ stream[q - 1] # "ping"}
           final == {q \in data : q < p /\ stream[q - 1] \in Final}
           parts == {q \in data : \A r \in final : r < q}
           zip == zips /\ \E q \in parts : stream[q - 1] \in Deflated
<1>1. parts \in SUBSET Nat /\ {p} \in SUBSET Nat /\ zip \in BOOLEAN
    OBVIOUS
<1>2. MessageAt(stream, p, zips) = IF stream[p - 1] = "ping" THEN Message({p}, FALSE)
                                   ELSE Message(parts, zip)
    BY Zenon DEF MessageAt
<1> HIDE DEF parts, zip
<1> QED BY <1>1, <1>2 DEF Message, Messages

\* A part of the wire is recorded as as many messages.
LEMMA RecordedType ==
    ASSUME NEW stream, NEW w \in Seq(Nat), NEW zips \in BOOLEAN
    PROVE  Recorded(stream, w, zips) \in Seq(Messages) /\ Len(Recorded(stream, w, zips)) = Len(w)
<1>1. Len(w) \in Nat /\ \A i \in 1 .. Len(w) : w[i] \in Nat
    BY LenProperties, ElementOfSeq
<1>2. Injected \in Messages
    BY DEF Injected, Message, Messages
<1>3. Recorded(stream, w, zips) \in [1 .. Len(w) -> Messages]
    BY <1>1, <1>2, MessageType DEF Recorded
<1> QED BY <1>1, <1>3, FunctionIsSeq

\* Nothing is recorded of nothing.
LEMMA RecordedEmpty ==
    ASSUME NEW stream, NEW zips \in BOOLEAN
    PROVE  Recorded(stream, <<>>, zips) = <<>>
<1>1. <<>> \in Seq(Nat) /\ Len(<<>>) = 0
    BY EmptySeq
<1>2. Recorded(stream, <<>>, zips) \in Seq(Messages) /\ Len(Recorded(stream, <<>>, zips)) = 0
    BY <1>1, RecordedType
<1> QED BY <1>2, EmptySeq

\* Two parts of the wire are recorded one after the other.
LEMMA RecordedConcat ==
    ASSUME NEW stream, NEW u \in Seq(Nat), NEW v \in Seq(Nat), NEW zips \in BOOLEAN
    PROVE  Recorded(stream, u \o v, zips) = Recorded(stream, u, zips) \o Recorded(stream, v, zips)
<1> DEFINE ru == Recorded(stream, u, zips)
           rv == Recorded(stream, v, zips)
           w == u \o v
           rw == Recorded(stream, w, zips)
<1>1. /\ w \in Seq(Nat) /\ Len(w) = Len(u) + Len(v)
      /\ \A i \in 1 .. Len(u) + Len(v) : w[i] = IF i <= Len(u) THEN u[i] ELSE v[i - Len(u)]
    BY ConcatProperties
<1>2. Len(u) \in Nat /\ Len(v) \in Nat
    BY LenProperties
<1>3. ru \in Seq(Messages) /\ Len(ru) = Len(u) /\ rv \in Seq(Messages) /\ Len(rv) = Len(v)
    BY RecordedType
<1>4. rw \in Seq(Messages) /\ Len(rw) = Len(w)
    <2> HIDE DEF w, ru, rv
    <2> QED BY <1>1, RecordedType
<1>5. /\ \A i \in 1 .. Len(u) : ru[i] = IF u[i] = 0 THEN Injected ELSE MessageAt(stream, u[i], zips)
      /\ \A i \in 1 .. Len(v) : rv[i] = IF v[i] = 0 THEN Injected ELSE MessageAt(stream, v[i], zips)
      /\ \A i \in 1 .. Len(w) : rw[i] = IF w[i] = 0 THEN Injected ELSE MessageAt(stream, w[i], zips)
    BY DEF Recorded
<1> HIDE DEF ru, rv, w, rw
<1>6. /\ ru \o rv \in Seq(Messages) /\ Len(ru \o rv) = Len(u) + Len(v)
      /\ \A i \in 1 .. Len(u) + Len(v) :
            (ru \o rv)[i] = IF i <= Len(u) THEN ru[i] ELSE rv[i - Len(u)]
    BY <1>3, ConcatProperties
<1>7. ASSUME NEW i \in 1 .. Len(u) + Len(v) PROVE rw[i] = (ru \o rv)[i]
    <2>1. CASE i <= Len(u)
        <3>1. i \in 1 .. Len(u) BY <1>2, <2>1
        <3> QED BY <1>1, <1>5, <1>6, <2>1, <3>1
    <2>2. CASE ~(i <= Len(u))
        <3>1. i - Len(u) \in 1 .. Len(v) BY <1>2, <2>2
        <3>2. w[i] = v[i - Len(u)] /\ (ru \o rv)[i] = rv[i - Len(u)]
            BY <1>1, <1>6, <2>2
        <3> QED BY <1>1, <1>5, <3>1, <3>2
    <2> QED BY <2>1, <2>2
<1>8. rw = ru \o rv
    BY <1>1, <1>4, <1>6, <1>7, SeqEqual
<1> QED BY <1>8 DEF ru, rv, w, rw

\* One more place on the wire is one more message, if it completes one.
LEMMA RecordedAppend ==
    ASSUME NEW stream, NEW w \in Seq(Nat), NEW p \in Nat, NEW zips \in BOOLEAN
    PROVE  Recorded(stream, Append(w, p), zips)
              = Append(Recorded(stream, w, zips),
                       IF p = 0 THEN Injected ELSE MessageAt(stream, p, zips))
<1> DEFINE rw == Recorded(stream, w, zips)
           m == IF p = 0 THEN Injected ELSE MessageAt(stream, p, zips)
           more == Append(w, p)
           rm == Recorded(stream, more, zips)
<1>1. /\ more \in Seq(Nat) /\ Len(more) = Len(w) + 1 /\ Len(w) \in Nat
      /\ \A i \in 1 .. Len(w) : more[i] = w[i]
      /\ more[Len(w) + 1] = p
    BY AppendProperties, LenProperties
<1>2. m \in Messages
    BY MessageType DEF Injected, Message, Messages
<1>3. rw \in Seq(Messages) /\ Len(rw) = Len(w)
    BY RecordedType
<1>4. rm \in Seq(Messages) /\ Len(rm) = Len(w) + 1
    <2> HIDE DEF more, rw
    <2> QED BY <1>1, RecordedType
<1>5. /\ \A i \in 1 .. Len(w) : rw[i] = IF w[i] = 0 THEN Injected ELSE MessageAt(stream, w[i], zips)
      /\ \A i \in 1 .. Len(more) :
            rm[i] = IF more[i] = 0 THEN Injected ELSE MessageAt(stream, more[i], zips)
    BY DEF Recorded
<1> HIDE DEF rw, more, rm
<1>6. rm[Len(w) + 1] = m
    <2>1. Len(w) + 1 \in 1 .. Len(more) BY <1>1
    <2>2. rm[Len(w) + 1] = IF more[Len(w) + 1] = 0 THEN Injected
                           ELSE MessageAt(stream, more[Len(w) + 1], zips)
        BY <1>5, <2>1
    <2> QED BY <1>1, <2>2
<1> HIDE DEF m
<1>7. /\ Append(rw, m) \in Seq(Messages) /\ Len(Append(rw, m)) = Len(w) + 1
      /\ \A i \in 1 .. Len(w) : Append(rw, m)[i] = rw[i]
      /\ Append(rw, m)[Len(w) + 1] = m
    BY <1>2, <1>3, AppendProperties
<1>8. ASSUME NEW i \in 1 .. Len(w) + 1 PROVE rm[i] = Append(rw, m)[i]
    <2>1. CASE i = Len(w) + 1
        BY <1>6, <1>7, <2>1
    <2>2. CASE i # Len(w) + 1
        <3>1. i \in 1 .. Len(w) /\ i \in 1 .. Len(more) BY <1>1, <2>2
        <3> QED BY <1>1, <1>5, <1>7, <3>1
    <2> QED BY <2>1, <2>2
<1>9. rm = Append(rw, m)
    BY <1>4, <1>7, <1>8, SeqEqual
<1> QED BY <1>9 DEF rm, rw, m, more

\* What is kept of a header and a payload.
LEMMA OnlyPair ==
    ASSUME NEW s \in Seq(Nat), NEW h \in Nat, NEW q \in Nat, NEW T, h \notin T
    PROVE  Only(Append(Append(s, h), q), T)
              = IF q \in T THEN Append(Only(s, T), q) ELSE Only(s, T)
<1> DEFINE longer == Append(s, h)
<1>1. Only(longer, T) = Only(s, T)
    BY OnlyAppend
<1>2. longer \in Seq(Nat)
    BY AppendProperties
<1> HIDE DEF longer
<1>3. Only(Append(longer, q), T)
        = IF q \in T THEN Append(Only(longer, T), q) ELSE Only(longer, T)
    BY <1>2, OnlyAppend
<1> QED BY <1>1, <1>3 DEF longer

\* The parser that has read the frames of 2 * m cells, and what it found.
Follows(st, before, stream, done, m, zips) ==
    /\ Aligned(st, stream, done + 2 * m, zips)
    /\ st.buf = before.buf
    /\ st.out = before.out \o Recorded(stream, Only(Places(done, 2 * m), Completing(stream)), zips)

FollowsOn(p, stream, done, m, deflates, zips) ==
    LET bodies == Only(Places(done, 2 * m), Payloads(stream)) IN
    /\ bodies \in Seq(Nat) /\ Len(bodies) = m
    /\ Follows(ReadFrames(p, stream, bodies, deflates), p, stream, done, m, zips)

\* Frame after frame, the messages found are those that the payloads complete.
LEMMA FramesFollow ==
    ASSUME NEW stream \in Seq(STRING), NEW from \in Nat, Framed(stream, from),
           NEW done \in Nat, from <= done, (done - from) % 2 = 0,
           NEW k \in Nat, \A i \in done + 1 .. done + k : i \in 1 .. Len(stream),
           NEW zips \in BOOLEAN, NEW deflates \in BOOLEAN,
           \A i \in done + 1 .. done + k : stream[i] \in Deflated => deflates /\ zips,
           NEW p, Aligned(p, stream, done, zips),
           NEW m \in Nat, 2 * m <= k
    PROVE  FollowsOn(p, stream, done, m, deflates, zips)
<1> DEFINE Bodies(j) == Only(Places(done, 2 * j), Payloads(stream))
           Good(j) == /\ Bodies(j) \in Seq(Nat) /\ Len(Bodies(j)) = j
                      /\ Follows(ReadFrames(p, stream, Bodies(j), deflates), p, stream,
                                 done, j, zips)
           H == {j \in Nat : 2 * j <= k => Good(j)}
<1>0. p \in Parsers /\ p.out \in Seq(Messages)
    BY DEF Aligned, Parsers
<1>1. 0 \in H
    <2>1. Places(done, 2 * 0) = <<>> /\ done + 2 * 0 = done
        BY PlacesEmpty
    <2>2. Bodies(0) = <<>> /\ Only(Places(done, 2 * 0), Completing(stream)) = <<>>
        BY <2>1, OnlyEmpty
    <2>3. ReadFrames(p, stream, <<>>, deflates) = p
        BY <1>0, ReadFramesEmpty
    <2>4. p.out \o Recorded(stream, <<>>, zips) = p.out
        BY <1>0, RecordedEmpty, ConcatEmptySeq
    <2>5. <<>> \in Seq(Nat) /\ Len(<<>>) = 0
        BY EmptySeq
    <2>6. Good(0)
        BY <2>1, <2>2, <2>3, <2>4, <2>5, Zenon DEF Follows
    <2> QED BY <2>6
<1>2. ASSUME NEW j \in H PROVE j + 1 \in H
    <2> SUFFICES ASSUME 2 * (j + 1) <= k PROVE Good(j + 1)
        OBVIOUS
    <2> DEFINE at0 == done + 2 * j
               b == Bodies(j)
               st == ReadFrames(p, stream, b, deflates)
               places == Places(done, 2 * j)
    <2>1. j \in Nat /\ 2 * j <= k /\ Good(j)
        OBVIOUS
    <2>2. /\ at0 \in Nat /\ from <= at0 /\ (at0 - from) % 2 = 0 /\ at0 + 2 <= Len(stream)
          /\ at0 + 1 \in done + 1 .. done + k /\ at0 + 2 \in done + 1 .. done + k
          /\ at0 + 1 \in Nat /\ at0 + 2 \in Nat
          /\ 2 * (j + 1) = 2 * j + 1 + 1 /\ 2 * j + 1 \in Nat /\ 2 * j \in Nat
          /\ done + (2 * j + 1) = at0 + 1 /\ done + (2 * j + 1 + 1) = at0 + 2
          /\ done + 2 * (j + 1) = at0 + 2
        BY <2>1, LenProperties
    <2>3. /\ at0 + 2 \in Payloads(stream) /\ (at0 + 2) - 1 = at0 + 1
          /\ at0 + 1 \notin Payloads(stream)
        <3> HIDE DEF at0
        <3>1. at0 + 2 \in Payloads(stream) BY <2>2, OpenedNext
        <3>2. (at0 + 2) - 1 \notin Payloads(stream) BY <3>1, PayloadHasHead
        <3> QED BY <2>2, <3>1, <3>2
    <2>4. /\ places \in Seq(Nat) /\ Append(places, at0 + 1) \in Seq(Nat)
          /\ Places(done, 2 * (j + 1)) = Append(Append(places, at0 + 1), at0 + 2)
        <3>1. places \in Seq(Nat) BY <2>2, PlacesProperties
        <3>2. Places(done, 2 * j + 1) = Append(places, done + (2 * j + 1))
            BY <2>2, PlacesAppend
        <3>3. Places(done, 2 * j + 1 + 1) = Append(Places(done, 2 * j + 1), done + (2 * j + 1 + 1))
            BY <2>2, PlacesAppend
        <3>4. Append(places, at0 + 1) \in Seq(Nat)
            <4> HIDE DEF places, at0
            <4> QED BY <2>2, <3>1, AppendProperties
        <3> HIDE DEF places, at0
        <3> QED BY <2>2, <3>1, <3>2, <3>3, <3>4
    <2> HIDE DEF places, at0
    <2>5. ASSUME NEW T, at0 + 1 \notin T
          PROVE  Only(Places(done, 2 * (j + 1)), T)
                    = IF at0 + 2 \in T THEN Append(Only(places, T), at0 + 2) ELSE Only(places, T)
        <3> DEFINE h == at0 + 1
                   q == at0 + 2
        <3>1. h \in Nat /\ q \in Nat /\ h \notin T /\ places \in Seq(Nat)
              /\ Places(done, 2 * (j + 1)) = Append(Append(places, h), q)
            BY <2>2, <2>4, <2>5
        <3> HIDE DEF h, q
        <3>2. Only(Append(Append(places, h), q), T)
                = IF q \in T THEN Append(Only(places, T), q) ELSE Only(places, T)
            BY <3>1, OnlyPair
        <3> QED BY <3>1, <3>2 DEF q
    <2>6. Bodies(j + 1) = Append(b, at0 + 2)
        BY <2>3, <2>5 DEF places
    <2>7. /\ b \in Seq(Nat) /\ Len(b) = j
          /\ Aligned(st, stream, at0, zips) /\ st.buf = p.buf
          /\ st.out = p.out \o Recorded(stream, Only(places, Completing(stream)), zips)
        <3>1. b \in Seq(Nat) /\ Len(b) = j /\ Follows(st, p, stream, done, j, zips)
            BY <2>1
        <3> HIDE DEF b, st, H, Good
        <3> QED BY <3>1 DEF Follows, places, at0
    <2> HIDE DEF H, Good
    <2>8. Append(b, at0 + 2) \in Seq(Nat) /\ Len(Append(b, at0 + 2)) = j + 1
        <3> DEFINE e == at0 + 2
        <3>1. e \in Nat BY <2>2
        <3> HIDE DEF b, e
        <3>2. Append(b, e) \in Seq(Nat) /\ Len(Append(b, e)) = j + 1
            BY <2>7, <3>1, AppendProperties
        <3> QED BY <3>2 DEF e
    <2>9. ReadFrames(p, stream, Append(b, at0 + 2), deflates)
            = Frame(st, stream, at0 + 2, deflates)
        <3> DEFINE e == at0 + 2
        <3>1. e \in Nat BY <2>2
        <3> HIDE DEF b, e
        <3>2. ReadFrames(p, stream, Append(b, e), deflates)
                = Frame(ReadFrames(p, stream, b, deflates), stream, e, deflates)
            BY <1>0, <2>7, <3>1, ReadFramesAppend
        <3> QED BY <3>2 DEF e
    <2> DEFINE after == Frame(st, stream, at0 + 2, deflates)
               done0 == Only(places, Completing(stream))
    <2>10. /\ Aligned(after, stream, at0 + 2, zips)
           /\ after.buf = st.buf
           /\ after.out = IF at0 + 2 \in Completing(stream)
                          THEN Append(st.out, MessageAt(stream, at0 + 2, zips)) ELSE st.out
        <3>1. stream[at0 + 1] \in Deflated => deflates /\ zips
            BY <2>2
        <3>2. at0 \in Nat /\ from <= at0 /\ (at0 - from) % 2 = 0 /\ at0 + 2 <= Len(stream)
            BY <2>2
        <3>3. Aligned(st, stream, at0, zips)
            BY <2>7
        <3> HIDE DEF st
        <3> QED BY <3>1, <3>2, <3>3, FrameReads
    <2>11. done0 \in Seq(Nat) /\ Recorded(stream, done0, zips) \in Seq(Messages)
        <3>1. done0 \in Seq(Nat) BY <2>4, OnlyType
        <3> HIDE DEF done0
        <3> QED BY <3>1, RecordedType
    <2>12. Only(Places(done, 2 * (j + 1)), Completing(stream))
             = IF at0 + 2 \in Completing(stream) THEN Append(done0, at0 + 2) ELSE done0
        <3>1. at0 + 1 \notin Completing(stream)
            BY <2>3 DEF Completing
        <3> QED BY <2>5, <3>1
    <2> HIDE DEF after, done0
    <2>13. after.out = p.out \o
             Recorded(stream, Only(Places(done, 2 * (j + 1)), Completing(stream)), zips)
        <3>1. CASE at0 + 2 \in Completing(stream)
            <4>1. Recorded(stream, Append(done0, at0 + 2), zips)
                    = Append(Recorded(stream, done0, zips), MessageAt(stream, at0 + 2, zips))
                <5> DEFINE e == at0 + 2
                <5>1. e \in Nat /\ e # 0 BY <2>2
                <5> HIDE DEF e
                <5>2. Recorded(stream, Append(done0, e), zips)
                        = Append(Recorded(stream, done0, zips),
                                 IF e = 0 THEN Injected ELSE MessageAt(stream, e, zips))
                    BY <2>11, <5>1, RecordedAppend
                <5> QED BY <5>1, <5>2 DEF e
            <4>2. MessageAt(stream, at0 + 2, zips) \in Messages
                BY <2>2, MessageType
            <4>3. p.out \o Append(Recorded(stream, done0, zips), MessageAt(stream, at0 + 2, zips))
                    = Append(p.out \o Recorded(stream, done0, zips), MessageAt(stream, at0 + 2, zips))
                <5> DEFINE e == MessageAt(stream, at0 + 2, zips)
                           r == Recorded(stream, done0, zips)
                <5>1. e \in Messages /\ r \in Seq(Messages)
                    BY <2>11, <4>2
                <5> HIDE DEF e, r
                <5> DEFINE o == p.out
                <5>2. o \in Seq(Messages) BY <1>0
                <5> HIDE DEF o
                <5>3. o \o Append(r, e) = Append(o \o r, e)
                    BY <5>1, <5>2, AppendToConcat
                <5> QED BY <5>3 DEF e, r, o
            <4>4. st.out = p.out \o Recorded(stream, done0, zips)
                BY <2>7 DEF done0
            <4> QED BY <2>10, <2>12, <3>1, <4>1, <4>3, <4>4
        <3>2. CASE at0 + 2 \notin Completing(stream)
            BY <2>7, <2>10, <2>12, <3>2 DEF done0
        <3> QED BY <3>1, <3>2
    <2>14. Follows(after, p, stream, done, j + 1, zips)
        BY <2>2, <2>7, <2>10, <2>13 DEF Follows
    <2> QED BY <2>6, <2>8, <2>9, <2>14 DEF Good, after
<1>3. H = Nat
    <2>1. H \subseteq Nat OBVIOUS
    <2> HIDE DEF H
    <2> QED BY <1>1, <1>2, <2>1, NatSetInduction
<1>4. Good(m)
    <2> HIDE DEF Good
    <2> QED BY <1>3
<1> QED BY <1>4 DEF FollowsOn

\* The header that is left over completes nothing.
LEMMA HeadLeftOver ==
    ASSUME NEW stream \in Seq(STRING), NEW from \in Nat, Framed(stream, from),
           NEW done \in Nat, from <= done, (done - from) % 2 = 0,
           NEW k \in Nat, \A i \in done + 1 .. done + k : i \in 1 .. Len(stream),
           NEW m \in Nat, 2 * m <= k, k < 2 * m + 2,
           NEW T \in SUBSET Payloads(stream)
    PROVE  Only(Places(done, k), T) = Only(Places(done, 2 * m), T)
<1>1. CASE k = 2 * m
    BY <1>1
<1>2. CASE k = 2 * m + 1
    <2> DEFINE s == Places(done, 2 * m)
               h == done + (2 * m + 1)
    <2>1. h \in 1 .. Len(stream) /\ (h - from) % 2 = 1 /\ h \in Nat /\ 2 * m \in Nat
        BY <1>2
    <2>2. h \notin T
        <3> HIDE DEF h
        <3> QED BY <2>1, FramedPlaces
    <2>3. s \in Seq(Nat)
        BY <2>1, PlacesProperties
    <2>4. Places(done, 2 * m + 1) = Append(s, h)
        BY <2>1, PlacesAppend
    <2> HIDE DEF s, h
    <2>5. Only(Append(s, h), T) = Only(s, T)
        BY <2>1, <2>2, <2>3, OnlyAppend
    <2> QED BY <1>2, <2>4, <2>5 DEF s
<1>3. k = 2 * m \/ k = 2 * m + 1
    OBVIOUS
<1> QED BY <1>1, <1>2, <1>3

\* A header alone completes nothing.
LEMMA HeadAlone ==
    ASSUME NEW stream \in Seq(STRING), NEW from \in Nat, Framed(stream, from),
           NEW done \in Nat, from <= done, (done - from) % 2 = 0,
           NEW k \in Nat, \A i \in done + 1 .. done + k : i \in 1 .. Len(stream), k < 2,
           NEW T \in SUBSET Payloads(stream)
    PROVE  Only(Places(done, k), T) = <<>>
<1> DEFINE m == 0
<1>1. m \in Nat /\ 2 * m <= k /\ k < 2 * m + 2 /\ 2 * m = 0
    OBVIOUS
<1> HIDE DEF m
<1>2. Only(Places(done, k), T) = Only(Places(done, 2 * m), T)
    BY <1>1, HeadLeftOver
<1>3. Places(done, 2 * m) = <<>>
    BY <1>1, PlacesEmpty
<1> QED BY <1>2, <1>3, OnlyEmpty

\* A parser that has read what came, but for a header at the end.
Reading(p, stream, from, came, zips) ==
    \E done \in Nat :
        /\ from <= done /\ done <= came /\ came - done < 2 /\ (done - from) % 2 = 0
        /\ Aligned(p, stream, done, zips)
        /\ p.buf = Places(done, came - done)

ReadsOn(p, stream, from, came, n, deflates, zips) ==
    LET after == Push(p, stream, Places(came, n), deflates) IN
    /\ Reading(after, stream, from, came + n, zips)
    /\ after.out = Recorded(stream, Only(Places(came, n), Completing(stream)), zips)

\* The messages that push() finds are those the chunk completes.
THEOREM PushReads ==
    ASSUME NEW stream \in Seq(STRING), NEW from \in Nat, Framed(stream, from),
           NEW came \in Nat, came <= Len(stream) \/ came = from,
           NEW n \in Nat, n = 0 \/ came + n <= Len(stream),
           NEW zips \in BOOLEAN, NEW deflates \in BOOLEAN,
           \A i \in from + 1 .. came + n : stream[i] \in Deflated => deflates /\ zips,
           NEW p, Reading(p, stream, from, came, zips)
    PROVE  ReadsOn(p, stream, from, came, n, deflates, zips)
<1>1. PICK done \in Nat :
        /\ from <= done /\ done <= came /\ came - done < 2 /\ (done - from) % 2 = 0
        /\ Aligned(p, stream, done, zips)
        /\ p.buf = Places(done, came - done)
    BY DEF Reading
<1> DEFINE over == came - done
           k == over + n
           C == Completing(stream)
<1>2. /\ Len(stream) \in Nat /\ over \in Nat /\ k \in Nat /\ done + over = came
      /\ done + k = came + n
    BY <1>1, LenProperties
<1>3. \A i \in done + 1 .. done + k : i \in 1 .. Len(stream)
    BY <1>1, <1>2
<1>4. \A i \in done + 1 .. done + k : stream[i] \in Deflated => deflates /\ zips
    BY <1>1, <1>2
<1>5. PICK m \in Nat : 2 * m <= k /\ k < 2 * m + 2
    <2>1. k \div 2 \in Nat /\ 2 * (k \div 2) <= k /\ k < 2 * (k \div 2) + 2
        <3> HIDE DEF k
        <3> QED BY <1>2
    <2> QED BY <2>1
<1>6. C \in SUBSET Payloads(stream)
    BY DEF Completing
<1> DEFINE buf == p.buf \o Places(came, n)
           fresh == [p EXCEPT !.out = <<>>]
           bodies == Only(buf, Payloads(stream))
           read == ReadFrames(fresh, stream, bodies, deflates)
           rest == SubSeq(buf, 2 * Len(bodies) + 1, Len(buf))
           after == Push(p, stream, Places(came, n), deflates)
<1>7. Places(done, over) \o Places(came, n) = Places(done, k)
    <2>1. Places(done, over) \o Places(done + over, n) = Places(done, over + n)
        <3> HIDE DEF over
        <3> QED BY <1>2, PlacesConcat
    <2> QED BY <1>2, <2>1
<1>8. buf = Places(done, k)
    BY <1>1, <1>7
<1> HIDE DEF k, over, buf
<1>9. buf \in Seq(Nat) /\ Len(buf) = k /\ \A i \in 1 .. k : buf[i] = done + i
    BY <1>2, <1>8, PlacesProperties
<1>10. ~(buf # <<>> /\ buf[1] \in Payloads(stream))
    <2> SUFFICES ASSUME buf # <<>>, buf[1] \in Payloads(stream) PROVE FALSE
        OBVIOUS
    <2>1. k > 0 BY <1>2, <1>9, EmptySeq
    <2>2. buf[1] = done + 1 /\ done + 1 \in 1 .. Len(stream) /\ ((done + 1) - from) % 2 = 1
        <3>1. 1 \in 1 .. k /\ done + 1 \in done + 1 .. done + k
            BY <1>2, <2>1
        <3>2. buf[1] = done + 1 /\ done + 1 \in 1 .. Len(stream)
            BY <1>3, <1>9, <3>1
        <3>3. ((done + 1) - from) % 2 = 1
            BY <1>1
        <3> QED BY <3>2, <3>3
    <2> QED BY <2>2, FramedPlaces
<1>11. after = [read EXCEPT !.buf = rest]
    BY <1>10 DEF Push, buf
<1>12. fresh \in Parsers /\ Aligned(fresh, stream, done, zips) /\ fresh.out = <<>>
    <2>1. fresh \in Parsers /\ fresh.parts = p.parts /\ fresh.zip = p.zip /\ fresh.out = <<>>
        BY <1>1, EmptySeq DEF Aligned, Parsers
    <2> HIDE DEF fresh
    <2> QED BY <1>1, <2>1 DEF Aligned
<1>13. bodies = Only(Places(done, 2 * m), Payloads(stream))
    BY <1>1, <1>2, <1>3, <1>5, <1>8, HeadLeftOver
<1> HIDE DEF fresh, bodies
<1>14. Len(bodies) = m /\ Follows(read, fresh, stream, done, m, zips)
    <2> DEFINE b == Only(Places(done, 2 * m), Payloads(stream))
    <2>1. /\ Len(b) = m
          /\ Follows(ReadFrames(fresh, stream, b, deflates), fresh, stream, done, m, zips)
        <3>1. Aligned(fresh, stream, done, zips)
            BY <1>12
        <3>2. from <= done
            BY <1>1
        <3>3. (done - from) % 2 = 0
            BY <1>1
        <3>4. k \in Nat
            BY <1>2
        <3>5. 2 * m <= k
            BY <1>5
        <3>6. FollowsOn(fresh, stream, done, m, deflates, zips)
            BY <1>3, <1>4, <3>1, <3>2, <3>3, <3>4, <3>5, FramesFollow
        <3> QED BY <3>6 DEF FollowsOn
    <2> QED BY <1>13, <2>1
<1>15. /\ Aligned(read, stream, done + 2 * m, zips)
       /\ read.out = <<>> \o Recorded(stream, Only(Places(done, 2 * m), C), zips)
    BY <1>12, <1>14 DEF Follows
<1>16. rest = Places(done + 2 * m, k - 2 * m) /\ rest \in Seq(Nat)
    <2> DEFINE e == 2 * m
    <2>1. e \in 0 .. k /\ k - e \in Nat /\ done + e \in Nat
        BY <1>2, <1>5
    <2> HIDE DEF e
    <2>2. SubSeq(Places(done, k), e + 1, k) = Places(done + e, k - e)
        BY <1>2, <2>1, PlacesAfter
    <2>3. Places(done + e, k - e) \in Seq(Nat)
        BY <2>1, PlacesProperties
    <2> QED BY <1>8, <1>9, <1>14, <2>2, <2>3 DEF e
<1> HIDE DEF read, rest, after, C
<1>17. Aligned(after, stream, done + 2 * m, zips) /\ after.buf = rest /\ after.out = read.out
    <2>1. read \in Parsers
        BY <1>15 DEF Aligned
    <2>2. after \in Parsers /\ after.parts = read.parts /\ after.zip = read.zip
          /\ after.buf = rest /\ after.out = read.out
        BY <1>11, <1>16, <2>1 DEF Parsers
    <2> QED BY <1>15, <2>2 DEF Aligned
<1>18. Reading(after, stream, from, came + n, zips)
    <2>1. /\ done + 2 * m \in Nat /\ from <= done + 2 * m /\ done + 2 * m <= came + n
          /\ (came + n) - (done + 2 * m) = k - 2 * m /\ k - 2 * m < 2
          /\ ((done + 2 * m) - from) % 2 = 0
        BY <1>1, <1>2, <1>5
    <2> DEFINE e == done + 2 * m
    <2>2. Aligned(after, stream, e, zips) /\ after.buf = Places(e, (came + n) - e)
        BY <1>16, <1>17, <2>1
    <2>3. e \in Nat /\ from <= e /\ e <= came + n /\ (came + n) - e < 2 /\ (e - from) % 2 = 0
        BY <2>1
    <2> HIDE DEF e
    <2> QED BY <2>2, <2>3 DEF Reading
<1>19. Only(Places(done, 2 * m), C) = Only(Places(came, n), C)
    <2>1. Only(Places(done, k), C) = Only(Places(done, 2 * m), C)
        BY <1>1, <1>2, <1>3, <1>5, <1>6, HeadLeftOver
    <2>2. /\ Places(done, over) \in Seq(Nat) /\ Places(came, n) \in Seq(Nat)
          /\ Places(done, over) \o Places(came, n) = Places(done, k)
        BY <1>2, <1>7, PlacesProperties
    <2>3. Only(Places(done, k), C) = Only(Places(done, over), C) \o Only(Places(came, n), C)
        <3> DEFINE s == Places(done, over)
                   t == Places(came, n)
        <3>1. s \in Seq(Nat) BY <2>2
        <3>2. t \in Seq(Nat) BY <2>2
        <3> HIDE DEF s, t
        <3>3. Only(s \o t, C) = Only(s, C) \o Only(t, C) BY <3>1, <3>2, OnlyConcat
        <3> QED BY <2>2, <3>3 DEF s, t
    <2>4. Only(Places(done, over), C) = <<>>
        <3>1. over < 2
            BY <1>1 DEF over
        <3>2. \A i \in done + 1 .. done + over : i \in 1 .. Len(stream)
            BY <1>2, <1>3 DEF k
        <3> QED BY <1>1, <1>2, <1>6, <3>1, <3>2, HeadAlone
    <2>5. Only(Places(came, n), C) \in Seq(Nat)
        BY <2>2, OnlyType
    <2> QED BY <2>1, <2>3, <2>4, <2>5, ConcatEmptySeq
<1>20. after.out = Recorded(stream, Only(Places(came, n), C), zips)
    <2>1. Only(Places(came, n), C) \in Seq(Nat)
        <3>1. Places(came, n) \in Seq(Nat) BY PlacesProperties
        <3> QED BY <3>1, OnlyType
    <2>2. Recorded(stream, Only(Places(came, n), C), zips) \in Seq(Messages)
        <3> DEFINE w == Only(Places(came, n), C)
        <3>1. w \in Seq(Nat) BY <2>1
        <3> HIDE DEF w
        <3> QED BY <3>1, RecordedType DEF w
    <2> QED BY <1>15, <1>17, <1>19, <2>2, ConcatEmptySeq
<1> QED BY <1>18, <1>20 DEF after, C, ReadsOn

-----------------------------------------------------------------------------
(* The captured messages.                                                  *)

\* A relay's stream after the head is framed.
RelayInv == at = "relay" => Framed(cells, Start)

\* The parsers inflate once the two have agreed to it, and nothing was deflated
\* before.
DeflateInv ==
    /\ deflate <=> agreed /\ opos >= 2
    /\ \A i \in 1 .. pos : cells[i] \in Deflated => agreed /\ opos >= 2
    /\ \A i \in 1 .. opos : origin[i] \in Deflated => agreed

\* A connection does not begin as a relay.
LEMMA InitRelayInv == Init => RelayInv
BY DEF Init, RelayInv

\* What becomes a relay has its head behind it.
LEMMA StepRelayInv == TypeOK /\ ReadInv /\ RelayInv /\ [Next]_vars => RelayInv'
<1> SUFFICES ASSUME TypeOK, ReadInv, RelayInv, [Next]_vars, at' = "relay"
             PROVE  Framed(cells', Start')
    BY DEF RelayInv
<1>a. cells' = cells /\ Start' = Start
    <2>1. cells' = cells
        BY GivenStays
    <2> QED BY <2>1 DEF Start, Has, HeadEnd
<1>1. CASE at = "relay"
    BY <1>1, <1>a DEF RelayInv
<1>2. CASE at # "relay"
    <2>1. HeadComplete
        BY <1>2 DEF Next, vars, relay, front, Arrive, SocksReads, SocksRefuses, SocksGrants,
                    AfterSocks, HeadTooLong, HopUp, RelayReady, RelayClientData,
                    RelayOriginData, Inject, ClientLeaves, HopEnds, FirstReader, Close,
                    ConnectOn, TunnelTo
    <2>2. at = "head" /\ Blanks(held) # {} /\ cells[held[1]] = "upgrade"
        BY <2>1 DEF HeadComplete, Kind, Close, ConnectOn, TunnelTo
    <2>3. Len(held) > 0 /\ held[1] = SocksLength(cells) + 1 /\ SocksLength(cells) + 1 \in 1 .. Len(cells)
        <3>1. /\ Taken = SocksLength(cells) /\ Taken + Len(held) = pos /\ Taken \in Nat
              /\ \A i \in 1 .. Len(held) : held[i] = Taken + i
            BY <2>2, ReaderHolds DEF ReadInv
        <3>2. Len(held) \in Nat /\ pos \in 0 .. Len(cells) /\ Len(cells) \in Nat
            BY SizesAreNaturals
        <3>3. Len(held) > 0
            BY <2>2, <3>2 DEF Blanks
        <3> QED BY <3>1, <3>2, <3>3
    <2>4. /\ Start \in 1 .. Len(cells) /\ cells[Start] = "blank"
          /\ \A j \in 1 .. Start - 1 : cells[j] # "blank"
        BY <2>2, <2>3, StartOfTunnel DEF Tunnelling
    <2>5. Sends(cells, {"upgrade"})
        BY <2>2, <2>3 DEF Sends
    <2>6. Framed(cells, Start)
        BY <2>4, <2>5, ClientShape DEF FollowsHttp
    <2> QED BY <1>a, <2>6
<1> QED BY <1>1, <1>2

\* Nothing is deflated at first.
LEMMA InitDeflateInv == Init => DeflateInv
<1> SUFFICES ASSUME Init PROVE DeflateInv
    OBVIOUS
<1>1. deflate = FALSE /\ opos = 0 /\ pos = 0
    BY DEF Init
<1> QED BY <1>1 DEF DeflateInv

\* The parsers inflate from the response on, and nothing is deflated before it.
LEMMA StepDeflateInv == TypeOK /\ DeflateInv /\ [Next]_vars => DeflateInv'
<1> SUFFICES ASSUME TypeOK, DeflateInv, [Next]_vars PROVE DeflateInv'
    OBVIOUS
<1>a. UNCHANGED <<cells, origin, agreed>>
    BY GivenStays
<1>b. pos \in Nat /\ opos \in Nat /\ Len(cells) \in Nat /\ Len(origin) \in Nat
    BY SizesAreNaturals
\* More has arrived from the client.
<1>c. ASSUME NEW n \in Nat, pos' = pos + n, UNCHANGED <<opos, deflate>>,
             MayDeflate(cells, Places(pos, n))
      PROVE  DeflateInv'
    <2>1. Len(Places(pos, n)) = n /\ \A i \in 1 .. n : Places(pos, n)[i] = pos + i
        BY <1>b, PlacesProperties
    <2>2. ASSUME NEW i \in 1 .. pos + n, cells[i] \in Deflated PROVE agreed /\ opos >= 2
        <3>1. CASE i <= pos
            <4>1. i \in 1 .. pos BY <1>b, <3>1
            <4> QED BY <2>2, <4>1 DEF DeflateInv
        <3>2. CASE i > pos
            <4>1. i - pos \in 1 .. n /\ pos + (i - pos) = i BY <1>b, <3>2
            <4> QED BY <1>c, <2>1, <2>2, <4>1 DEF MayDeflate
        <3> QED BY <1>b, <3>1, <3>2
    <2> QED BY <1>a, <1>c, <2>2 DEF DeflateInv
<1>1. ASSUME NEW n \in 1 .. Len(cells), Arrive(n) PROVE DeflateInv'
    <2>1. n \in Nat /\ pos' = pos + n /\ MayDeflate(cells, Places(pos, n))
          /\ UNCHANGED <<opos, deflate>>
        BY <1>1 DEF Arrive
    <2> QED BY <1>c, <2>1
<1>2. ASSUME NEW n \in 1 .. Len(cells), RelayClientData(n) PROVE DeflateInv'
    <2>1. n \in Nat /\ pos' = pos + n /\ MayDeflate(cells, Places(pos, n))
          /\ UNCHANGED <<opos, deflate>>
        BY <1>2 DEF RelayClientData
    <2> QED BY <1>c, <2>1
<1>3. ASSUME NEW n \in 1 .. Len(origin), RelayOriginData(n) PROVE DeflateInv'
    <2>1. /\ opos' = opos + n /\ n \in Nat /\ pos' = pos
          /\ agreed \/ \A i \in 1 .. n : origin[opos + i] \notin Deflated
        BY <1>3 DEF RelayOriginData
    <2>2. deflate' = (deflate \/ (agreed /\ opos' >= 2))
        BY <1>3 DEF RelayOriginData
    <2>3. ASSUME NEW i \in 1 .. opos + n, origin[i] \in Deflated PROVE agreed
        <3>1. CASE i <= opos
            <4>1. i \in 1 .. opos BY <1>b, <3>1
            <4> QED BY <2>3, <4>1 DEF DeflateInv
        <3>2. CASE i > opos
            <4>1. i - opos \in 1 .. n /\ opos + (i - opos) = i BY <1>b, <2>1, <3>2
            <4> QED BY <2>1, <2>3, <4>1
        <3> QED BY <1>b, <2>1, <3>1, <3>2
    <2>4. opos >= 2 => opos' >= 2
        BY <1>b, <2>1
    <2>5. deflate' <=> agreed /\ opos' >= 2
        BY <2>2, <2>4 DEF DeflateInv
    <2>6. \A i \in 1 .. pos : cells[i] \in Deflated => agreed /\ opos' >= 2
        BY <2>4 DEF DeflateInv
    <2> QED BY <1>a, <2>1, <2>3, <2>5, <2>6 DEF DeflateInv
<1>4. CASE UNCHANGED <<pos, opos, deflate>>
    BY <1>4, <1>a DEF DeflateInv
<1>5. \/ \E n \in 1 .. Len(cells) : Arrive(n) \/ RelayClientData(n)
      \/ \E n \in 1 .. Len(origin) : RelayOriginData(n)
      \/ UNCHANGED <<pos, opos, deflate>>
    BY DEF Next, vars, relay, front, SocksReads, SocksRefuses, SocksGrants, AfterSocks,
           HeadComplete, HeadTooLong, HopUp, RelayReady, Inject, ClientLeaves, HopEnds
<1> QED BY <1>1, <1>2, <1>3, <1>4, <1>5

Stream(d) == IF d = "up" THEN cells ELSE origin

\* How much of the frames has come, when n cells of the origin's have.
Came(n) == IF n < 2 THEN 2 ELSE n

\* The log of a relay is what its wire completed, and its parsers are where the
\* streams are.
CaptureInv ==
    at = "relay" /\ ~cut =>
        /\ \A d \in Dirs :
            log[d] = Recorded(Stream(d), Only(wire[d], {0} \cup Completing(Stream(d))), agreed)
        /\ hop = "up" =>
            /\ Reading(parser["up"], cells, Start, pos, agreed)
            /\ Reading(parser["down"], origin, 2, Came(opos), agreed)

\* OnlyConcat, of places.
LEMMA OnlyConcatOfPlaces ==
    ASSUME NEW w \in Seq(Nat), NEW chunk \in Seq(Nat), NEW T
    PROVE  Only(w \o chunk, T) = Only(w, T) \o Only(chunk, T)
<1>1. w \in Seq(Nat) OBVIOUS
<1>2. chunk \in Seq(Nat) OBVIOUS
<1> QED BY <1>1, <1>2, OnlyConcat

RecordsOn(stream, w, chunk, zips) ==
    LET C == {0} \cup Completing(stream) IN
    Recorded(stream, Only(w, C), zips) \o Recorded(stream, Only(chunk, C), zips)
        = Recorded(stream, Only(w \o chunk, C), zips)

\* Writing a chunk and recording what it completes keeps the log with the wire.
LEMMA RecordChunk ==
    ASSUME NEW stream, NEW w \in Seq(Nat), NEW chunk \in Seq(Nat), NEW zips \in BOOLEAN
    PROVE  RecordsOn(stream, w, chunk, zips)
<1> DEFINE C == {0} \cup Completing(stream)
           u == Only(w, C)
           v == Only(chunk, C)
<1>1. u \in Seq(Nat)
    BY OnlyType
<1>2. v \in Seq(Nat)
    BY OnlyType
<1>3. Only(w \o chunk, C) = u \o v
    BY OnlyConcatOfPlaces
<1> HIDE DEF u, v
<1>4. Recorded(stream, u \o v, zips) = Recorded(stream, u, zips) \o Recorded(stream, v, zips)
    BY <1>1, <1>2, RecordedConcat
<1> QED BY <1>3, <1>4 DEF u, v, RecordsOn

\* Completing places are not before the frames.
LEMMA CompletingAfter ==
    ASSUME NEW stream \in Seq(STRING), NEW from \in Nat, Framed(stream, from),
           NEW p \in Completing(stream)
    PROVE  p \in Nat /\ p > from + 1
<1>1. p \in Payloads(stream)
    BY DEF Completing
<1>2. p \in Nat /\ p - 1 > from
    BY <1>1, PayloadHasHead DEF Payloads
<1> QED BY <1>2

\* No place of a stream is an injected frame.
LEMMA OnlyNoZero ==
    ASSUME NEW stream, NEW from \in Nat, NEW n \in Nat
    PROVE  Only(Places(from, n), {0} \cup Completing(stream))
             = Only(Places(from, n), Completing(stream))
<1> DEFINE s == Places(from, n)
           T == {0} \cup Completing(stream)
           U == Completing(stream)
<1>1. s \in Seq(Nat)
    BY PlacesProperties
<1>2. Len(s) = n /\ \A i \in 1 .. n : s[i] = from + i
    BY PlacesProperties
<1> HIDE DEF s
<1>3. \A i \in 1 .. Len(s) : s[i] \in T <=> s[i] \in U
    BY <1>2
<1> HIDE DEF T, U
<1>4. Only(s, T) = Only(s, U)
    BY <1>1, <1>3, OnlySame
<1> QED BY <1>4 DEF s, T, U

\* What RelayOriginData parses is what came after the response.
LEMMA FramesOfChunk ==
    ASSUME TypeOK, NEW n \in Nat, opos + n <= Len(origin)
    PROVE  LET more == Came(opos + n) - Came(opos)
               frames == Only(Places(opos, n), 3 .. Len(origin))
           IN  /\ more \in Nat /\ Came(opos) \in Nat /\ Came(opos) + more = Came(opos + n)
               /\ more = 0 \/ Came(opos) + more <= Len(origin)
               /\ frames = Places(Came(opos), more)
               /\ Only(Places(opos, n), {0} \cup Completing(origin))
                    = Only(frames, Completing(origin))
<1> DEFINE more == Came(opos + n) - Came(opos)
           skip == n - more
           T == 3 .. Len(origin)
           C == Completing(origin)
           before == Places(opos, skip)
           rest == Places(Came(opos), more)
<1>1. origin \in Seq(STRING) /\ Len(origin) \in Nat /\ opos \in Nat /\ Framed(origin, 2)
    BY SizesAreNaturals, FrontAssumption DEF TypeOK
<1>2. /\ more \in Nat /\ Came(opos) \in Nat /\ Came(opos) + more = Came(opos + n)
      /\ more = 0 \/ Came(opos) + more <= Len(origin)
      /\ skip \in Nat /\ skip + more = n
      /\ more > 0 => opos + skip = Came(opos)
      /\ skip > 0 => opos + skip <= 2
      /\ Came(opos) >= 2
    BY <1>1 DEF Came
<1> HIDE DEF more, skip
<1>3. Places(opos, n) = before \o rest
    <2>1. Places(opos, skip) \o Places(opos + skip, more) = Places(opos, skip + more)
        BY <1>1, <1>2, PlacesConcat
    <2>2. Places(opos + skip, more) = rest
        <3>1. CASE more > 0 BY <1>2, <3>1
        <3>2. CASE more = 0
            <4>1. opos + skip \in Nat BY <1>1, <1>2
            <4>2. Places(opos + skip, 0) = <<>> BY <4>1, PlacesEmpty
            <4>3. Places(Came(opos), 0) = <<>> BY <1>2, PlacesEmpty
            <4> QED BY <3>2, <4>2, <4>3
        <3> QED BY <1>2, <3>1, <3>2
    <2> QED BY <1>2, <2>1, <2>2
<1>4. before \in Seq(Nat)
    BY <1>1, <1>2, PlacesProperties
<1>5. rest \in Seq(Nat)
    BY <1>2, PlacesProperties
<1>6. \A i \in 1 .. Len(before) : before[i] \in Nat /\ before[i] <= 2
    <2>1. Len(before) = skip /\ \A i \in 1 .. skip : before[i] = opos + i
        BY <1>1, <1>2, PlacesProperties
    <2> HIDE DEF before
    <2> QED BY <1>1, <1>2, <2>1
<1>7. \A i \in 1 .. Len(rest) : rest[i] \in T
    <2>1. Len(rest) = more /\ \A i \in 1 .. more : rest[i] = Came(opos) + i
        BY <1>2, PlacesProperties
    <2> HIDE DEF rest
    <2> QED BY <1>1, <1>2, <2>1
<1> HIDE DEF before, rest
<1>8. Only(before, T) = <<>>
    <2>1. \A i \in 1 .. Len(before) : before[i] \notin T
        BY <1>6
    <2> QED BY <1>4, <2>1, OnlyNone
<1>9. Only(before, C) = <<>>
    <2>1. \A i \in 1 .. Len(before) : before[i] \notin C
        <3> SUFFICES ASSUME NEW i \in 1 .. Len(before), before[i] \in C PROVE FALSE
            OBVIOUS
        <3>1. before[i] > 2 + 1
            BY <1>1, CompletingAfter
        <3> QED BY <1>6, <3>1
    <2> QED BY <1>4, <2>1, OnlyNone
<1>10. Only(rest, T) = rest
    BY <1>5, <1>7, OnlyAll
<1>11. Only(before \o rest, T) = Only(before, T) \o Only(rest, T)
    <2> HIDE DEF T
    <2> QED BY <1>4, <1>5, OnlyConcat
<1>12. Only(before \o rest, C) = Only(before, C) \o Only(rest, C)
    <2> HIDE DEF C
    <2> QED BY <1>4, <1>5, OnlyConcat
<1>13. Only(rest, C) \in Seq(Nat)
    BY <1>5, OnlyType
<1>14. Only(before \o rest, T) = rest
    BY <1>5, <1>8, <1>10, <1>11, ConcatEmptySeq
<1>15. Only(before \o rest, C) = Only(rest, C)
    BY <1>9, <1>12, <1>13, ConcatEmptySeq
<1>16. Only(Places(opos, n), {0} \cup Completing(origin)) = Only(Places(opos, n), C)
    BY <1>1, OnlyNoZero
<1> HIDE DEF C
<1> QED BY <1>2, <1>3, <1>14, <1>15, <1>16 DEF C, T, rest, more

\* A connection does not begin as a relay.
LEMMA InitCaptureInv == Init => CaptureInv
BY DEF Init, CaptureInv

\* An empty wire records nothing.
LEMMA NothingRecorded ==
    ASSUME NEW stream, NEW zips \in BOOLEAN, NEW T
    PROVE  Recorded(stream, Only(<<>>, T), zips) = <<>>
BY OnlyEmpty, RecordedEmpty

\* The relay comes up: what it held is written, parsed and captured.
LEMMA ReadyCaptures ==
    ASSUME TypeOK, TypeOK', ReadInv, FreshInv, HopInv, RelayInv, DeflateInv, RelayReady, ~cut'
    PROVE  CaptureInv'
<1> DEFINE n == pos - Start
           once == Push(NewParser, cells, held, FALSE)
           C == Completing(cells)
<1>1. /\ at = "relay" /\ hop = "connecting" /\ at' = at /\ hop' = "up"
      /\ wire' = [wire EXCEPT !["up"] = @ \o held]
      /\ log' = [log EXCEPT !["up"] = @ \o once.out]
      /\ once.buf = <<>> /\ once.parts = {}
      /\ UNCHANGED <<cells, pos, origin, agreed, opos, parser>>
    BY DEF RelayReady
<1>2. /\ Start \in Nat /\ Start <= pos /\ held = Places(Start, n) /\ n \in Nat
      /\ pos \in Nat /\ pos <= Len(cells) /\ Len(cells) \in Nat /\ cells \in Seq(STRING)
      /\ Start + n = pos /\ Framed(cells, Start) /\ agreed \in BOOLEAN
      /\ origin \in Seq(STRING) /\ Framed(origin, 2)
    BY <1>1, SizesAreNaturals, FrontAssumption DEF HopInv, RelayInv, TypeOK
<1>3. /\ wire["up"] = <<>> /\ wire["down"] = <<>> /\ log["up"] = <<>> /\ log["down"] = <<>>
      /\ parser["up"] = NewParser /\ parser["down"] = NewParser /\ opos = 0
    BY <1>1 DEF FreshInv, Dirs
<1>4. \A i \in Start + 1 .. Start + n : cells[i] \in Deflated => FALSE /\ agreed
    <2> SUFFICES ASSUME NEW i \in Start + 1 .. Start + n, cells[i] \in Deflated PROVE FALSE
        OBVIOUS
    <2>1. i \in 1 .. pos
        BY <1>2
    <2> QED BY <1>3, <2>1 DEF DeflateInv
<1>5. NewParser \in Parsers /\ NewParser.parts = {} /\ NewParser.buf = <<>>
    BY EmptySeq DEF NewParser, Parsers
<1>6. ASSUME NEW stream \in Seq(STRING), NEW from \in Nat, Framed(stream, from)
      PROVE  Reading(NewParser, stream, from, from, agreed)
    <2>1. Opened(stream, from) = {}
        <3> SUFFICES ASSUME NEW q \in Opened(stream, from) PROVE FALSE
            OBVIOUS
        <3>1. q \in Payloads(stream) /\ q <= from
            BY DEF Opened
        <3>2. q - 1 > from /\ q \in Nat
            BY <1>6, <3>1, PayloadHasHead DEF Payloads
        <3> QED BY <3>1, <3>2
    <2>2. Aligned(NewParser, stream, from, agreed)
        BY <1>5, <2>1 DEF Aligned
    <2>3. Places(from, 0) = <<>> /\ from - from = 0 /\ 0 % 2 = 0
        BY PlacesEmpty
    <2> QED BY <1>5, <2>2, <2>3 DEF Reading
<1>7. /\ Reading(once, cells, Start, pos, agreed)
      /\ once.out = Recorded(cells, Only(held, C), agreed)
    <2> DEFINE start == Start
               k == n
               stream == cells
    <2>1. Reading(NewParser, stream, start, start, agreed)
        BY <1>2, <1>6
    <2>2. /\ start \in Nat /\ k \in Nat /\ start + k <= Len(stream) /\ start + k = pos
          /\ Framed(stream, start) /\ stream \in Seq(STRING)
          /\ held = Places(start, k)
        BY <1>2
    <2>3. \A i \in start + 1 .. start + k : stream[i] \in Deflated => FALSE /\ agreed
        BY <1>4
    <2> HIDE DEF start, k, stream
    <2> DEFINE after == Push(NewParser, stream, Places(start, k), FALSE)
    <2>4. /\ Reading(after, stream, start, start + k, agreed)
          /\ after.out = Recorded(stream, Only(Places(start, k), Completing(stream)), agreed)
        <3>1. start + k <= Len(stream) BY <2>2
        <3>2. Framed(stream, start) BY <2>2
        <3>3. start \in Nat BY <2>2
        <3>4. k \in Nat BY <2>2
        <3>5. stream \in Seq(STRING) BY <2>2
        <3>6. agreed \in BOOLEAN BY <1>2
        <3>7. FALSE \in BOOLEAN OBVIOUS
        <3>8. start <= Len(stream) \/ start = start OBVIOUS
        <3>9. k = 0 \/ start + k <= Len(stream) BY <2>2
        <3>10. ReadsOn(NewParser, stream, start, start, k, FALSE, agreed)
            BY <2>1, <2>3, <3>2, <3>3, <3>4, <3>5, <3>6, <3>7, <3>8, <3>9, PushReads
        <3> QED BY <3>10 DEF ReadsOn
    <2>5. after = once
        BY <2>2 DEF stream
    <2> HIDE DEF after
    <2> QED BY <2>2, <2>4, <2>5 DEF stream, start
<1> HIDE DEF once, n
\* Nothing was left over, so that a new parser may go on.
<1>8. Reading(NewParser, cells, Start, pos, agreed)
    <2>1. PICK done \in Nat :
            /\ Start <= done /\ done <= pos /\ pos - done < 2 /\ (done - Start) % 2 = 0
            /\ Aligned(once, cells, done, agreed)
            /\ once.buf = Places(done, pos - done)
        BY <1>7 DEF Reading
    <2>2. pos - done \in Nat
        BY <1>2, <2>1
    <2>3. Len(Places(done, pos - done)) = pos - done
        <3> DEFINE k == pos - done
        <3>1. k \in Nat BY <2>2
        <3> HIDE DEF k
        <3>2. Len(Places(done, k)) = k BY <3>1, PlacesProperties
        <3> QED BY <3>2 DEF k
    <2>4. pos = done
        <3>1. Places(done, pos - done) = <<>> BY <1>1, <2>1
        <3>2. pos - done = 0 BY <2>3, <3>1
        <3> QED BY <1>2, <3>2
    <2>5. Opened(cells, pos) = {}
        BY <1>1, <2>1, <2>4 DEF Aligned
    <2>6. Aligned(NewParser, cells, pos, agreed)
        BY <1>5, <2>5 DEF Aligned
    <2>7. Places(pos, 0) = <<>> /\ pos - pos = 0
        BY <1>2, PlacesEmpty
    <2>8. (pos - Start) % 2 = 0
        BY <2>1, <2>4
    <2>9. NewParser.buf = Places(pos, pos - pos) /\ pos <= pos /\ pos - pos < 2
        BY <1>2, <1>5, <2>7
    <2> QED BY <1>2, <2>6, <2>8, <2>9 DEF Reading
<1>9. log'["up"] = Recorded(cells, Only(wire'["up"], {0} \cup C), agreed)
    <2>1. wire'["up"] = held /\ log'["up"] = once.out
        <3>1. wire'["up"] = <<>> \o held /\ log'["up"] = <<>> \o once.out
            BY <1>1, <1>3 DEF TypeOK, Dirs
        <3>2. held \in Seq(Nat)
            BY SizesAreNaturals
        <3>3. once.out \in Seq(Messages)
            BY <1>7 DEF Reading, Aligned, Parsers
        <3> QED BY <3>1, <3>2, <3>3, ConcatEmptySeq
    <2>2. Only(held, {0} \cup C) = Only(held, C)
        <3> DEFINE start == Start
        <3>1. start \in Nat /\ n \in Nat /\ held = Places(start, n) BY <1>2
        <3> HIDE DEF start
        <3> QED BY <3>1, OnlyNoZero
    <2> QED BY <1>7, <2>1, <2>2
<1>10. log'["down"] = Recorded(origin, Only(wire'["down"], {0} \cup Completing(origin)), agreed)
    <2>1. wire'["down"] = <<>> /\ log'["down"] = <<>>
        BY <1>1, <1>3 DEF TypeOK, Dirs
    <2> QED BY <1>2, <2>1, NothingRecorded
<1>11. Reading(NewParser, origin, 2, 2, agreed)
    BY <1>2, <1>6
<1>12. Came(opos) = 2
    BY <1>3 DEF Came
<1>13. Start' = Start
    BY <1>1 DEF Start, Has, HeadEnd
<1>14. /\ Reading(parser["up"], cells, Start, pos, agreed)'
       /\ Reading(parser["down"], origin, 2, Came(opos), agreed)'
    <2>1. parser'["up"] = NewParser /\ parser'["down"] = NewParser
        BY <1>1, <1>3
    <2>2. Came(opos)' = 2
        BY <1>1, <1>12
    <2> QED BY <1>1, <1>8, <1>11, <1>13, <2>1, <2>2
<1>15. ASSUME NEW d \in Dirs
       PROVE  (log[d] = Recorded(Stream(d), Only(wire[d], {0} \cup Completing(Stream(d))), agreed))'
    <2>1. CASE d = "up"
        BY <1>1, <1>9, <2>1 DEF Stream
    <2>2. CASE d = "down"
        BY <1>1, <1>10, <2>2 DEF Stream
    <2> QED BY <2>1, <2>2 DEF Dirs
<1> QED BY <1>14, <1>15 DEF CaptureInv

\* The client's next chunk: relayed, parsed, captured.
LEMMA ClientDataCaptured ==
    ASSUME TypeOK, TypeOK', HopInv, RelayInv, DeflateInv, DeflateInv', CaptureInv, ~cut,
           NEW n \in 1 .. Len(cells), RelayClientData(n)
    PROVE  CaptureInv'
<1> DEFINE chunk == Places(pos, n)
           after == Push(parser["up"], cells, chunk, deflate)
<1>1. /\ at = "relay" /\ hop = "up" /\ hop' = hop /\ pos + n <= Len(cells) /\ pos' = pos + n
      /\ wire' = [wire EXCEPT !["up"] = @ \o chunk]
      /\ parser' = [parser EXCEPT !["up"] = after]
      /\ log' = [log EXCEPT !["up"] = @ \o after.out]
      /\ UNCHANGED <<cells, origin, agreed, opos, deflate>>
    BY DEF RelayClientData, Parsed
<1>2. /\ Start \in Nat /\ Start <= pos /\ pos \in Nat /\ n \in Nat /\ Len(cells) \in Nat
      /\ cells \in Seq(STRING) /\ Framed(cells, Start)
      /\ agreed \in BOOLEAN /\ deflate \in BOOLEAN
    BY <1>1, SizesAreNaturals, FrontAssumption DEF HopInv, RelayInv, TypeOK
<1>3. /\ Reading(parser["up"], cells, Start, pos, agreed)
      /\ Reading(parser["down"], origin, 2, Came(opos), agreed)
    BY <1>1 DEF CaptureInv
<1>4. \A i \in Start + 1 .. pos + n : cells[i] \in Deflated => deflate /\ agreed
    <2> SUFFICES ASSUME NEW i \in Start + 1 .. pos + n, cells[i] \in Deflated
                 PROVE  deflate /\ agreed
        OBVIOUS
    <2>1. i \in 1 .. pos'
        BY <1>1, <1>2
    <2>2. agreed' /\ opos' >= 2
        BY <1>1, <2>1 DEF DeflateInv
    <2> QED BY <1>1, <2>2 DEF DeflateInv
<1>5. ReadsOn(parser["up"], cells, Start, pos, n, deflate, agreed)
    <2> DEFINE stream == cells
               start == Start
               p == parser["up"]
    <2>1. start \in Nat BY <1>2
    <2>2. stream \in Seq(STRING) BY <1>2
    <2>3. Framed(stream, start) BY <1>2
    <2>4. pos \in Nat BY <1>2
    <2>5. n \in Nat BY <1>2
    <2>6. pos <= Len(stream) \/ pos = start BY <1>1, <1>2
    <2>7. n = 0 \/ pos + n <= Len(stream) BY <1>1
    <2>8. \A i \in start + 1 .. pos + n : stream[i] \in Deflated => deflate /\ agreed
        BY <1>4
    <2>9. Reading(p, stream, start, pos, agreed) BY <1>3
    <2>10. agreed \in BOOLEAN BY <1>2
    <2>11. deflate \in BOOLEAN BY <1>2
    <2> HIDE DEF stream, start, p
    <2>12. ReadsOn(p, stream, start, pos, n, deflate, agreed)
        BY <2>1, <2>2, <2>3, <2>4, <2>5, <2>6, <2>7, <2>8, <2>9, <2>10, <2>11, PushReads
    <2> QED BY <2>12 DEF stream, start, p
<1>6. /\ Reading(after, cells, Start, pos + n, agreed)
      /\ after.out = Recorded(cells, Only(chunk, Completing(cells)), agreed)
    BY <1>5 DEF ReadsOn
<1>7. Only(chunk, {0} \cup Completing(cells)) = Only(chunk, Completing(cells))
    BY <1>2, OnlyNoZero
<1>8. /\ wire'["up"] = wire["up"] \o chunk /\ wire'["down"] = wire["down"]
      /\ log'["up"] = log["up"] \o after.out /\ log'["down"] = log["down"]
      /\ parser'["up"] = after /\ parser'["down"] = parser["down"]
    <2> HIDE DEF after, chunk
    <2> QED BY <1>1 DEF TypeOK, Dirs
<1>9. chunk \in Seq(Nat)
    BY <1>2, PlacesProperties
<1>10. wire["up"] \in Seq(Nat)
    BY DEF TypeOK, Dirs
<1> HIDE DEF after, chunk
<1>11. Recorded(cells, Only(wire["up"], {0} \cup Completing(cells)), agreed) \o after.out
         = Recorded(cells, Only(wire["up"] \o chunk, {0} \cup Completing(cells)), agreed)
    <2> DEFINE w == wire["up"]
               out == after.out
    <2>1. w \in Seq(Nat) BY <1>10
    <2>2. out = Recorded(cells, Only(chunk, {0} \cup Completing(cells)), agreed)
        BY <1>6, <1>7
    <2>3. agreed \in BOOLEAN BY <1>2
    <2> HIDE DEF w, out
    <2>4. RecordsOn(cells, w, chunk, agreed)
        BY <1>9, <2>1, <2>3, RecordChunk
    <2> QED BY <2>2, <2>4 DEF w, out, RecordsOn
<1>12. Start' = Start
    BY <1>1 DEF Start, Has, HeadEnd
<1>13. ASSUME NEW d \in Dirs
       PROVE  (log[d] = Recorded(Stream(d), Only(wire[d], {0} \cup Completing(Stream(d))), agreed))'
    <2>1. log[d] = Recorded(Stream(d), Only(wire[d], {0} \cup Completing(Stream(d))), agreed)
        BY <1>1 DEF CaptureInv
    <2>2. CASE d = "up"
        BY <1>1, <1>8, <1>11, <2>1, <2>2 DEF Stream
    <2>3. CASE d = "down"
        BY <1>1, <1>8, <2>1, <2>3 DEF Stream
    <2> QED BY <2>2, <2>3 DEF Dirs
<1>14. /\ Reading(parser["up"], cells, Start, pos, agreed)'
       /\ Reading(parser["down"], origin, 2, Came(opos), agreed)'
    <2>1. Came(opos)' = Came(opos)
        BY <1>1
    <2> QED BY <1>1, <1>3, <1>6, <1>8, <1>12, <2>1
<1> QED BY <1>13, <1>14 DEF CaptureInv

\* The origin's next chunk, past its response: relayed, parsed, captured.
LEMMA OriginDataCaptured ==
    ASSUME TypeOK, TypeOK', DeflateInv, DeflateInv', CaptureInv, ~cut,
           NEW n \in 1 .. Len(origin), RelayOriginData(n)
    PROVE  CaptureInv'
<1> DEFINE chunk == Places(opos, n)
           frames == Only(chunk, 3 .. Len(origin))
           after == Push(parser["down"], origin, frames, deflate')
           more == Came(opos + n) - Came(opos)
           C == Completing(origin)
<1>1. /\ at = "relay" /\ hop = "up" /\ hop' = hop /\ opos + n <= Len(origin) /\ opos' = opos + n
      /\ wire' = [wire EXCEPT !["down"] = @ \o chunk]
      /\ parser' = [parser EXCEPT !["down"] = after]
      /\ log' = [log EXCEPT !["down"] = @ \o after.out]
      /\ UNCHANGED <<cells, pos, origin, agreed>>
    BY DEF RelayOriginData, Parsed
<1>2. /\ opos \in Nat /\ n \in Nat /\ Len(origin) \in Nat /\ opos <= Len(origin)
      /\ origin \in Seq(STRING) /\ Framed(origin, 2) /\ agreed \in BOOLEAN /\ deflate' \in BOOLEAN
    BY SizesAreNaturals, FrontAssumption DEF TypeOK
<1>3. /\ Reading(parser["up"], cells, Start, pos, agreed)
      /\ Reading(parser["down"], origin, 2, Came(opos), agreed)
    BY <1>1 DEF CaptureInv
<1>4. /\ more \in Nat /\ Came(opos) \in Nat /\ Came(opos) + more = Came(opos + n)
      /\ more = 0 \/ Came(opos) + more <= Len(origin)
      /\ frames = Places(Came(opos), more)
      /\ Only(chunk, {0} \cup C) = Only(frames, C)
    BY <1>1, <1>2, FramesOfChunk
<1>5. \A i \in 2 + 1 .. Came(opos + n) : origin[i] \in Deflated => deflate' /\ agreed
    <2> SUFFICES ASSUME NEW i \in 2 + 1 .. Came(opos + n), origin[i] \in Deflated
                 PROVE  deflate' /\ agreed
        OBVIOUS
    <2>1. i \in 1 .. opos' /\ opos' >= 2
        BY <1>1, <1>2 DEF Came
    <2>2. agreed'
        BY <1>1, <2>1 DEF DeflateInv
    <2> QED BY <1>1, <2>1, <2>2 DEF DeflateInv
<1>6. Came(opos) <= Len(origin) \/ Came(opos) = 2
    BY <1>2 DEF Came
<1> HIDE DEF more, C
<1>7. ReadsOn(parser["down"], origin, 2, Came(opos), more, deflate', agreed)
    <2> DEFINE stream == origin
               start == 2
               came == Came(opos)
               p == parser["down"]
               deflates == deflate'
    <2>1. start \in Nat OBVIOUS
    <2>2. stream \in Seq(STRING) BY <1>2
    <2>3. Framed(stream, start) BY <1>2
    <2>4. came \in Nat BY <1>4
    <2>5. more \in Nat BY <1>4
    <2>6. came <= Len(stream) \/ came = start BY <1>6
    <2>7. more = 0 \/ came + more <= Len(stream) BY <1>4
    <2>8. \A i \in start + 1 .. came + more : stream[i] \in Deflated => deflates /\ agreed
        BY <1>4, <1>5
    <2>9. Reading(p, stream, start, came, agreed) BY <1>3
    <2>10. agreed \in BOOLEAN BY <1>2
    <2>11. deflates \in BOOLEAN BY <1>2
    <2> HIDE DEF stream, start, p, came, deflates
    <2>12. ReadsOn(p, stream, start, came, more, deflates, agreed)
        BY <2>1, <2>2, <2>3, <2>4, <2>5, <2>6, <2>7, <2>8, <2>9, <2>10, <2>11, PushReads
    <2> QED BY <2>12 DEF stream, start, p, came, deflates
<1>8. /\ Reading(after, origin, 2, Came(opos + n), agreed)
      /\ after.out = Recorded(origin, Only(frames, C), agreed)
    <2>1. after = Push(parser["down"], origin, Places(Came(opos), more), deflate')
        BY <1>4
    <2> HIDE DEF after, frames
    <2> QED BY <1>4, <1>7, <2>1 DEF ReadsOn, C
<1> HIDE DEF after
<1>9. /\ wire'["down"] = wire["down"] \o chunk /\ wire'["up"] = wire["up"]
      /\ log'["down"] = log["down"] \o after.out /\ log'["up"] = log["up"]
      /\ parser'["down"] = after /\ parser'["up"] = parser["up"]
    <2> HIDE DEF chunk
    <2> QED BY <1>1 DEF TypeOK, Dirs
<1>10. chunk \in Seq(Nat)
    BY <1>2, PlacesProperties
<1>12. wire["down"] \in Seq(Nat)
    BY DEF TypeOK, Dirs
<1> HIDE DEF chunk, frames
<1>13. Recorded(origin, Only(wire["down"], {0} \cup C), agreed) \o after.out
         = Recorded(origin, Only(wire["down"] \o chunk, {0} \cup C), agreed)
    <2> DEFINE w == wire["down"]
               out == after.out
    <2>1. w \in Seq(Nat) BY <1>12
    <2>2. out = Recorded(origin, Only(chunk, {0} \cup Completing(origin)), agreed)
        BY <1>4, <1>8 DEF C
    <2>3. agreed \in BOOLEAN BY <1>2
    <2> HIDE DEF w, out
    <2>4. RecordsOn(origin, w, chunk, agreed)
        BY <1>10, <2>1, <2>3, RecordChunk
    <2> QED BY <2>2, <2>4 DEF w, out, C, RecordsOn
<1>14. Start' = Start
    BY <1>1 DEF Start, Has, HeadEnd
<1>15. ASSUME NEW d \in Dirs
       PROVE  (log[d] = Recorded(Stream(d), Only(wire[d], {0} \cup Completing(Stream(d))), agreed))'
    <2>1. log[d] = Recorded(Stream(d), Only(wire[d], {0} \cup Completing(Stream(d))), agreed)
        BY <1>1 DEF CaptureInv
    <2>2. CASE d = "up"
        BY <1>1, <1>9, <2>1, <2>2 DEF Stream
    <2>3. CASE d = "down"
        <3>1. log["down"] = Recorded(origin, Only(wire["down"], {0} \cup C), agreed)
            BY <2>1, <2>3 DEF Stream, C
        <3>2. log'["down"] = Recorded(origin, Only(wire'["down"], {0} \cup C), agreed)
            BY <1>9, <1>13, <3>1
        <3> QED BY <1>1, <2>3, <3>2 DEF Stream, C
    <2> QED BY <2>2, <2>3 DEF Dirs
<1>16. /\ Reading(parser["up"], cells, Start, pos, agreed)'
       /\ Reading(parser["down"], origin, 2, Came(opos), agreed)'
    <2>1. Came(opos)' = Came(opos + n)
        BY <1>1
    <2> QED BY <1>1, <1>3, <1>8, <1>9, <1>14, <2>1
<1> QED BY <1>15, <1>16 DEF CaptureInv

\* An injected frame: written and captured.
LEMMA InjectedCaptured ==
    ASSUME TypeOK, EndInv, CaptureInv, ~cut, NEW e \in Dirs, Inject(e)
    PROVE  CaptureInv'
<1>1. /\ at = "relay" /\ hop = "up"
      /\ wire' = [wire EXCEPT ![e] = Append(@, 0)]
      /\ log' = [log EXCEPT ![e] = Append(@, Injected)]
      /\ UNCHANGED <<cells, pos, origin, agreed, opos, parser, hop>>
    BY DEF Inject, EndInv, front
<1>2. agreed \in BOOLEAN
    BY DEF TypeOK
<1>3. ASSUME NEW d \in Dirs
      PROVE  (log[d] = Recorded(Stream(d), Only(wire[d], {0} \cup Completing(Stream(d))), agreed))'
    <2> DEFINE T == {0} \cup Completing(Stream(d))
               w == wire[d]
               u == Only(w, T)
    <2>1. log[d] = Recorded(Stream(d), u, agreed)
        BY <1>1 DEF CaptureInv
    <2>2. Stream(d)' = Stream(d) /\ agreed' = agreed
        BY <1>1 DEF Stream
    <2>3. w \in Seq(Nat)
        BY DEF TypeOK
    <2>4. 0 \in T
        OBVIOUS
    <2>5. CASE d = e
        <3>1. wire'[d] = Append(w, 0) /\ log'[d] = Append(log[d], Injected)
            BY <1>1, <2>5 DEF TypeOK
        <3> HIDE DEF T, w
        <3>2. Only(Append(w, 0), T) = Append(u, 0)
            <4>1. 0 \in Nat OBVIOUS
            <4> QED BY <2>3, <2>4, <4>1, OnlyAppend
        <3>3. u \in Seq(Nat)
            BY <2>3, OnlyType
        <3> HIDE DEF u
        <3>4. Recorded(Stream(d), Append(u, 0), agreed)
                = Append(Recorded(Stream(d), u, agreed), Injected)
            BY <1>2, <2>4, <3>3, RecordedAppend
        <3> QED BY <2>1, <2>2, <3>1, <3>2, <3>4 DEF T
    <2>6. CASE d # e
        <3>1. wire'[d] = w /\ log'[d] = log[d]
            BY <1>1, <2>6 DEF TypeOK
        <3> QED BY <2>1, <2>2, <3>1
    <2> QED BY <2>5, <2>6
<1>4. Start' = Start /\ Came(opos)' = Came(opos)
    BY <1>1 DEF Start, Has, HeadEnd
<1>5. hop = "up" => /\ Reading(parser["up"], cells, Start, pos, agreed)'
                    /\ Reading(parser["down"], origin, 2, Came(opos), agreed)'
    BY <1>1, <1>4 DEF CaptureInv
<1> QED BY <1>1, <1>3, <1>5 DEF CaptureInv

\* Every step keeps the log with the wire and the parsers with the streams.
LEMMA StepCaptureInv ==
    ASSUME ~Hasty
    PROVE  /\ TypeOK /\ TypeOK' /\ ReadInv /\ EndInv /\ FreshInv /\ HopInv /\ RelayInv
           /\ DeflateInv /\ DeflateInv' /\ CaptureInv /\ [Next]_vars
           => CaptureInv'
<1> SUFFICES ASSUME TypeOK, TypeOK', ReadInv, EndInv, FreshInv, HopInv, RelayInv,
                    DeflateInv, DeflateInv', CaptureInv, [Next]_vars
             PROVE  CaptureInv'
    OBVIOUS
<1>a. UNCHANGED <<cells, origin, agreed>> /\ Start' = Start
    <2>1. UNCHANGED <<cells, origin, agreed>>
        BY GivenStays
    <2> QED BY <2>1 DEF Start, Has, HeadEnd
\* A step that neither writes nor parses.
<1>b. ASSUME UNCHANGED <<at, pos, opos, parser, wire, log, cut>>, hop' \in {hop, "closed"}
      PROVE  CaptureInv'
    <2> SUFFICES ASSUME at = "relay", ~cut PROVE CaptureInv'
        BY <1>b DEF CaptureInv
    <2>1. ASSUME NEW d \in Dirs
          PROVE  (log[d] = Recorded(Stream(d), Only(wire[d], {0} \cup Completing(Stream(d))), agreed))'
        <3>1. log[d] = Recorded(Stream(d), Only(wire[d], {0} \cup Completing(Stream(d))), agreed)
            BY DEF CaptureInv
        <3>2. Stream(d)' = Stream(d)
            BY <1>a DEF Stream
        <3> QED BY <1>a, <1>b, <3>1, <3>2
    <2>2. hop' = "up" => /\ Reading(parser["up"], cells, Start, pos, agreed)'
                         /\ Reading(parser["down"], origin, 2, Came(opos), agreed)'
        <3>1. hop' = "up" => hop = "up" BY <1>b
        <3>2. Came(opos)' = Came(opos) BY <1>b
        <3> QED BY <1>a, <1>b, <3>1, <3>2 DEF CaptureInv
    <2> QED BY <2>1, <2>2 DEF CaptureInv
\* A step before the relay.
<1>c. ASSUME at' # "relay" PROVE CaptureInv'
    BY <1>c DEF CaptureInv
<1>d. ASSUME cut' PROVE CaptureInv'
    BY <1>d DEF CaptureInv
<1>1. ASSUME NEW n \in 1 .. Len(cells), Arrive(n) PROVE CaptureInv'
    <2>1. at # "relay"
        BY <1>1 DEF Arrive, Listening
    <2> QED BY <1>1, <1>c, <2>1 DEF Arrive, FirstReader
<1>2. ASSUME SocksReads PROVE CaptureInv'
    BY <1>2, <1>c DEF SocksReads
<1>3. ASSUME SocksRefuses PROVE CaptureInv'
    BY <1>3, <1>c DEF SocksRefuses, Close
<1>4. ASSUME SocksGrants PROVE CaptureInv'
    BY <1>4, <1>c DEF SocksGrants
<1>5. ASSUME AfterSocks PROVE CaptureInv'
    BY <1>5, <1>c DEF AfterSocks, ConnectOn, TunnelTo
<1>6. ASSUME HeadComplete PROVE CaptureInv'
    <2>1. CASE at' # "relay"
        BY <1>c, <2>1
    <2>2. CASE at' = "relay"
        <3>1. at = "head" /\ hop' = "connecting" /\ UNCHANGED <<wire, log>>
            BY <1>6, <2>2 DEF HeadComplete, Close, ConnectOn, TunnelTo, relay
        <3>2. hop = "none"
            BY <3>1 DEF ReadInv, Hops
        <3>3. \A d \in Dirs : wire[d] = <<>> /\ log[d] = <<>>
            BY <3>2 DEF FreshInv
        <3>4. agreed \in BOOLEAN
            BY DEF TypeOK
        <3>5. ASSUME NEW d \in Dirs
              PROVE  (log[d] = Recorded(Stream(d), Only(wire[d], {0} \cup Completing(Stream(d))), agreed))'
            <4>1. log'[d] = <<>> /\ wire'[d] = <<>> /\ agreed' = agreed
                BY <1>a, <3>1, <3>3
            <4>2. Recorded(Stream(d)', Only(<<>>, {0} \cup Completing(Stream(d)')), agreed) = <<>>
                BY <3>4, NothingRecorded
            <4> QED BY <4>1, <4>2
        <3> QED BY <3>1, <3>5 DEF CaptureInv
    <2> QED BY <2>1, <2>2
<1>7. ASSUME HeadTooLong PROVE CaptureInv'
    BY <1>7, <1>c DEF HeadTooLong, Close
<1>8. ASSUME NEW kind \in Hops, HopUp(kind) PROVE CaptureInv'
    BY <1>8, <1>c DEF HopUp
<1>9. ASSUME RelayReady PROVE CaptureInv'
    BY <1>9, <1>d, ReadyCaptures
<1>10. ASSUME NEW n \in 1 .. Len(cells), RelayClientData(n) PROVE CaptureInv'
    <2>1. cut' = cut
        BY <1>10 DEF RelayClientData
    <2> QED BY <1>10, <1>d, <2>1, ClientDataCaptured
<1>11. ASSUME NEW n \in 1 .. Len(origin), RelayOriginData(n) PROVE CaptureInv'
    <2>1. cut' = cut
        BY <1>11 DEF RelayOriginData
    <2> QED BY <1>11, <1>d, <2>1, OriginDataCaptured
<1>12. ASSUME NEW d \in Dirs, Inject(d) PROVE CaptureInv'
    <2>1. cut' = cut
        BY <1>12 DEF Inject
    <2> QED BY <1>12, <1>d, <2>1, InjectedCaptured
<1>13. ASSUME NEW error \in BOOLEAN, ClientLeaves(error) PROVE CaptureInv'
    <2>1. CASE at = "relay"
        <3>1. at' = at
            BY <1>13, <2>1 DEF ClientLeaves, ReadInv, Hops
        <3> QED BY <1>13, <1>b, <3>1 DEF ClientLeaves
    <2>2. CASE at # "relay"
        BY <1>13, <1>c, <2>2 DEF ClientLeaves
    <2> QED BY <2>1, <2>2
<1>14. ASSUME HopEnds PROVE CaptureInv'
    BY <1>14, <1>b DEF HopEnds
<1>15. CASE UNCHANGED vars
    BY <1>15, <1>b DEF vars
<1> QED
    BY <1>1, <1>2, <1>3, <1>4, <1>5, <1>6, <1>7, <1>8, <1>9, <1>10, <1>11, <1>12, <1>13,
       <1>14, <1>15 DEF Next

\* With a client that waits while no one listens, a relay's list of messages is
\* what went over the wire, each when its last byte did (ws-frame.ts:50-124,
\* websocket.ts:107-159).
THEOREM FrontCaptureFollowsWire ==
    ASSUME ~Hasty
    PROVE  Spec => []CaptureFollowsWire
<1>1. CaptureInv => CaptureFollowsWire
    BY DEF CaptureInv, CaptureFollowsWire, Recorded, Stream
<1>2. TypeOK /\ ReadInv /\ EndInv /\ FreshInv /\ HopInv /\ [Next]_vars => HopInv'
    BY StepHopInv
<1>3. /\ TypeOK /\ TypeOK' /\ ReadInv /\ EndInv /\ FreshInv /\ HopInv /\ RelayInv
      /\ DeflateInv /\ DeflateInv' /\ CaptureInv /\ [Next]_vars
      => CaptureInv'
    BY StepCaptureInv
<1> QED
    BY <1>1, <1>2, <1>3, InitTypeOK, StepTypeOK, InitReadInv, StepReadInv, InitEndInv,
       StepEndInv, InitFreshInv, StepFreshInv, InitHopInv, InitRelayInv, StepRelayInv,
       InitDeflateInv, StepDeflateInv, InitCaptureInv, PTL DEF Spec

=============================================================================
