---------------------------- MODULE InspectorProofs ----------------------------
(***************************************************************************)
(* The inspector's page, for any flows, limits and operator.  What the     *)
(* page shows is compared with the store through the messages that are     *)
(* still on their way: `After` is the page once it has handled them.       *)
(***************************************************************************)
EXTENDS Inspector, SubsequenceProofs, FiniteSetTheorems

-----------------------------------------------------------------------------
(* Sequences that list nothing twice.                                      *)

Distinct(s) == \A j, k \in 1 .. Len(s) : s[j] = s[k] => j = k

\* The elements of a sequence.
LEMMA ToSetElements ==
    ASSUME NEW E, NEW s \in Seq(E)
    PROVE  /\ ToSet(s) \in SUBSET E
           /\ \A x : x \in ToSet(s) <=> \E i \in 1 .. Len(s) : s[i] = x
<1>1. DOMAIN s = 1 .. Len(s)
    BY LenProperties
<1>2. \A i \in 1 .. Len(s) : s[i] \in E
    BY ElementOfSeq
<1> QED BY <1>1, <1>2 DEF ToSet

\* Nothing is an element of nothing.
LEMMA ToSetEmpty == ToSet(<<>>) = {}
<1>1. <<>> \in Seq({})
    BY EmptySeq
<1>2. ToSet(<<>>) \in SUBSET {}
    BY <1>1, ToSetElements
<1> QED BY <1>2

\* One more element.
LEMMA ToSetAppend ==
    ASSUME NEW E, NEW s \in Seq(E), NEW e \in E
    PROVE  ToSet(Append(s, e)) = ToSet(s) \cup {e}
<1> DEFINE t == Append(s, e)
<1>1. /\ t \in Seq(E) /\ Len(t) = Len(s) + 1 /\ Len(s) \in Nat
      /\ \A i \in 1 .. Len(s) : t[i] = s[i]
      /\ t[Len(s) + 1] = e
    BY AppendProperties, LenProperties
<1> HIDE DEF t
<1>2. \A x : x \in ToSet(t) <=> \E i \in 1 .. Len(t) : t[i] = x
    BY <1>1, ToSetElements
<1>3. \A x : x \in ToSet(s) <=> \E i \in 1 .. Len(s) : s[i] = x
    BY ToSetElements
<1>4. ASSUME NEW x \in ToSet(t) PROVE x \in ToSet(s) \cup {e}
    <2>1. PICK i \in 1 .. Len(t) : t[i] = x
        BY <1>2
    <2>2. i \in 1 .. Len(s) \/ i = Len(s) + 1
        BY <1>1
    <2> QED BY <1>1, <1>3, <2>1, <2>2
<1>5. ASSUME NEW x \in ToSet(s) PROVE x \in ToSet(t)
    <2>1. PICK i \in 1 .. Len(s) : s[i] = x
        BY <1>3
    <2>2. i \in 1 .. Len(t) /\ t[i] = x
        BY <1>1, <2>1
    <2> QED BY <1>2, <2>2
<1>6. e \in ToSet(t)
    <2>1. Len(s) + 1 \in 1 .. Len(t)
        BY <1>1
    <2> QED BY <1>1, <1>2, <2>1
<1> QED BY <1>4, <1>5, <1>6 DEF t

\* One more element, if it is new, is listed once.
LEMMA DistinctAppend ==
    ASSUME NEW E, NEW s \in Seq(E), NEW e \in E, Distinct(s), e \notin ToSet(s)
    PROVE  Distinct(Append(s, e))
<1> DEFINE t == Append(s, e)
<1>1. /\ Len(t) = Len(s) + 1 /\ Len(s) \in Nat
      /\ \A i \in 1 .. Len(s) : t[i] = s[i]
      /\ t[Len(s) + 1] = e
    BY AppendProperties, LenProperties
<1>2. \A i \in 1 .. Len(s) : s[i] # e
    BY ToSetElements
<1> HIDE DEF t
<1>3. ASSUME NEW j \in 1 .. Len(t), NEW k \in 1 .. Len(t), t[j] = t[k] PROVE j = k
    <2>1. (j \in 1 .. Len(s) \/ j = Len(s) + 1) /\ (k \in 1 .. Len(s) \/ k = Len(s) + 1)
        BY <1>1
    <2> QED BY <1>1, <1>2, <1>3, <2>1 DEF Distinct
<1> QED BY <1>3 DEF Distinct, t

\* What is kept of a sequence has the elements that are kept.
LEMMA OnlyElements ==
    ASSUME NEW E, NEW s \in Seq(E), NEW T
    PROVE  ToSet(Only(s, T)) = ToSet(s) \cap T
<1> DEFINE P == {u \in Seq(E) : ToSet(Only(u, T)) = ToSet(u) \cap T}
<1>1. <<>> \in P
    BY OnlyEmpty, EmptySeq, ToSetEmpty
<1>2. ASSUME NEW u \in P, NEW e \in E PROVE Append(u, e) \in P
    <2>1. Append(u, e) \in Seq(E) /\ ToSet(Append(u, e)) = ToSet(u) \cup {e}
        BY AppendProperties, ToSetAppend
    <2>2. Only(u, T) \in Seq(E)
        BY OnlyType
    <2>3. ToSet(Append(Only(u, T), e)) = ToSet(Only(u, T)) \cup {e}
        BY <2>2, ToSetAppend
    <2>4. Only(Append(u, e), T) = IF e \in T THEN Append(Only(u, T), e) ELSE Only(u, T)
        BY OnlyAppend
    <2>5. ToSet(Only(u, T)) = ToSet(u) \cap T
        OBVIOUS
    <2> QED BY <2>1, <2>3, <2>4, <2>5
<1>3. P = Seq(E)
    <2>1. P \in SUBSET Seq(E) OBVIOUS
    <2> HIDE DEF P
    <2> QED BY <1>1, <1>2, <2>1, SeqSetInduction
<1> QED BY <1>3

\* Nothing is listed twice in what is kept.
LEMMA OnlyDistinct ==
    ASSUME NEW E, NEW s \in Seq(E), NEW T, Distinct(s)
    PROVE  Distinct(Only(s, T))
<1> DEFINE P == {u \in Seq(E) : Distinct(u) => Distinct(Only(u, T))}
<1>1. <<>> \in P
    BY OnlyEmpty, EmptySeq
<1>2. ASSUME NEW u \in P, NEW e \in E PROVE Append(u, e) \in P
    <2> SUFFICES ASSUME Distinct(Append(u, e)) PROVE Distinct(Only(Append(u, e), T))
        BY AppendProperties
    <2>1. /\ Append(u, e) \in Seq(E) /\ Len(Append(u, e)) = Len(u) + 1 /\ Len(u) \in Nat
          /\ \A i \in 1 .. Len(u) : Append(u, e)[i] = u[i]
          /\ Append(u, e)[Len(u) + 1] = e
        BY AppendProperties, LenProperties
    <2>2. Distinct(u)
        BY <2>1 DEF Distinct
    <2>3. Distinct(Only(u, T))
        BY <2>2
    <2>4. e \notin ToSet(u)
        <3> SUFFICES ASSUME e \in ToSet(u) PROVE FALSE
            OBVIOUS
        <3>1. PICK i \in 1 .. Len(u) : u[i] = e
            BY ToSetElements
        <3> QED BY <2>1, <3>1 DEF Distinct
    <2>5. ToSet(Only(u, T)) = ToSet(u) \cap T
        BY OnlyElements
    <2>6. Only(u, T) \in Seq(E)
        BY OnlyType
    <2>7. Distinct(Append(Only(u, T), e))
        BY <2>3, <2>4, <2>5, <2>6, DistinctAppend
    <2>8. Only(Append(u, e), T) = IF e \in T THEN Append(Only(u, T), e) ELSE Only(u, T)
        BY OnlyAppend
    <2> QED BY <2>3, <2>7, <2>8
<1>3. P = Seq(E)
    <2>1. P \in SUBSET Seq(E) OBVIOUS
    <2> HIDE DEF P
    <2> QED BY <1>1, <1>2, <2>1, SeqSetInduction
<1> QED BY <1>3

\* To keep the elements of U and of them those of T is to keep those of T, if
\* U has them all.
LEMMA OnlyOnly ==
    ASSUME NEW E, NEW s \in Seq(E), NEW U, NEW T \in SUBSET U
    PROVE  Only(Only(s, U), T) = Only(s, T)
<1> DEFINE P == {u \in Seq(E) : Only(Only(u, U), T) = Only(u, T)}
<1>1. <<>> \in P
    BY OnlyEmpty, EmptySeq
<1>2. ASSUME NEW u \in P, NEW e \in E PROVE Append(u, e) \in P
    <2>1. Append(u, e) \in Seq(E)
        BY AppendProperties
    <2>2. Only(u, U) \in Seq(E)
        BY OnlyType
    <2>3. Only(Append(u, e), U) = IF e \in U THEN Append(Only(u, U), e) ELSE Only(u, U)
        BY OnlyAppend
    <2>4. Only(Append(u, e), T) = IF e \in T THEN Append(Only(u, T), e) ELSE Only(u, T)
        BY OnlyAppend
    <2>5. Only(Append(Only(u, U), e), T)
            = IF e \in T THEN Append(Only(Only(u, U), T), e) ELSE Only(Only(u, U), T)
        <3> DEFINE v == Only(u, U)
        <3>1. v \in Seq(E) BY <2>2
        <3> HIDE DEF v
        <3>2. Only(Append(v, e), T) = IF e \in T THEN Append(Only(v, T), e) ELSE Only(v, T)
            BY <3>1, OnlyAppend
        <3> QED BY <3>2 DEF v
    <2>6. Only(Only(u, U), T) = Only(u, T)
        OBVIOUS
    <2>7. e \in T => e \in U
        OBVIOUS
    <2>8. Only(Only(Append(u, e), U), T) = Only(Append(u, e), T)
        BY <2>3, <2>4, <2>5, <2>6, <2>7, Zenon
    <2> QED BY <2>1, <2>8
<1>3. P = Seq(E)
    <2>1. P \in SUBSET Seq(E) OBVIOUS
    <2> HIDE DEF P
    <2> QED BY <1>1, <1>2, <2>1, SeqSetInduction
<1> QED BY <1>3

\* A sequence without its first n elements lists the rest once, and is what is
\* kept of it for these.
LEMMA RestIsOnly ==
    ASSUME NEW E, NEW s \in Seq(E), Distinct(s), NEW n \in 0 .. Len(s)
    PROVE  LET rest == SubSeq(s, n + 1, Len(s)) IN
           /\ rest \in Seq(E) /\ Len(rest) = Len(s) - n
           /\ Distinct(rest)
           /\ ToSet(rest) \subseteq ToSet(s)
           /\ Only(s, ToSet(rest)) = rest
<1> DEFINE first == SubSeq(s, 1, n)
           rest == SubSeq(s, n + 1, Len(s))
           T == ToSet(rest)
<1>1. Len(s) \in Nat /\ n \in Nat /\ \A i \in 1 .. Len(s) : s[i] \in E
    BY LenProperties, ElementOfSeq
<1>2. /\ rest \in Seq(E) /\ Len(rest) = Len(s) - n
      /\ \A i \in 1 .. Len(s) - n : rest[i] = s[n + i]
    <2>1. \A i \in n + 1 .. Len(s) : s[i] \in E
        BY <1>1
    <2>2. /\ rest \in Seq(E)
          /\ Len(rest) = IF n + 1 <= Len(s) THEN Len(s) - (n + 1) + 1 ELSE 0
          /\ \A i \in 1 .. Len(s) - (n + 1) + 1 : rest[i] = s[n + 1 + i - 1]
        BY <1>1, <2>1, SubSeqProperties
    <2> HIDE DEF rest
    <2> QED BY <1>1, <2>2
<1>3. first \in Seq(E) /\ Len(first) = n /\ \A i \in 1 .. n : first[i] = s[i]
    <2>1. \A i \in 1 .. n : s[i] \in E
        BY <1>1
    <2>2. /\ first \in Seq(E)
          /\ Len(first) = IF 1 <= n THEN n - 1 + 1 ELSE 0
          /\ \A i \in 1 .. n - 1 + 1 : first[i] = s[1 + i - 1]
        BY <1>1, <2>1, SubSeqProperties
    <2> HIDE DEF first
    <2> QED BY <1>1, <2>2
<1>4. first \o rest = s
    <2> HIDE DEF first, rest
    <2> DEFINE t == first \o rest
    <2>1. /\ t \in Seq(E) /\ Len(t) = Len(first) + Len(rest)
          /\ \A i \in 1 .. Len(first) + Len(rest) :
                t[i] = IF i <= Len(first) THEN first[i] ELSE rest[i - Len(first)]
        BY <1>2, <1>3, ConcatProperties
    <2> HIDE DEF t
    <2>2. Len(t) = Len(s)
        BY <1>1, <1>2, <1>3, <2>1
    <2>3. ASSUME NEW i \in 1 .. Len(s) PROVE t[i] = s[i]
        <3>1. CASE i <= n
            <4>1. i \in 1 .. n /\ i <= Len(first) /\ i \in 1 .. Len(first) + Len(rest)
                BY <1>1, <1>2, <1>3, <3>1
            <4>2. t[i] = first[i] /\ first[i] = s[i]
                BY <1>3, <2>1, <4>1
            <4> QED BY <4>2
        <3>2. CASE i > n
            <4>1. i - n \in 1 .. Len(s) - n /\ n + (i - n) = i
                BY <1>1, <3>2
            <4> QED BY <1>1, <1>2, <1>3, <2>1, <3>2, <4>1
        <3> QED BY <1>1, <3>1, <3>2
    <2>4. t = s
        BY <2>1, <2>2, <2>3, SeqEqual
    <2> QED BY <2>4 DEF t
<1> HIDE DEF first, rest
<1>5. Distinct(rest)
    <2> SUFFICES ASSUME NEW j \in 1 .. Len(rest), NEW k \in 1 .. Len(rest), rest[j] = rest[k]
                 PROVE  j = k
        BY DEF Distinct
    <2>1. n + j \in 1 .. Len(s) /\ n + k \in 1 .. Len(s) /\ s[n + j] = s[n + k]
        BY <1>1, <1>2
    <2>2. n + j = n + k
        BY <2>1 DEF Distinct
    <2> QED BY <1>1, <2>2
<1>6. \A x : x \in T <=> \E i \in 1 .. Len(rest) : rest[i] = x
    BY <1>2, ToSetElements
<1>7. T \subseteq ToSet(s)
    <2> SUFFICES ASSUME NEW x \in T PROVE x \in ToSet(s)
        OBVIOUS
    <2>1. PICK i \in 1 .. Len(rest) : rest[i] = x
        BY <1>6
    <2>2. n + i \in 1 .. Len(s) /\ s[n + i] = x
        BY <1>1, <1>2, <2>1
    <2> QED BY <2>2, ToSetElements
<1>8. Only(rest, T) = rest
    <2>1. \A i \in 1 .. Len(rest) : rest[i] \in T
        BY <1>6
    <2> HIDE DEF T
    <2> QED BY <1>2, <2>1, OnlyAll
<1>9. Only(first, T) = <<>>
    <2>1. \A i \in 1 .. Len(first) : first[i] \notin T
        <3> SUFFICES ASSUME NEW i \in 1 .. Len(first), first[i] \in T PROVE FALSE
            OBVIOUS
        <3>1. PICK j \in 1 .. Len(rest) : rest[j] = first[i]
            BY <1>6
        <3>2. i \in 1 .. Len(s) /\ n + j \in 1 .. Len(s) /\ s[i] = s[n + j]
            BY <1>1, <1>2, <1>3, <3>1
        <3>3. i = n + j
            BY <3>2 DEF Distinct
        <3> QED BY <1>1, <1>2, <1>3, <3>1, <3>3
    <2> HIDE DEF T
    <2> QED BY <1>3, <2>1, OnlyNone
<1>10. Only(first \o rest, T) = Only(first, T) \o Only(rest, T)
    <2> HIDE DEF T
    <2>1. first \in Seq(E) BY <1>3
    <2>2. rest \in Seq(E) BY <1>2
    <2> QED BY <2>1, <2>2, OnlyConcat
<1>11. Only(s, T) = rest
    BY <1>2, <1>4, <1>8, <1>9, <1>10, ConcatEmptySeq
<1> QED BY <1>2, <1>5, <1>7, <1>11 DEF rest, T

-----------------------------------------------------------------------------
(* What the page becomes of the messages.                                  *)

\* The messages that the server sends: an "add" and an "update" carry one flow,
\* and none carries a flow twice.
Mail == {m \in Messages :
            /\ m.type \in {"add", "update"} => Len(m.flows) = 1
            /\ \A j, k \in 1 .. Len(m.flows) : m.flows[j].flow = m.flows[k].flow => j = k}

\* The page: its map and its list.
Pages == [rows : [Flows -> Nat], order : Seq(Flows)]
Page == [rows |-> rows, order |-> order]
Blank == [rows |-> [f \in Flows |-> 0], order |-> <<>>]

\* What a snapshot, and a message about one flow, make of it.
Shot(m) ==
    [rows |-> [f \in Flows |->
                 IF \E i \in 1 .. Len(m.flows) : m.flows[i].flow = f
                 THEN (CHOOSE s \in ToSet(m.flows) : s.flow = f).ver ELSE 0],
     order |-> [i \in 1 .. Len(m.flows) |-> m.flows[i].flow]]

Added(p, s) ==
    [rows |-> [p.rows EXCEPT ![s.flow] = s.ver],
     order |-> IF p.rows[s.flow] = 0 THEN Append(p.order, s.flow) ELSE p.order]

\* What a message makes of it, and what a sequence of messages does.
Handled(p, m) ==
    IF m.type = "snapshot" THEN Shot(m)
    ELSE IF m.type = "clear" THEN Blank
    ELSE IF m.type = "removed" THEN p
    ELSE Added(p, m.flows[1])

After(p, messages) == Accumulate([x \in Pages \X Mail |-> Handled(x[1], x[2])], p, messages)

\* The page's list and its map agree, and nothing is listed twice.
Consistent(p) == Distinct(p.order) /\ ToSet(p.order) = {f \in Flows : p.rows[f] > 0}

\* A flow or nothing is numbered so.
LEMMA NoneIsNoFlow == Flows \in SUBSET Nat /\ None \notin Flows
BY InspectorAssumption DEF Flows, None

\* A page that has read a snapshot shows what that carries.
LEMMA ShotProperties ==
    ASSUME NEW m \in Mail
    PROVE  /\ Shot(m) \in Pages /\ Consistent(Shot(m))
           /\ \A k \in 1 .. Len(m.flows) : Shot(m).rows[m.flows[k].flow] = m.flows[k].ver
           /\ \A f \in Flows : Shot(m).rows[f] > 0 =>
                                    \E k \in 1 .. Len(m.flows) : m.flows[k].flow = f
<1> DEFINE flows == m.flows
           n == Len(flows)
           p == Shot(m)
<1>1. /\ flows \in Seq(Summaries) /\ n \in Nat
      /\ \A k \in 1 .. n : flows[k].flow \in Flows /\ flows[k].ver \in Nat /\ flows[k].ver > 0
    <2>1. flows \in Seq(Summaries)
        BY DEF Mail, Messages
    <2>2. n \in Nat /\ \A k \in 1 .. n : flows[k] \in Summaries
        BY <2>1, LenProperties, ElementOfSeq
    <2> QED BY <2>1, <2>2 DEF Summaries
<1>2. \A j, k \in 1 .. n : flows[j].flow = flows[k].flow => j = k
    BY DEF Mail
<1> HIDE DEF flows
<1>3. ASSUME NEW k \in 1 .. n
      PROVE  (CHOOSE s \in ToSet(flows) : s.flow = flows[k].flow) = flows[k]
    <2> DEFINE f == flows[k].flow
               s == CHOOSE t \in ToSet(flows) : t.flow = f
    <2>1. flows[k] \in ToSet(flows)
        BY <1>1, ToSetElements
    <2>2. s \in ToSet(flows) /\ s.flow = f
        <3>1. \E t \in ToSet(flows) : t.flow = f
            BY <2>1
        <3> HIDE DEF f
        <3> QED BY <3>1
    <2> HIDE DEF s
    <2>3. PICK i \in 1 .. n : flows[i] = s
        BY <1>1, <2>2, ToSetElements
    <2>4. i = k
        BY <1>2, <2>2, <2>3
    <2> QED BY <2>3, <2>4 DEF s
<1>4. \A f \in Flows : p.rows[f] = IF \E i \in 1 .. n : flows[i].flow = f
                                   THEN (CHOOSE s \in ToSet(flows) : s.flow = f).ver ELSE 0
    BY DEF Shot, flows
<1>5. p.order = [i \in 1 .. n |-> flows[i].flow]
    BY DEF Shot, flows
<1>6. ASSUME NEW k \in 1 .. n PROVE p.rows[flows[k].flow] = flows[k].ver
    <2>1. flows[k].flow \in Flows
        BY <1>1
    <2>2. \E i \in 1 .. n : flows[i].flow = flows[k].flow
        OBVIOUS
    <2> QED BY <1>3, <1>4, <2>1, <2>2
<1>7. ASSUME NEW f \in Flows
      PROVE  p.rows[f] \in Nat /\ (p.rows[f] > 0 <=> \E i \in 1 .. n : flows[i].flow = f)
    <2>1. CASE \E i \in 1 .. n : flows[i].flow = f
        <3>1. PICK k \in 1 .. n : flows[k].flow = f
            BY <2>1
        <3>2. p.rows[f] = flows[k].ver
            BY <1>6, <3>1
        <3> QED BY <1>1, <2>1, <3>2
    <2>2. CASE ~(\E i \in 1 .. n : flows[i].flow = f)
        <3>1. p.rows[f] = 0
            BY <1>4, <2>2
        <3> QED BY <2>2, <3>1
    <2> QED BY <2>1, <2>2
<1>8. p.order \in Seq(Flows) /\ Len(p.order) = n /\ \A i \in 1 .. n : p.order[i] = flows[i].flow
    <2>1. p.order \in [1 .. n -> Flows]
        BY <1>1, <1>5
    <2>2. p.order \in Seq(Flows) /\ Len(p.order) = n
        <3> DEFINE o == p.order
        <3>1. o \in [1 .. n -> Flows] BY <2>1
        <3> HIDE DEF o
        <3>2. o \in Seq(Flows) /\ Len(o) = n BY <1>1, <3>1, FunctionIsSeq
        <3> QED BY <3>2 DEF o
    <2> QED BY <1>5, <2>2
<1>9. p \in Pages
    <2>1. p = [rows |-> p.rows, order |-> p.order] /\ p.rows = [f \in Flows |-> p.rows[f]]
        BY DEF Shot
    <2>2. p.rows \in [Flows -> Nat]
        BY <1>7, <2>1
    <2> QED BY <1>8, <2>1, <2>2 DEF Pages
<1> HIDE DEF p
<1>10. Distinct(p.order)
    BY <1>2, <1>8 DEF Distinct
<1>11. \A x : x \in ToSet(p.order) <=> \E i \in 1 .. n : flows[i].flow = x
    BY <1>8, ToSetElements
<1>12. ToSet(p.order) = {f \in Flows : p.rows[f] > 0}
    BY <1>1, <1>7, <1>11
<1> QED BY <1>6, <1>7, <1>9, <1>10, <1>12 DEF Consistent, flows, p

\* A page that has heard of a flow shows it, and stays consistent.
LEMMA AddedProperties ==
    ASSUME NEW p \in Pages, NEW s \in Summaries
    PROVE  /\ Added(p, s) \in Pages
           /\ Added(p, s).rows = [p.rows EXCEPT ![s.flow] = s.ver]
           /\ Consistent(p) => Consistent(Added(p, s))
<1> DEFINE f == s.flow
           q == Added(p, s)
<1>1. f \in Flows /\ s.ver \in Nat /\ s.ver > 0 /\ p.rows \in [Flows -> Nat] /\ p.order \in Seq(Flows)
    BY DEF Summaries, Pages
<1>2. /\ q.rows = [p.rows EXCEPT ![f] = s.ver]
      /\ q.order = IF p.rows[f] = 0 THEN Append(p.order, f) ELSE p.order
      /\ q = [rows |-> q.rows, order |-> q.order]
    BY DEF Added
<1> HIDE DEF q, f
<1>3. Append(p.order, f) \in Seq(Flows) /\ ToSet(Append(p.order, f)) = ToSet(p.order) \cup {f}
    <2> DEFINE o == p.order
    <2>1. o \in Seq(Flows) BY <1>1
    <2> HIDE DEF o
    <2>2. Append(o, f) \in Seq(Flows) /\ ToSet(Append(o, f)) = ToSet(o) \cup {f}
        BY <1>1, <2>1, AppendProperties, ToSetAppend
    <2> QED BY <2>2 DEF o
<1>4. q \in Pages
    BY <1>1, <1>2, <1>3 DEF Pages
<1>5. ASSUME Consistent(p) PROVE Consistent(q)
    <2>1. {g \in Flows : q.rows[g] > 0} = {g \in Flows : p.rows[g] > 0} \cup {f}
        BY <1>1, <1>2
    <2>2. CASE p.rows[f] = 0
        <3>1. f \notin ToSet(p.order)
            BY <1>5, <2>2 DEF Consistent
        <3>2. Distinct(Append(p.order, f))
            <4> DEFINE o == p.order
            <4>1. o \in Seq(Flows) BY <1>1
            <4>2. Distinct(o) /\ f \notin ToSet(o) BY <1>5, <3>1 DEF Consistent
            <4> HIDE DEF o
            <4>3. Distinct(Append(o, f)) BY <1>1, <4>1, <4>2, DistinctAppend
            <4> QED BY <4>3 DEF o
        <3> QED BY <1>2, <1>3, <1>5, <2>1, <2>2, <3>2 DEF Consistent
    <2>3. CASE p.rows[f] # 0
        <3>1. p.rows[f] > 0
            BY <1>1, <2>3
        <3> QED BY <1>1, <1>2, <1>5, <2>1, <2>3, <3>1 DEF Consistent
    <2> QED BY <2>2, <2>3
<1> QED BY <1>2, <1>4, <1>5 DEF q, f

\* A page that shows nothing is consistent.
LEMMA BlankProperties == Blank \in Pages /\ Consistent(Blank)
<1>1. <<>> \in Seq(Flows) /\ Len(<<>>) = 0
    BY EmptySeq
<1>2. Blank \in Pages
    BY <1>1 DEF Blank, Pages
<1>3. Distinct(Blank.order)
    BY <1>1 DEF Distinct, Blank
<1>4. ToSet(Blank.order) = {f \in Flows : Blank.rows[f] > 0}
    BY ToSetEmpty DEF Blank
<1> QED BY <1>2, <1>3, <1>4 DEF Consistent

\* Messages after which it does not matter what the page was.
Reset(m) == m.type \in {"snapshot", "clear"}

\* The page is a page after each message, and what resets it makes it consistent.
LEMMA HandledProperties ==
    ASSUME NEW p \in Pages, NEW m \in Mail
    PROVE  /\ Handled(p, m) \in Pages
           /\ Consistent(p) \/ Reset(m) => Consistent(Handled(p, m))
<1>1. m.type \in {"snapshot", "add", "update", "removed", "clear"} /\ m.flows \in Seq(Summaries)
    BY DEF Mail, Messages
<1>2. CASE m.type = "snapshot"
    BY <1>2, ShotProperties DEF Handled
<1>3. CASE m.type = "clear"
    BY <1>3, BlankProperties DEF Handled
<1>4. CASE m.type = "removed"
    BY <1>4 DEF Handled, Reset
<1>5. CASE m.type \in {"add", "update"}
    <2>1. m.flows[1] \in Summaries
        <3>1. Len(m.flows) = 1
            BY <1>5 DEF Mail
        <3>2. 1 \in 1 .. Len(m.flows)
            BY <3>1
        <3> QED BY <1>1, <3>2, ElementOfSeq
    <2>2. Handled(p, m) = Added(p, m.flows[1]) /\ ~Reset(m)
        BY <1>5 DEF Handled, Reset
    <2> DEFINE s == m.flows[1]
    <2>3. s \in Summaries
        BY <2>1
    <2> HIDE DEF s
    <2>4. Added(p, s) \in Pages /\ (Consistent(p) => Consistent(Added(p, s)))
        BY <2>3, AddedProperties
    <2> QED BY <2>2, <2>4 DEF s
<1> QED BY <1>1, <1>2, <1>3, <1>4, <1>5

\* Handling is a function, so that it can be folded.
LEMMA HandlingType ==
    [x \in Pages \X Mail |-> Handled(x[1], x[2])] \in [Pages \X Mail -> Pages]
BY HandledProperties

\* The page is still a page when it has handled everything.
LEMMA AfterType ==
    ASSUME NEW p \in Pages, NEW u \in Seq(Mail)
    PROVE  After(p, u) \in Pages
<1> DEFINE G == [x \in Pages \X Mail |-> Handled(x[1], x[2])]
<1>1. G \in [Pages \X Mail -> Pages]
    BY HandlingType
<1> HIDE DEF G
<1>2. Accumulate(G, p, u) \in Pages
    BY <1>1, AccumulateType
<1> QED BY <1>2 DEF After, G

\* Nothing to handle changes nothing.
LEMMA AfterNothing ==
    ASSUME NEW p \in Pages
    PROVE  After(p, <<>>) = p
<1> DEFINE G == [x \in Pages \X Mail |-> Handled(x[1], x[2])]
<1>1. G \in [Pages \X Mail -> Pages]
    BY HandlingType
<1> HIDE DEF G
<1>2. Accumulate(G, p, <<>>) = p
    BY <1>1, AccumulateEmpty
<1> QED BY <1>2 DEF After, G

\* The message that was sent last is handled last.
LEMMA AfterAppend ==
    ASSUME NEW p \in Pages, NEW u \in Seq(Mail), NEW m \in Mail
    PROVE  After(p, Append(u, m)) = Handled(After(p, u), m)
<1> DEFINE G == [x \in Pages \X Mail |-> Handled(x[1], x[2])]
           q == Accumulate(G, p, u)
<1>1. G \in [Pages \X Mail -> Pages]
    BY HandlingType
<1>2. q \in Pages
    <2> HIDE DEF G
    <2> QED BY <1>1, AccumulateType
<1>3. Accumulate(G, p, Append(u, m)) = G[<<q, m>>]
    <2> HIDE DEF G, q
    <2>1. p \in Pages
        OBVIOUS
    <2>2. u \in Seq(Mail)
        OBVIOUS
    <2>3. m \in Mail
        OBVIOUS
    <2>4. OneMore(G, p, u, m)
        BY <1>1, <2>1, <2>2, <2>3, AccumulateAppend
    <2> QED BY <2>4 DEF OneMore, q
<1> HIDE DEF q
<1>4. G[<<q, m>>] = Handled(q, m)
    BY <1>2
<1> HIDE DEF G
<1> QED BY <1>3, <1>4 DEF After, G, q

\* To handle the first message and then the others is to handle them all.
LEMMA AfterTail ==
    ASSUME NEW p \in Pages, NEW u \in Seq(Mail), u # <<>>
    PROVE  After(Handled(p, Head(u)), Tail(u)) = After(p, u)
<1> DEFINE P == {v \in Seq(Mail) :
                    v # <<>> => After(Handled(p, Head(v)), Tail(v)) = After(p, v)}
<1>1. <<>> \in P
    BY EmptySeq
<1>2. ASSUME NEW v \in P, NEW m \in Mail PROVE Append(v, m) \in P
    <2> DEFINE w == Append(v, m)
    <2>1. w \in Seq(Mail)
        BY AppendProperties
    <2>2. After(p, w) = Handled(After(p, v), m)
        BY AfterAppend
    <2>3. Head(w) = (IF v = <<>> THEN m ELSE Head(v))
          /\ Tail(w) = (IF v = <<>> THEN <<>> ELSE Append(Tail(v), m))
        BY HeadTailAppend
    <2>4. CASE v = <<>>
        <3>1. After(p, v) = p
            BY <2>4, AfterNothing
        <3>2. Handled(p, m) \in Pages
            BY HandledProperties
        <3>3. After(Handled(p, m), <<>>) = Handled(p, m)
            BY <3>2, AfterNothing
        <3> HIDE DEF w
        <3>4. After(Handled(p, Head(w)), Tail(w)) = After(p, w)
            BY <2>2, <2>3, <2>4, <3>1, <3>3
        <3> QED BY <2>1, <3>4 DEF w
    <2>5. CASE v # <<>>
        <3>1. Head(v) \in Mail /\ Tail(v) \in Seq(Mail)
            BY <2>5, HeadTailProperties
        <3> DEFINE h == Handled(p, Head(v))
                   t == Tail(v)
        <3>2. h \in Pages
            BY <3>1, HandledProperties
        <3>3. t \in Seq(Mail)
            BY <3>1
        <3>4. After(h, t) = After(p, v)
            BY <2>5
        <3>5. After(Handled(p, Head(w)), Tail(w)) = After(h, Append(t, m))
            <4> HIDE DEF w
            <4> QED BY <2>3, <2>5
        <3> HIDE DEF h, t, w
        <3>6. After(h, Append(t, m)) = Handled(After(h, t), m)
            BY <3>2, <3>3, AfterAppend
        <3>7. After(Handled(p, Head(w)), Tail(w)) = After(p, w)
            BY <2>2, <3>4, <3>5, <3>6
        <3> QED BY <2>1, <3>7 DEF w
    <2> QED BY <2>4, <2>5
<1>3. P = Seq(Mail)
    <2>1. P \in SUBSET Seq(Mail) OBVIOUS
    <2> HIDE DEF P
    <2> QED BY <1>1, <1>2, <2>1, SeqSetInduction
<1> QED BY <1>3

\* "removed" is ignored, however many come.
LEMMA AfterRemoved ==
    ASSUME NEW p \in Pages, NEW u \in Seq(Mail), NEW v \in Seq(Mail),
           \A i \in 1 .. Len(v) : v[i].type = "removed"
    PROVE  After(p, u \o v) = After(p, u)
<1> DEFINE Quiet == {m \in Mail : m.type = "removed"}
           P == {t \in Seq(Quiet) : u \o t \in Seq(Mail) /\ After(p, u \o t) = After(p, u)}
<1>1. <<>> \in P
    BY EmptySeq, ConcatEmptySeq
<1>2. ASSUME NEW t \in P, NEW m \in Quiet PROVE Append(t, m) \in P
    <2>1. Append(t, m) \in Seq(Quiet)
        BY AppendProperties
    <2>2. t \in Seq(Mail)
        <3>1. Quiet \subseteq Mail OBVIOUS
        <3>2. t \in Seq(Quiet) OBVIOUS
        <3> HIDE DEF Quiet, P
        <3> QED BY <3>1, <3>2, SeqMonotonic
    <2>3. m \in Mail
        OBVIOUS
    <2>4. u \o Append(t, m) = Append(u \o t, m)
        <3> HIDE DEF P, Quiet
        <3> QED BY <2>2, <2>3, AppendToConcat
    <2>5. u \o t \in Seq(Mail) /\ After(p, u \o t) = After(p, u)
        OBVIOUS
    <2> DEFINE w == u \o t
    <2>6. w \in Seq(Mail) BY <2>5
    <2> HIDE DEF w
    <2>7. After(p, Append(w, m)) = Handled(After(p, w), m) /\ Append(w, m) \in Seq(Mail)
        BY <2>3, <2>6, AfterAppend, AppendProperties
    <2>8. Handled(After(p, w), m) = After(p, w)
        BY DEF Handled
    <2> QED BY <2>1, <2>4, <2>5, <2>7, <2>8 DEF w
<1>3. P = Seq(Quiet)
    <2>1. P \in SUBSET Seq(Quiet) OBVIOUS
    <2> HIDE DEF P, Quiet
    <2> QED BY <1>1, <1>2, <2>1, SeqSetInduction
<1>4. v \in Seq(Quiet)
    <2>1. v \in [1 .. Len(v) -> Mail] /\ Len(v) \in Nat
        BY LenProperties
    <2>2. v \in [1 .. Len(v) -> Quiet]
        BY <2>1
    <2> HIDE DEF Quiet
    <2> QED BY <2>1, <2>2, FunctionIsSeq
<1> QED BY <1>3, <1>4

Resets(u) == \E i \in 1 .. Len(u) : Reset(u[i])

\* What happened last, or before it.
LEMMA ResetsAppend ==
    ASSUME NEW u \in Seq(Mail), NEW m \in Mail
    PROVE  Resets(Append(u, m)) <=> Resets(u) \/ Reset(m)
<1> DEFINE w == Append(u, m)
<1>1. /\ Len(w) = Len(u) + 1 /\ Len(u) \in Nat
      /\ \A i \in 1 .. Len(u) : w[i] = u[i]
      /\ w[Len(u) + 1] = m
    BY AppendProperties, LenProperties
<1> HIDE DEF w
<1>2. ASSUME Resets(w) PROVE Resets(u) \/ Reset(m)
    <2>1. PICK i \in 1 .. Len(w) : Reset(w[i])
        BY <1>2 DEF Resets
    <2>2. i \in 1 .. Len(u) \/ i = Len(u) + 1
        BY <1>1
    <2> QED BY <1>1, <2>1, <2>2 DEF Resets
<1>3. ASSUME Resets(u) PROVE Resets(w)
    <2>1. PICK i \in 1 .. Len(u) : Reset(u[i])
        BY <1>3 DEF Resets
    <2>2. i \in 1 .. Len(w) /\ w[i] = u[i]
        BY <1>1
    <2> QED BY <2>1, <2>2 DEF Resets
<1>4. ASSUME Reset(m) PROVE Resets(w)
    <2>1. Len(u) + 1 \in 1 .. Len(w)
        BY <1>1
    <2> QED BY <1>1, <1>4, <2>1 DEF Resets
<1> QED BY <1>2, <1>3, <1>4 DEF w

\* After a reset the page is consistent, and the same whatever it was before.
LEMMA AfterConsistent ==
    ASSUME NEW p \in Pages, NEW u \in Seq(Mail), Consistent(p) \/ Resets(u)
    PROVE  Consistent(After(p, u))
<1> DEFINE P == {v \in Seq(Mail) : Consistent(p) \/ Resets(v) => Consistent(After(p, v))}
<1>1. <<>> \in P
    <2>1. <<>> \in Seq(Mail) /\ Len(<<>>) = 0
        BY EmptySeq
    <2>2. ~Resets(<<>>)
        BY <2>1 DEF Resets
    <2> QED BY <2>1, <2>2, AfterNothing
<1>2. ASSUME NEW v \in P, NEW m \in Mail PROVE Append(v, m) \in P
    <2>1. Append(v, m) \in Seq(Mail)
        BY AppendProperties
    <2>2. Resets(Append(v, m)) <=> Resets(v) \/ Reset(m)
        BY ResetsAppend
    <2>3. After(p, Append(v, m)) = Handled(After(p, v), m)
        BY AfterAppend
    <2> DEFINE q == After(p, v)
    <2>4. q \in Pages
        BY AfterType
    <2>5. Consistent(p) \/ Resets(v) => Consistent(q)
        OBVIOUS
    <2> HIDE DEF q
    <2>6. Consistent(q) \/ Reset(m) => Consistent(Handled(q, m))
        BY <2>4, HandledProperties
    <2>7. Consistent(p) \/ Resets(Append(v, m)) => Consistent(After(p, Append(v, m)))
        BY <2>2, <2>3, <2>5, <2>6 DEF q
    <2> QED BY <2>1, <2>7
<1>3. P = Seq(Mail)
    <2>1. P \in SUBSET Seq(Mail) OBVIOUS
    <2> HIDE DEF P
    <2> QED BY <1>1, <1>2, <2>1, SeqSetInduction
<1> QED BY <1>3

\* After a reset it does not matter what the page was.
LEMMA AfterReset ==
    ASSUME NEW p \in Pages, NEW q \in Pages, NEW u \in Seq(Mail), Resets(u)
    PROVE  After(p, u) = After(q, u)
<1> DEFINE P == {v \in Seq(Mail) : Resets(v) => After(p, v) = After(q, v)}
<1>1. <<>> \in P
    <2>1. <<>> \in Seq(Mail) /\ Len(<<>>) = 0
        BY EmptySeq
    <2>2. ~Resets(<<>>)
        BY <2>1 DEF Resets
    <2> QED BY <2>1, <2>2
<1>2. ASSUME NEW v \in P, NEW m \in Mail PROVE Append(v, m) \in P
    <2>1. Append(v, m) \in Seq(Mail)
        BY AppendProperties
    <2>2. Resets(Append(v, m)) <=> Resets(v) \/ Reset(m)
        BY ResetsAppend
    <2>3. After(p, Append(v, m)) = Handled(After(p, v), m)
        BY AfterAppend
    <2>4. After(q, Append(v, m)) = Handled(After(q, v), m)
        BY AfterAppend
    <2>5. CASE Reset(m)
        <3>1. Handled(After(p, v), m) = Handled(After(q, v), m)
            BY <2>5 DEF Reset, Handled
        <3> QED BY <2>1, <2>3, <2>4, <3>1
    <2>6. CASE ~Reset(m)
        <3>1. Resets(v) => After(p, v) = After(q, v)
            OBVIOUS
        <3> QED BY <2>1, <2>2, <2>3, <2>4, <2>6, <3>1
    <2> QED BY <2>5, <2>6
<1>3. P = Seq(Mail)
    <2>1. P \in SUBSET Seq(Mail) OBVIOUS
    <2> HIDE DEF P
    <2> QED BY <1>1, <1>2, <2>1, SeqSetInduction
<1> QED BY <1>3

\* Two pages that differ in the flows of `gone` only.
Alike(gone, p, q) ==
    /\ \A f \in Flows \ gone : p.rows[f] = q.rows[f]
    /\ Only(p.order, Flows \ gone) = Only(q.order, Flows \ gone)

\* They still do when both have handled a message.
LEMMA HandledAlike ==
    ASSUME NEW gone, NEW p \in Pages, NEW q \in Pages, Alike(gone, p, q), NEW m \in Mail
    PROVE  Alike(gone, Handled(p, m), Handled(q, m))
<1> DEFINE T == Flows \ gone
           s == m.flows[1]
<1>1. m.type \in {"snapshot", "add", "update", "removed", "clear"} /\ m.flows \in Seq(Summaries)
    BY DEF Mail, Messages
<1>2. CASE m.type \in {"snapshot", "clear"}
    <2>1. Handled(p, m) = Handled(q, m)
        BY <1>2 DEF Handled
    <2> QED BY <2>1 DEF Alike
<1>3. CASE m.type = "removed"
    BY <1>3 DEF Handled
<1>4. CASE m.type \in {"add", "update"}
    <2>1. s \in Summaries
        <3>1. Len(m.flows) = 1
            BY <1>4 DEF Mail
        <3>2. 1 \in 1 .. Len(m.flows)
            BY <3>1
        <3> QED BY <1>1, <3>2, ElementOfSeq
    <2>2. Handled(p, m) = Added(p, s) /\ Handled(q, m) = Added(q, s)
        BY <1>4 DEF Handled
    <2> HIDE DEF s
    <2>3. s.flow \in Flows /\ p.rows \in [Flows -> Nat] /\ q.rows \in [Flows -> Nat]
        BY <2>1 DEF Summaries, Pages
    <2>4. \A f \in T : Added(p, s).rows[f] = Added(q, s).rows[f]
        BY <2>3 DEF Added, Alike
    <2>5. ASSUME NEW o \in Seq(Flows)
          PROVE  Only(Append(o, s.flow), T)
                    = IF s.flow \in T THEN Append(Only(o, T), s.flow) ELSE Only(o, T)
        <3> DEFINE f == s.flow
        <3>1. f \in Flows BY <2>3
        <3> HIDE DEF f, T
        <3>2. Only(Append(o, f), T) = IF f \in T THEN Append(Only(o, T), f) ELSE Only(o, T)
            BY <3>1, OnlyAppend
        <3> QED BY <3>2 DEF f
    <2>6. p.order \in Seq(Flows) /\ q.order \in Seq(Flows)
        BY DEF Pages
    <2>7. Only(p.order, T) = Only(q.order, T) /\ (s.flow \in T => p.rows[s.flow] = q.rows[s.flow])
        BY DEF Alike
    <2> HIDE DEF T
    <2>8. ASSUME NEW r \in {p, q}
          PROVE  Only(Added(r, s).order, T)
                    = IF s.flow \in T /\ r.rows[s.flow] = 0
                      THEN Append(Only(r.order, T), s.flow) ELSE Only(r.order, T)
        <3>1. r.order \in Seq(Flows)
            BY <2>6
        <3>2. Only(Append(r.order, s.flow), T)
                = IF s.flow \in T THEN Append(Only(r.order, T), s.flow) ELSE Only(r.order, T)
            <4> DEFINE o == r.order
            <4>1. o \in Seq(Flows) BY <3>1
            <4> HIDE DEF o
            <4>2. Only(Append(o, s.flow), T)
                    = IF s.flow \in T THEN Append(Only(o, T), s.flow) ELSE Only(o, T)
                BY <2>5, <4>1
            <4> QED BY <4>2 DEF o
        <3>3. Added(r, s).order = IF r.rows[s.flow] = 0 THEN Append(r.order, s.flow) ELSE r.order
            BY DEF Added
        <3> QED BY <3>2, <3>3
    <2>9. Only(Added(p, s).order, T) = Only(Added(q, s).order, T)
        BY <2>7, <2>8
    <2> QED BY <2>2, <2>4, <2>9 DEF Alike, T
<1> QED BY <1>1, <1>2, <1>3, <1>4

\* They still differ in no more when they have handled the same messages.
LEMMA AfterAlike ==
    ASSUME NEW gone, NEW p \in Pages, NEW q \in Pages, Alike(gone, p, q), NEW u \in Seq(Mail)
    PROVE  Alike(gone, After(p, u), After(q, u))
<1> DEFINE P == {v \in Seq(Mail) : Alike(gone, After(p, v), After(q, v))}
<1>1. <<>> \in P
    <2>1. <<>> \in Seq(Mail)
        BY EmptySeq
    <2>2. After(p, <<>>) = p /\ After(q, <<>>) = q
        BY AfterNothing
    <2> QED BY <2>1, <2>2
<1>2. ASSUME NEW v \in P, NEW m \in Mail PROVE Append(v, m) \in P
    <2>1. Append(v, m) \in Seq(Mail)
        BY AppendProperties
    <2>2. After(p, Append(v, m)) = Handled(After(p, v), m)
        BY AfterAppend
    <2>3. After(q, Append(v, m)) = Handled(After(q, v), m)
        BY AfterAppend
    <2> DEFINE p1 == After(p, v)
               q1 == After(q, v)
    <2>4. p1 \in Pages
        BY AfterType
    <2>5. q1 \in Pages
        BY AfterType
    <2>6. Alike(gone, p1, q1)
        OBVIOUS
    <2> HIDE DEF p1, q1
    <2>7. Alike(gone, Handled(p1, m), Handled(q1, m))
        BY <2>4, <2>5, <2>6, HandledAlike
    <2> QED BY <2>1, <2>2, <2>3, <2>7 DEF p1, q1
<1>3. P = Seq(Mail)
    <2>1. P \in SUBSET Seq(Mail) OBVIOUS
    <2> HIDE DEF P
    <2> QED BY <1>1, <1>2, <2>1, SeqSetInduction
<1> QED BY <1>3

\* The flows a message is about.
Mentions(m) == {m.flows[k].flow : k \in 1 .. Len(m.flows)}

\* A page shows no flow that it did not show and was not told of.
LEMMA HandledShows ==
    ASSUME NEW q \in Pages, NEW m \in Mail, NEW T,
           \A f \in Flows : q.rows[f] > 0 => f \in T,
           Mentions(m) \subseteq T
    PROVE  \A f \in Flows : Handled(q, m).rows[f] > 0 => f \in T
<1> SUFFICES ASSUME NEW f \in Flows, Handled(q, m).rows[f] > 0 PROVE f \in T
    OBVIOUS
<1>0. \A k \in 1 .. Len(m.flows) : m.flows[k].flow \in T
    BY DEF Mentions
<1>1. m.type \in {"snapshot", "add", "update", "removed", "clear"}
    BY DEF Mail, Messages
<1>2. CASE m.type = "snapshot"
    <2>1. Handled(q, m) = Shot(m)
        BY <1>2 DEF Handled
    <2>2. \E k \in 1 .. Len(m.flows) : m.flows[k].flow = f
        BY <2>1, ShotProperties
    <2> QED BY <1>0, <2>2
<1>3. CASE m.type = "clear"
    BY <1>3 DEF Handled, Blank
<1>4. CASE m.type = "removed"
    BY <1>4 DEF Handled
<1>5. CASE m.type \in {"add", "update"}
    <2>1. Handled(q, m).rows = [q.rows EXCEPT ![m.flows[1].flow] = m.flows[1].ver]
        BY <1>5 DEF Handled, Added
    <2>2. 1 \in 1 .. Len(m.flows)
        <3>1. Len(m.flows) = 1
            BY <1>5 DEF Mail
        <3> QED BY <3>1
    <2>3. q.rows \in [Flows -> Nat]
        BY DEF Pages
    <2>4. CASE f = m.flows[1].flow
        BY <1>0, <2>2, <2>4
    <2>5. CASE f # m.flows[1].flow
        BY <2>1, <2>3, <2>5
    <2> QED BY <2>4, <2>5
<1> QED BY <1>1, <1>2, <1>3, <1>4, <1>5

\* However many it has handled.
LEMMA AfterShows ==
    ASSUME NEW p \in Pages, NEW u \in Seq(Mail), NEW T,
           \A f \in Flows : p.rows[f] > 0 => f \in T,
           \A i \in 1 .. Len(u) : Mentions(u[i]) \subseteq T
    PROVE  \A f \in Flows : After(p, u).rows[f] > 0 => f \in T
<1> DEFINE Told == {m \in Mail : Mentions(m) \subseteq T}
           P == {v \in Seq(Told) : /\ v \in Seq(Mail)
                                   /\ \A f \in Flows : After(p, v).rows[f] > 0 => f \in T}
<1>1. <<>> \in P
    BY EmptySeq, AfterNothing
<1>2. ASSUME NEW v \in P, NEW m \in Told PROVE Append(v, m) \in P
    <2>1. Append(v, m) \in Seq(Told)
        BY AppendProperties
    <2>2. m \in Mail /\ v \in Seq(Mail) /\ Mentions(m) \subseteq T
        OBVIOUS
    <2>3. \A f \in Flows : After(p, v).rows[f] > 0 => f \in T
        OBVIOUS
    <2> HIDE DEF P, Told
    <2>4. Append(v, m) \in Seq(Mail) /\ After(p, Append(v, m)) = Handled(After(p, v), m)
        BY <2>2, AfterAppend, AppendProperties
    <2> DEFINE q == After(p, v)
    <2>5. q \in Pages
        BY <2>2, AfterType
    <2> HIDE DEF q
    <2>6. \A f \in Flows : q.rows[f] > 0 => f \in T
        BY <2>3 DEF q
    <2>7. \A f \in Flows : Handled(q, m).rows[f] > 0 => f \in T
        BY <2>2, <2>5, <2>6, HandledShows
    <2> QED BY <2>1, <2>2, <2>4, <2>7 DEF P, q
<1>3. P = Seq(Told)
    <2>1. P \in SUBSET Seq(Told) OBVIOUS
    <2> HIDE DEF P, Told
    <2> QED BY <1>1, <1>2, <2>1, SeqSetInduction
<1>4. u \in Seq(Told)
    <2>1. u \in [1 .. Len(u) -> Mail] /\ Len(u) \in Nat
        BY LenProperties
    <2>2. u \in [1 .. Len(u) -> Told]
        BY <2>1
    <2> HIDE DEF Told
    <2> QED BY <2>1, <2>2, FunctionIsSeq
<1> QED BY <1>3, <1>4

-----------------------------------------------------------------------------
(* What the parts of the state are.                                        *)

\* k is what is left of the list l, in its order.
Part(k, l) ==
    /\ k \in Seq(Flows) /\ Len(k) <= Len(l)
    /\ Distinct(k)
    /\ ToSet(k) \subseteq ToSet(l)
    /\ Only(l, ToSet(k)) = k

\* What is kept of a sequence is no longer.
LEMMA OnlyLen ==
    ASSUME NEW E, NEW s \in Seq(E), NEW T
    PROVE  Len(Only(s, T)) <= Len(s)
<1> DEFINE P == {u \in Seq(E) : Len(Only(u, T)) <= Len(u)}
<1>1. <<>> \in P
    BY OnlyEmpty, EmptySeq
<1>2. ASSUME NEW u \in P, NEW e \in E PROVE Append(u, e) \in P
    <2>1. Append(u, e) \in Seq(E) /\ Len(Append(u, e)) = Len(u) + 1 /\ Len(u) \in Nat
        BY AppendProperties, LenProperties
    <2> DEFINE k == Only(u, T)
    <2>2. k \in Seq(E)
        BY OnlyType
    <2>3. Len(k) <= Len(u)
        OBVIOUS
    <2>4. Only(Append(u, e), T) = IF e \in T THEN Append(k, e) ELSE k
        BY OnlyAppend
    <2> HIDE DEF k, P
    <2>5. Len(Append(k, e)) = Len(k) + 1 /\ Len(k) \in Nat
        BY <2>2, AppendProperties, LenProperties
    <2>6. Len(Only(Append(u, e), T)) <= Len(u) + 1
        BY <2>1, <2>3, <2>4, <2>5
    <2> QED BY <2>1, <2>6 DEF P
<1>3. P = Seq(E)
    <2>1. P \in SUBSET Seq(E) OBVIOUS
    <2> HIDE DEF P
    <2> QED BY <1>1, <1>2, <2>1, SeqSetInduction
<1> QED BY <1>3

\* To keep some of a list leaves a part of it.
LEMMA PartOnly ==
    ASSUME NEW l \in Seq(Flows), Distinct(l), NEW T
    PROVE  Part(Only(l, T), l)
<1> DEFINE k == Only(l, T)
<1>1. k \in Seq(Flows) /\ Len(k) <= Len(l)
    BY OnlyType, OnlyLen
<1>2. Distinct(k)
    BY OnlyDistinct
<1>3. ToSet(k) = ToSet(l) \cap T
    BY OnlyElements
<1>4. \A i \in 1 .. Len(l) : l[i] \in ToSet(l)
    BY ToSetElements
<1>5. Only(l, ToSet(k)) = k
    <2> DEFINE K == ToSet(k)
    <2>1. \A i \in 1 .. Len(l) : l[i] \in K <=> l[i] \in T
        BY <1>3, <1>4
    <2> HIDE DEF K
    <2>2. Only(l, K) = Only(l, T)
        BY <2>1, OnlySame
    <2> QED BY <2>2 DEF K
<1> HIDE DEF k
<1> QED BY <1>1, <1>2, <1>3, <1>5 DEF Part, k

\* So does to take elements from its front.
LEMMA PartRest ==
    ASSUME NEW l \in Seq(Flows), Distinct(l), NEW n \in 0 .. Len(l)
    PROVE  Part(SubSeq(l, n + 1, Len(l)), l)
<1> DEFINE k == SubSeq(l, n + 1, Len(l))
<1>1. /\ k \in Seq(Flows) /\ Len(k) = Len(l) - n
      /\ Distinct(k)
      /\ ToSet(k) \subseteq ToSet(l)
      /\ Only(l, ToSet(k)) = k
    BY RestIsOnly
<1>2. Len(l) \in Nat
    BY LenProperties
<1> HIDE DEF k
<1>3. Len(k) <= Len(l)
    BY <1>1, <1>2
<1> QED BY <1>1, <1>3 DEF Part, k

\* And to take the first.
LEMMA PartTail ==
    ASSUME NEW l \in Seq(Flows), Distinct(l), l # <<>>
    PROVE  Part(Tail(l), l) /\ Len(Tail(l)) = Len(l) - 1
<1>1. Len(l) \in Nat \ {0}
    BY EmptySeq
<1>2. Tail(l) = SubSeq(l, 1 + 1, Len(l))
    BY TailIsSubSeq
<1>3. 1 \in 0 .. Len(l)
    BY <1>1
<1>4. Part(SubSeq(l, 1 + 1, Len(l)), l)
    BY <1>3, PartRest
<1> QED BY <1>2, <1>4, HeadTailProperties

\* Nothing and everything are parts of a list.
LEMMA PartTrivial ==
    ASSUME NEW l \in Seq(Flows), Distinct(l)
    PROVE  Part(<<>>, l) /\ Part(l, l)
<1>1. <<>> \in Seq(Flows) /\ Len(<<>>) = 0 /\ Len(l) \in Nat
    BY EmptySeq, LenProperties
<1>2. Only(l, {}) = <<>>
    BY OnlyNone
<1>3. \A i \in 1 .. Len(l) : l[i] \in ToSet(l)
    BY ToSetElements
<1>4. Only(l, ToSet(l)) = l
    <2> DEFINE K == ToSet(l)
    <2>1. \A i \in 1 .. Len(l) : l[i] \in K
        BY <1>3
    <2> HIDE DEF K
    <2> QED BY <2>1, OnlyAll DEF K
<1>5. Distinct(<<>>)
    BY <1>1 DEF Distinct
<1>6. Part(<<>>, l)
    <2>1. Len(<<>>) <= Len(l)
        BY <1>1
    <2>2. ToSet(<<>>) \subseteq ToSet(l) /\ Only(l, ToSet(<<>>)) = <<>>
        BY <1>2, ToSetEmpty, Zenon
    <2> QED BY <1>1, <1>5, <2>1, <2>2, Zenon DEF Part
<1>7. Part(l, l)
    BY <1>1, <1>4 DEF Part
<1> QED BY <1>6, <1>7

\* Messages about flows of S.
Letters(S) == {m \in Mail : Mentions(m) \subseteq S}

\* Requests about flows of S; but for a batch they are about one.
Errands(S) ==
    {r \in Requests :
        /\ r.flows \subseteq S
        /\ r.kind # "batch" => \E f \in Flows : r.flows = {f}}

\* What was announced of a flow is the store's object, unless a copy took its place.
ServerInv ==
    /\ list \in Seq(Flows) /\ Len(list) <= MaxFlows /\ Distinct(list)
    /\ ver \in [Flows -> Nat] /\ told \in [Flows -> Nat]
    /\ Stored \subseteq Seen
    /\ copied \subseteq Flows
    /\ \A f \in Seen : told[f] > 0 /\ (f \notin copied => told[f] <= ver[f])
    /\ changes \in 0 .. MaxChanges /\ loads \in 0 .. MaxLoads

WireInv ==
    /\ link \in {"unopened", "up", "down"}
    /\ drops \in 0 .. MaxDrops
    /\ chan \in Seq(Letters(Seen))

ReqsInv == reqs \in Seq(Errands(Seen))

ViewInv ==
    /\ rows \in [Flows -> Nat] /\ order \in Seq(Flows)
    /\ Shown \subseteq Seen
    /\ selected \in Seen \cup {None} /\ picked \subseteq Seen
    /\ detail \in [flow : Seen \cup {None}, ver : Nat]
    /\ acts \in 0 .. MaxActs
    /\ behind \in BOOLEAN /\ lost \in BOOLEAN /\ meddled \in BOOLEAN

\* Messages about fewer flows are messages about more.
LEMMA LettersGrow ==
    ASSUME NEW S, NEW T, S \subseteq T, NEW u \in Seq(Letters(S))
    PROVE  u \in Seq(Letters(T))
<1>1. Letters(S) \subseteq Letters(T)
    BY DEF Letters
<1> QED BY <1>1, SeqMonotonic

\* Requests about fewer flows are requests about more.
LEMMA ErrandsGrow ==
    ASSUME NEW S, NEW T, S \subseteq T, NEW u \in Seq(Errands(S))
    PROVE  u \in Seq(Errands(T))
<1>1. Errands(S) \subseteq Errands(T)
    BY DEF Errands
<1> QED BY <1>1, SeqMonotonic

-----------------------------------------------------------------------------
(* The server.                                                             *)

\* What the store had of its flows, and how often it was changed.
contents == <<ver, told, copied, changes, loads>>

\* No flow is forgotten.
Onward == Seen \subseteq Seen'

\* Flows leave the store.
LEMMA ShrinkStep ==
    ASSUME ServerInv, Part(list', list), UNCHANGED contents
    PROVE  ServerInv' /\ Onward
<1>1. Len(list) \in Nat /\ Len(list') \in Nat
    BY LenProperties DEF ServerInv, Part
<1>2. Seen' = Seen
    BY DEF Seen, contents
<1>3. Stored' \subseteq Stored
    BY DEF Part, Stored
<1>4. list' \in Seq(Flows) /\ Distinct(list') /\ Len(list') <= MaxFlows
    BY <1>1, InspectorAssumption DEF Part, ServerInv
<1> QED BY <1>2, <1>3, <1>4 DEF ServerInv, Onward, contents

\* A removal takes its flow, a deletion its flows, and Resize the oldest.
LEMMA Shrinks ==
    ASSUME ServerInv,
           \/ \E f \in Flows : RemoveFlow(f)
           \/ Clear \/ Resize
           \/ \E i \in 1 .. Len(reqs) : ServeDelete(i)
    PROVE  Part(list', list) /\ UNCHANGED contents
<1>1. list \in Seq(Flows) /\ Distinct(list)
    BY DEF ServerInv
<1>2. CASE \E gone : list' = Without(gone) /\ UNCHANGED contents
    BY <1>1, <1>2, PartOnly DEF Without
<1>3. CASE Clear
    BY <1>1, <1>3, PartTrivial DEF Clear, contents
<1>4. CASE Resize
    <2>1. PICK n \in 1 .. Len(list) : list' = SubSeq(list, n + 1, Len(list))
        BY <1>4 DEF Resize
    <2>2. n \in 0 .. Len(list)
        BY <1>1, <2>1, LenProperties
    <2> QED BY <1>1, <1>4, <2>1, <2>2, PartRest DEF Resize, contents
<1>5. ASSUME NEW f \in Flows, RemoveFlow(f)
      PROVE  \E gone : list' = Without(gone) /\ UNCHANGED contents
    BY <1>5 DEF RemoveFlow, contents
<1>6. ASSUME NEW i \in 1 .. Len(reqs), ServeDelete(i)
      PROVE  \E gone : list' = Without(gone) /\ UNCHANGED contents
    BY <1>6 DEF ServeDelete, contents
<1> QED BY <1>2, <1>3, <1>4, <1>5, <1>6

\* A new content is a number, and above those there were.
LEMMA FreshProperties ==
    ASSUME ServerInv, NEW f \in Flows
    PROVE  Fresh(f) \in Nat \ {0} /\ Fresh(f) > ver[f] /\ Fresh(f) > told[f]
BY DEF Fresh, ServerInv

\* A content of a flow is announced: afterwards the page may show it, and of the
\* other flows what it could before.
Says(f, v) ==
    /\ f \in Seen /\ v \in Nat \ {0}
    /\ Broadcast("update", <<Summary(f, v)>>)
    /\ v \in Current(f)'
    /\ \A g \in Flows \ {f} : Current(g)' = Current(g)
    /\ UNCHANGED <<list, copied, loads>>

\* Announcements of an exchange and of the API are such.
LEMMA AnnounceStep ==
    ASSUME ServerInv, NEW f \in Flows, Announce(f)
    PROVE  ServerInv' /\ Seen' = Seen /\ \E v : Says(f, v)
<1> DEFINE v == IF f \in copied THEN Fresh(f) ELSE ver[f]
<1>1. v \in Nat \ {0} /\ (f \notin copied => v = ver[f]) /\ f \in Seen
    BY FreshProperties DEF Announce, AnnounceAs, Seen, ServerInv
<1>2. AnnounceAs(f, v)
    BY DEF Announce
<1> HIDE DEF v
<1>3. /\ told' = [told EXCEPT ![f] = v] /\ UNCHANGED <<list, ver, copied, loads>>
      /\ changes' \in 0 .. MaxChanges /\ Broadcast("update", <<Summary(f, v)>>)
    BY <1>2, InspectorAssumption DEF AnnounceAs, ServerInv, MayChange
<1>4. Seen' = Seen /\ Stored' = Stored
    BY <1>3 DEF Seen, Stored
<1>5. /\ told' \in [Flows -> Nat] /\ told'[f] = v
      /\ \A g \in Flows \ {f} : told'[g] = told[g]
    BY <1>1, <1>3 DEF ServerInv
<1>6. ASSUME NEW g \in Seen
      PROVE  told'[g] > 0 /\ (g \notin copied => told'[g] <= ver[g])
    <2>1. told[g] > 0 /\ (g \notin copied => told[g] <= ver[g])
        BY DEF ServerInv
    <2>2. g \in Flows /\ told[g] \in Nat /\ ver[g] \in Nat
        BY DEF Seen, ServerInv
    <2>3. CASE g = f
        BY <1>1, <1>5, <2>1, <2>2, <2>3
    <2>4. CASE g # f
        BY <1>1, <1>5, <2>1, <2>2, <2>4
    <2> QED BY <2>3, <2>4
<1>7. ServerInv'
    BY <1>3, <1>4, <1>5, <1>6 DEF ServerInv
<1>8. Says(f, v)
    BY <1>1, <1>3, <1>5 DEF Says, Current
<1> QED BY <1>4, <1>7, <1>8

LEMMA AlterStep ==
    ASSUME ServerInv, NEW f \in Stored, MayChange, Alter(f), UNCHANGED <<list, copied, loads>>
    PROVE  ServerInv' /\ Seen' = Seen /\ Says(f, Fresh(f))
<1> DEFINE v == Fresh(f)
<1>1. f \in Flows /\ f \in Seen /\ ver[f] > 0
    BY DEF ServerInv, Seen
<1>2. v \in Nat \ {0}
    BY <1>1, FreshProperties
<1>3. /\ ver' = [ver EXCEPT ![f] = v] /\ told' = [told EXCEPT ![f] = v]
      /\ changes' \in 0 .. MaxChanges /\ Broadcast("update", <<Summary(f, v)>>)
    BY InspectorAssumption DEF Alter, ServerInv, MayChange
<1> HIDE DEF v
<1>4. /\ told' \in [Flows -> Nat] /\ told'[f] = v
      /\ ver' \in [Flows -> Nat] /\ ver'[f] = v
      /\ \A g \in Flows \ {f} : told'[g] = told[g] /\ ver'[g] = ver[g]
    BY <1>1, <1>2, <1>3 DEF ServerInv
<1>5. Seen' = Seen /\ Stored' = Stored
    BY <1>1, <1>2, <1>4 DEF Seen, Stored
<1>6. ASSUME NEW g \in Seen
      PROVE  told'[g] > 0 /\ (g \notin copied => told'[g] <= ver'[g])
    <2>1. told[g] > 0 /\ (g \notin copied => told[g] <= ver[g])
        BY DEF ServerInv
    <2>2. g \in Flows /\ told[g] \in Nat /\ ver[g] \in Nat
        BY DEF Seen, ServerInv
    <2>3. CASE g = f
        BY <1>2, <1>4, <2>1, <2>2, <2>3
    <2>4. CASE g # f
        BY <1>2, <1>4, <2>1, <2>2, <2>4
    <2> QED BY <2>3, <2>4
<1>7. ServerInv'
    BY <1>3, <1>4, <1>5, <1>6 DEF ServerInv
<1>8. Says(f, v)
    BY <1>1, <1>2, <1>3, <1>4 DEF Says, Current
<1> QED BY <1>5, <1>7, <1>8 DEF v

\* What an exchange changes without a word leaves the page as good as it was.
LEMMA TouchStep ==
    ASSUME ServerInv, NEW f \in Flows, Touch(f)
    PROVE  /\ ServerInv' /\ Seen' = Seen
           /\ \A g \in Seen : Current(g) \subseteq Current(g)'
<1> DEFINE v == Fresh(f)
<1>1. v \in Nat \ {0} /\ v > ver[f] /\ v > told[f]
    BY FreshProperties
<1>2. /\ f \in Seen /\ f \notin copied /\ ver' = [ver EXCEPT ![f] = v]
      /\ UNCHANGED <<list, told, copied, loads>> /\ changes' \in 0 .. MaxChanges
    BY InspectorAssumption DEF Touch, MayChange, ServerInv
<1> HIDE DEF v
<1>3. /\ ver' \in [Flows -> Nat] /\ ver'[f] = v
      /\ \A g \in Flows \ {f} : ver'[g] = ver[g]
    BY <1>1, <1>2 DEF ServerInv
<1>4. Seen' = Seen /\ Stored' = Stored
    BY <1>1, <1>2, <1>3 DEF Seen, Stored
<1>5. ver[f] \in Nat /\ told[f] \in Nat /\ told[f] <= ver[f]
    BY <1>2 DEF ServerInv
<1>6. ASSUME NEW g \in Seen
      PROVE  told[g] > 0 /\ (g \notin copied => told[g] <= ver'[g])
    <2>1. told[g] > 0 /\ (g \notin copied => told[g] <= ver[g])
        BY DEF ServerInv
    <2>2. g \in Flows /\ told[g] \in Nat /\ ver[g] \in Nat
        BY DEF Seen, ServerInv
    <2>3. CASE g = f
        BY <1>1, <1>3, <1>5, <2>1, <2>2, <2>3
    <2>4. CASE g # f
        BY <1>1, <1>3, <1>5, <2>1, <2>2, <2>4
    <2> QED BY <2>3, <2>4
<1>7. ServerInv'
    BY <1>2, <1>3, <1>4, <1>6 DEF ServerInv
<1>8. ASSUME NEW g \in Seen PROVE Current(g) \subseteq Current(g)'
    <2>1. CASE g = f
        BY <1>2, <1>5, <2>1 DEF Current
    <2>2. CASE g # f
        BY <1>2, <1>3, <2>2 DEF Current, Seen
    <2> QED BY <2>1, <2>2
<1> QED BY <1>4, <1>7, <1>8

\* What the store's trim leaves are the newest flows.
LEMMA TrimmedPart ==
    ASSUME NEW l \in Seq(Flows), Distinct(l)
    PROVE  Part(Trimmed(l), l) /\ Len(Trimmed(l)) <= MaxFlows
<1>1. Len(l) \in Nat /\ MaxFlows \in Nat
    BY LenProperties, InspectorAssumption
<1>2. CASE Len(l) > MaxFlows
    <2> DEFINE n == Len(l) - MaxFlows
    <2>1. n \in 0 .. Len(l) /\ Len(l) - n = MaxFlows
        BY <1>1, <1>2
    <2>2. Trimmed(l) = SubSeq(l, n + 1, Len(l))
        BY <1>2 DEF Trimmed
    <2> HIDE DEF n
    <2>3. Part(SubSeq(l, n + 1, Len(l)), l)
        BY <2>1, PartRest
    <2>4. Len(SubSeq(l, n + 1, Len(l))) = Len(l) - n
        <3>1. \A j \in n + 1 .. Len(l) : l[j] \in Flows
            BY <1>1, <2>1, ElementOfSeq
        <3>2. Len(SubSeq(l, n + 1, Len(l))) = IF n + 1 <= Len(l) THEN Len(l) - (n + 1) + 1 ELSE 0
            BY <1>1, <2>1, <3>1, SubSeqProperties
        <3> QED BY <1>1, <2>1, <3>2
    <2> QED BY <1>1, <2>1, <2>2, <2>3, <2>4
<1>3. CASE ~(Len(l) > MaxFlows)
    BY <1>1, <1>3, PartTrivial DEF Trimmed
<1> QED BY <1>2, <1>3

\* A flow is new in the store and in the list, from which the oldest may go.
LEMMA AddStep ==
    ASSUME ServerInv, NEW f \in Flows, Add(f)
    PROVE  /\ ServerInv' /\ Onward
           /\ f \notin Seen /\ f \notin Stored /\ f \in Seen'
           /\ 1 \in Current(f)'
           /\ \A g \in Flows \ {f} : Current(g)' = Current(g)
           /\ Distinct(Append(list, f))
           /\ Part(list', Append(list, f))
<1> DEFINE longer == Append(list, f)
<1>1. list \in Seq(Flows) /\ Distinct(list) /\ Len(list) \in Nat
    BY LenProperties DEF ServerInv
<1>2. f \notin Seen /\ f \notin Stored
    BY DEF Add, ServerInv
<1>3. longer \in Seq(Flows) /\ ToSet(longer) = Stored \cup {f}
    BY <1>1, AppendProperties, ToSetAppend DEF Stored
<1>4. Distinct(longer)
    BY <1>1, <1>2, DistinctAppend DEF Stored
<1>5. list' = Trimmed(longer)
    BY DEF Add
<1>6. /\ ver' = [ver EXCEPT ![f] = 1] /\ told' = [told EXCEPT ![f] = 1]
      /\ UNCHANGED <<copied, changes, loads>>
    BY DEF Add
<1>7. /\ ver' \in [Flows -> Nat] /\ told' \in [Flows -> Nat] /\ ver'[f] = 1 /\ told'[f] = 1
      /\ \A g \in Flows \ {f} : ver'[g] = ver[g] /\ told'[g] = told[g]
    BY <1>6 DEF ServerInv
<1> HIDE DEF longer
<1>8. Part(list', longer) /\ Len(list') <= MaxFlows
    BY <1>3, <1>4, <1>5, TrimmedPart
<1>9. Seen' = Seen \cup {f}
    BY <1>7 DEF Seen
<1>10. Stored' \subseteq Stored \cup {f}
    BY <1>3, <1>8 DEF Part, Stored
<1>11. ASSUME NEW g \in Seen'
       PROVE  told'[g] > 0 /\ (g \notin copied => told'[g] <= ver'[g])
    <2>1. CASE g = f
        BY <1>7, <2>1
    <2>2. CASE g # f
        <3>1. g \in Seen
            BY <1>9, <2>2
        <3>2. g \in Flows /\ told[g] > 0 /\ (g \notin copied => told[g] <= ver[g])
            BY <3>1 DEF ServerInv, Seen
        <3> QED BY <1>7, <2>2, <3>2
    <2> QED BY <2>1, <2>2
<1>12. ServerInv'
    BY <1>6, <1>7, <1>8, <1>9, <1>10, <1>11 DEF ServerInv, Part
<1>13. 1 \in Current(f)' /\ \A g \in Flows \ {f} : Current(g)' = Current(g)
    BY <1>7 DEF Current
<1> QED BY <1>2, <1>4, <1>8, <1>9, <1>12, <1>13 DEF longer, Onward

\* A session's flows are listed once each, and take the place of the others.
LEMMA LoadStep ==
    ASSUME ServerInv, NEW flows \in SUBSET Seen, LoadSession(flows)
    PROVE  /\ ServerInv' /\ Seen' = Seen
           /\ InOrder(flows) \in Seq(Flows) /\ Distinct(InOrder(flows))
           /\ ToSet(InOrder(flows)) = flows
           /\ Part(list', InOrder(flows))
           /\ \A f \in flows : Fresh(f) \in Current(f)'
<1> DEFINE all == [f \in Flows |-> f]
           loaded == InOrder(flows)
<1>1. all \in Seq(Flows) /\ Distinct(all) /\ ToSet(all) = Flows
    <2>1. NumFlows \in Nat /\ all \in [1 .. NumFlows -> Flows]
        BY InspectorAssumption DEF Flows
    <2>2. \A f \in Flows : all[f] = f
        OBVIOUS
    <2> HIDE DEF all
    <2>3. all \in Seq(Flows) /\ Len(all) = NumFlows
        BY <2>1, FunctionIsSeq
    <2>4. Distinct(all)
        BY <2>2, <2>3 DEF Distinct, Flows
    <2>5. ToSet(all) = Flows
        BY <2>2, <2>3, ToSetElements DEF Flows
    <2> QED BY <2>3, <2>4, <2>5
<1>2. loaded = Only(all, flows)
    BY DEF InOrder
<1> HIDE DEF all, loaded
<1>3. flows \subseteq Flows
    BY DEF Seen
<1>4. loaded \in Seq(Flows) /\ Distinct(loaded) /\ ToSet(loaded) = flows
    <2> DEFINE T == flows
    <2>1. Only(all, T) \in Seq(Flows) /\ Distinct(Only(all, T)) /\ ToSet(Only(all, T)) = Flows \cap T
        <3> HIDE DEF T
        <3> QED BY <1>1, OnlyType, OnlyDistinct, OnlyElements
    <2> QED BY <1>2, <1>3, <2>1
<1>5. list' = Trimmed(loaded)
    BY DEF LoadSession, loaded
<1>6. Part(list', loaded) /\ Len(list') <= MaxFlows
    BY <1>4, <1>5, TrimmedPart
<1>7. /\ ver' = [f \in Flows |-> IF f \in flows THEN Fresh(f) ELSE ver[f]]
      /\ told' = [f \in Flows |-> IF f \in flows THEN Fresh(f) ELSE told[f]]
      /\ copied' = copied \cup flows /\ changes' = changes /\ loads' \in 0 .. MaxLoads
    BY InspectorAssumption DEF LoadSession, ServerInv
<1>8. \A f \in Flows : Fresh(f) \in Nat \ {0}
    BY FreshProperties
<1>9. /\ ver' \in [Flows -> Nat] /\ told' \in [Flows -> Nat] /\ copied' \subseteq Flows
      /\ \A f \in flows : ver'[f] = Fresh(f) /\ told'[f] = Fresh(f)
      /\ \A f \in Flows \ flows : ver'[f] = ver[f] /\ told'[f] = told[f]
    BY <1>3, <1>7, <1>8 DEF ServerInv
<1>10. Seen' = Seen
    BY <1>8, <1>9 DEF Seen
<1>11. Stored' \subseteq Seen
    BY <1>4, <1>6 DEF Part, Stored
<1>12. \A f \in Seen : told'[f] > 0 /\ (f \notin copied' => told'[f] <= ver'[f])
    BY <1>3, <1>7, <1>8, <1>9 DEF ServerInv, Seen
<1>13. ServerInv'
    BY <1>6, <1>7, <1>9, <1>10, <1>11, <1>12 DEF ServerInv, Part
<1>14. \A f \in flows : Fresh(f) \in Current(f)'
    BY <1>8, <1>9, <1>3 DEF Current
<1> QED BY <1>4, <1>6, <1>10, <1>13, <1>14 DEF loaded

\* The steps that change the store.
ServerMoves ==
    \/ \E f \in Flows : Add(f) \/ Touch(f) \/ Announce(f) \/ Change(f) \/ RemoveFlow(f)
    \/ \E flows \in SUBSET Seen : LoadSession(flows)
    \/ Clear \/ Resize
    \/ \E i \in 1 .. Len(reqs) : ServeMark(i) \/ ServeDelete(i)

\* They are these.
LEMMA OnlyServerMoves == [Next]_vars => ServerMoves \/ UNCHANGED server
<1> SUFFICES ASSUME [Next]_vars, ~ServerMoves PROVE UNCHANGED server
    OBVIOUS
<1> USE DEF server
<1>1. ASSUME NEW i \in 1 .. Len(reqs), Serve(i) PROVE UNCHANGED server
    BY <1>1 DEF Serve, ServerMoves, ServeDetail
<1>2. ASSUME NEW i \in 1 .. Len(reqs), Handle(i) PROVE UNCHANGED server
    BY <1>2 DEF Handle, HandleDetail, HandleMarked, HandleDeleted, HandleBatchDeleted
<1>3. CASE Connect("unopened") \/ Connect("down") \/ Drop
    BY <1>3 DEF Connect, Drop
<1>4. CASE Deliver
    BY <1>4 DEF Deliver, HandleSnapshot, HandleAdd, HandleUpdate, HandleRemoved, HandleClear
<1>5. ASSUME NEW f \in Flows, Click(f) \/ Toggle(f) \/ RangeSelect(f) \/ DeleteFlow(f)
      PROVE  UNCHANGED server
    BY <1>5 DEF Click, Toggle, RangeSelect, DeleteFlow, Post
<1>6. CASE SelectAllVisible \/ ClearSelection \/ Mark \/ BatchDelete
    BY <1>6 DEF SelectAllVisible, ClearSelection, Mark, BatchDelete, Post
<1>7. CASE UNCHANGED vars
    BY <1>7 DEF vars
<1> QED BY <1>1, <1>2, <1>3, <1>4, <1>5, <1>6, <1>7 DEF Next, ServerMoves

\* A mark that is served is an announcement, or nothing.
LEMMA MarkStep ==
    ASSUME ServerInv, NEW i \in 1 .. Len(reqs), ServeMark(i)
    PROVE  \/ ServerInv' /\ Seen' = Seen /\ \E f \in Flows : \E v : Says(f, v)
           \/ UNCHANGED <<server, chan>>
<1> DEFINE f == CHOOSE g \in reqs[i].flows : TRUE
<1>1. CASE f \in Stored /\ MayChange
    <2>1. Alter(f) /\ UNCHANGED <<list, copied, loads>>
        BY <1>1 DEF ServeMark
    <2>2. f \in Flows
        BY <1>1 DEF ServerInv, Seen
    <2> HIDE DEF f
    <2> QED BY <1>1, <2>1, <2>2, AlterStep
<1>2. CASE ~(f \in Stored /\ MayChange)
    BY <1>2 DEF ServeMark, server
<1> QED BY <1>1, <1>2

\* Every step keeps the store a store.
LEMMA ServerStep ==
    ASSUME ServerInv, [Next]_vars
    PROVE  ServerInv' /\ Onward
<1>1. CASE UNCHANGED server
    <2>1. Seen' = Seen /\ Stored' = Stored
        BY <1>1 DEF server, Seen, Stored
    <2> QED BY <1>1, <2>1 DEF server, ServerInv, Onward
<1>2. ASSUME NEW f \in Flows, Add(f) PROVE ServerInv' /\ Onward
    BY <1>2, AddStep
<1>3. ASSUME NEW f \in Flows, Touch(f) \/ Announce(f) \/ Change(f) PROVE ServerInv' /\ Onward
    BY <1>3, TouchStep, AnnounceStep, AlterStep DEF Change, Onward
<1>4. ASSUME NEW flows \in SUBSET Seen, LoadSession(flows) PROVE ServerInv' /\ Onward
    BY <1>4, LoadStep DEF Onward
<1>5. ASSUME NEW i \in 1 .. Len(reqs), ServeMark(i) PROVE ServerInv' /\ Onward
    BY <1>1, <1>5, MarkStep DEF Onward
<1>6. CASE \/ \E f \in Flows : RemoveFlow(f)
           \/ Clear \/ Resize
           \/ \E i \in 1 .. Len(reqs) : ServeDelete(i)
    BY <1>6, Shrinks, ShrinkStep
<1> QED BY <1>1, <1>2, <1>3, <1>4, <1>5, <1>6, OnlyServerMoves DEF ServerMoves

-----------------------------------------------------------------------------
(* The wire.                                                               *)

\* The messages: of one flow, of none, and of all.
News(type, f, v) == [type |-> type, flows |-> <<[flow |-> f, ver |-> v]>>]
Notice(type) == [type |-> type, flows |-> <<>>]
Snapshot ==
    [type |-> "snapshot",
     flows |-> [i \in 1 .. Len(list) |-> [flow |-> list[i], ver |-> ver[list[i]]]]]

\* What is said of a flow is a message about it.
LEMMA NewsIsLetter ==
    ASSUME NEW type \in {"add", "update"}, NEW f \in Flows, NEW v \in Nat \ {0}, NEW S, f \in S
    PROVE  News(type, f, v) \in Letters(S)
<1> DEFINE s == [flow |-> f, ver |-> v]
           one == <<s>>
           m == News(type, f, v)
<1>1. s \in Summaries
    BY DEF Summaries
<1>2. one \in Seq(Summaries) /\ Len(one) = 1 /\ one[1] = s
    <2> HIDE DEF s
    <2> QED BY <1>1
<1>3. m.type = type /\ m.flows = one
    BY DEF News
<1>4. m \in Messages
    <2> HIDE DEF one
    <2>1. m = [type |-> type, flows |-> one]
        BY DEF News, one
    <2> QED BY <1>2, <2>1 DEF Messages
<1> HIDE DEF m, one
<1>5. m \in Mail
    BY <1>2, <1>3, <1>4 DEF Mail
<1>6. Mentions(m) \subseteq S
    <2>1. ASSUME NEW k \in 1 .. Len(m.flows) PROVE m.flows[k].flow \in S
        <3>1. Len(m.flows) = 1 /\ m.flows[1] = s
            BY <1>2, <1>3
        <3>2. k = 1
            BY <3>1
        <3> QED BY <3>1, <3>2
    <2> QED BY <2>1 DEF Mentions
<1> QED BY <1>5, <1>6 DEF Letters, m

\* What is said of no flow is a message.
LEMMA NoticeIsLetter ==
    ASSUME NEW type \in {"removed", "clear"}, NEW S
    PROVE  Notice(type) \in Letters(S)
<1> DEFINE m == Notice(type)
<1>1. <<>> \in Seq(Summaries) /\ Len(<<>>) = 0
    BY EmptySeq
<1>2. m.type = type /\ m.flows = <<>> /\ m \in Messages
    BY <1>1 DEF Notice, Messages
<1> HIDE DEF m
<1>3. m \in Mail
    BY <1>1, <1>2 DEF Mail
<1>4. Mentions(m) \subseteq S
    BY <1>1, <1>2 DEF Mentions
<1> QED BY <1>3, <1>4 DEF Letters, m

\* The snapshot is one, and a page that has read it shows the store.
LEMMA SnapshotIsLetter ==
    ASSUME ServerInv
    PROVE  /\ Snapshot \in Letters(Seen)
           /\ Shot(Snapshot).order = list
           /\ \A f \in Stored : Shot(Snapshot).rows[f] = ver[f]
<1> DEFINE flows == [i \in 1 .. Len(list) |-> [flow |-> list[i], ver |-> ver[list[i]]]]
           m == Snapshot
<1>1. list \in Seq(Flows) /\ Len(list) \in Nat /\ \A i \in 1 .. Len(list) : list[i] \in Stored
    BY LenProperties, ToSetElements DEF ServerInv, Stored
<1>2. \A f \in Stored : f \in Flows /\ f \in Seen /\ ver[f] \in Nat \ {0}
    BY DEF ServerInv, Seen
<1>3. flows \in [1 .. Len(list) -> Summaries]
    BY <1>1, <1>2 DEF Summaries
<1>4. /\ flows \in Seq(Summaries) /\ Len(flows) = Len(list)
      /\ \A i \in 1 .. Len(list) : flows[i].flow = list[i] /\ flows[i].ver = ver[list[i]]
    <2>1. \A i \in 1 .. Len(list) : flows[i].flow = list[i] /\ flows[i].ver = ver[list[i]]
        OBVIOUS
    <2> HIDE DEF flows
    <2> QED BY <1>1, <1>3, <2>1, FunctionIsSeq
<1>5. m = [type |-> "snapshot", flows |-> flows]
    BY DEF Snapshot
<1> HIDE DEF flows, m
<1>6. m \in Messages /\ m.type = "snapshot" /\ m.flows = flows
    BY <1>4, <1>5 DEF Messages
<1>7. m \in Mail
    <2>1. ASSUME NEW j \in 1 .. Len(m.flows), NEW k \in 1 .. Len(m.flows),
                 m.flows[j].flow = m.flows[k].flow
          PROVE  j = k
        <3>1. j \in 1 .. Len(list) /\ k \in 1 .. Len(list) /\ list[j] = list[k]
            BY <1>4, <1>6, <2>1
        <3> QED BY <3>1 DEF ServerInv, Distinct
    <2> QED BY <1>6, <2>1 DEF Mail
<1>8. Mentions(m) \subseteq Seen
    BY <1>1, <1>2, <1>4, <1>6 DEF Mentions
<1>9. Shot(m).order = list
    <2>1. Shot(m).order = [i \in 1 .. Len(m.flows) |-> m.flows[i].flow]
        BY DEF Shot
    <2>2. Shot(m).order = [i \in 1 .. Len(list) |-> list[i]]
        BY <1>4, <1>6, <2>1
    <2>3. list = [i \in 1 .. Len(list) |-> list[i]]
        BY <1>1, LenProperties
    <2> QED BY <2>2, <2>3
<1>10. ASSUME NEW f \in Stored PROVE Shot(m).rows[f] = ver[f]
    <2>1. PICK i \in 1 .. Len(list) : list[i] = f
        BY <1>1, ToSetElements DEF Stored
    <2>2. i \in 1 .. Len(m.flows) /\ m.flows[i].flow = f /\ m.flows[i].ver = ver[f]
        BY <1>4, <1>6, <2>1
    <2>3. Shot(m).rows[m.flows[i].flow] = m.flows[i].ver
        BY <1>7, <2>2, ShotProperties
    <2> QED BY <2>2, <2>3
<1> QED BY <1>7, <1>8, <1>9, <1>10 DEF Letters, m

\* A message joins the others.
LEMMA BroadcastStep ==
    ASSUME WireInv, Seen \subseteq Seen', NEW type, NEW flows,
           [type |-> type, flows |-> flows] \in Letters(Seen'),
           Broadcast(type, flows) \/ UNCHANGED chan
    PROVE  chan' \in Seq(Letters(Seen'))
<1> DEFINE m == [type |-> type, flows |-> flows]
<1>1. chan \in Seq(Letters(Seen'))
    BY LettersGrow DEF WireInv
<1>2. m \in Letters(Seen')
    OBVIOUS
<1>3. chan' = chan \/ chan' = Append(chan, m)
    BY DEF Broadcast
<1> HIDE DEF m
<1>4. Append(chan, m) \in Seq(Letters(Seen'))
    BY <1>1, <1>2, AppendProperties
<1> QED BY <1>1, <1>3, <1>4

\* The messages of a deletion join the others.
LEMMA EventsStep ==
    ASSUME ServerInv, WireInv, Seen \subseteq Seen', NEW i, ServeDelete(i)
    PROVE  \E events \in Seq(Letters(Seen')) :
                /\ chan' \in Seq(Letters(Seen'))
                /\ chan' = chan \/ chan' = chan \o events
                /\ \A n \in 1 .. Len(events) : events[n].type = "removed"
<1> DEFINE N == Cardinality(reqs[i].flows \cap Stored)
           events == [n \in 1 .. N |-> Notice("removed")]
<1>1. chan' = IF link = "up" THEN chan \o events ELSE chan
    BY DEF ServeDelete, Notice
<1>2. N \in Nat
    <2>1. IsFiniteSet(Flows)
        BY FS_Interval, InspectorAssumption DEF Flows
    <2>2. reqs[i].flows \cap Stored \in SUBSET Flows
        BY DEF ServerInv, Seen
    <2> QED BY <2>1, <2>2, FS_Subset, FS_CardinalityType
<1> HIDE DEF N
<1>3. Notice("removed") \in Letters(Seen') /\ Notice("removed").type = "removed"
    BY NoticeIsLetter DEF Notice
<1>4. events \in [1 .. N -> Letters(Seen')] /\ \A n \in 1 .. N : events[n].type = "removed"
    BY <1>3
<1> HIDE DEF events
<1>5. events \in Seq(Letters(Seen')) /\ Len(events) = N
    BY <1>2, <1>4, FunctionIsSeq
<1>6. chan \in Seq(Letters(Seen'))
    BY LettersGrow DEF WireInv
<1>7. chan \o events \in Seq(Letters(Seen'))
    BY <1>5, <1>6, ConcatProperties
<1> QED BY <1>1, <1>4, <1>5, <1>6, <1>7

\* What is said of the flows of a session, one by one, and their contents.
Adds(u, w) == [n \in 1 .. Len(u) |-> News("add", u[n], w[u[n]])]
Copies == [f \in Flows |-> Fresh(f)]

LEMMA AddsAreLetters ==
    ASSUME NEW u \in Seq(Flows), NEW w \in [Flows -> Nat \ {0}], NEW S, ToSet(u) \subseteq S
    PROVE  Adds(u, w) \in Seq(Letters(S)) /\ Len(Adds(u, w)) = Len(u)
<1> DEFINE events == Adds(u, w)
<1>1. Len(u) \in Nat /\ \A n \in 1 .. Len(u) : u[n] \in Flows /\ u[n] \in ToSet(u)
    BY LenProperties, ElementOfSeq, ToSetElements
<1>2. \A n \in 1 .. Len(u) : News("add", u[n], w[u[n]]) \in Letters(S)
    BY <1>1, NewsIsLetter
<1>3. events \in [1 .. Len(u) -> Letters(S)]
    BY <1>2 DEF Adds
<1> HIDE DEF events
<1>4. events \in Seq(Letters(S)) /\ Len(events) = Len(u)
    BY <1>1, <1>3, FunctionIsSeq
<1> QED BY <1>4 DEF events

\* The messages of a session load join the others.
LEMMA LoadEvents ==
    ASSUME ServerInv, WireInv, NEW flows \in SUBSET Seen, LoadSession(flows)
    PROVE  /\ Copies \in [Flows -> Nat \ {0}]
           /\ chan' = IF link = "up"
                      THEN Append(chan, Notice("clear")) \o Adds(InOrder(flows), Copies)
                      ELSE chan
           /\ chan' \in Seq(Letters(Seen))
<1> DEFINE u == InOrder(flows)
<1>1. u \in Seq(Flows) /\ ToSet(u) = flows
    BY LoadStep
<1>2. Copies \in [Flows -> Nat \ {0}] /\ \A f \in Flows : Copies[f] = Fresh(f)
    BY FreshProperties DEF Copies
<1>3. chan' = IF link = "up"
              THEN Append(chan, Notice("clear")) \o
                    [n \in 1 .. Len(u) |->
                        [type |-> "add", flows |-> <<Summary(u[n], Fresh(u[n]))>>]]
              ELSE chan
    BY DEF LoadSession, Notice
<1> HIDE DEF u
<1>4. \A n \in 1 .. Len(u) : u[n] \in Flows
    BY <1>1, ElementOfSeq
<1>5. [n \in 1 .. Len(u) |-> [type |-> "add", flows |-> <<Summary(u[n], Fresh(u[n]))>>]]
        = Adds(u, Copies)
    BY <1>2, <1>4 DEF Adds, News, Summary
<1>6. Adds(u, Copies) \in Seq(Letters(Seen))
    BY <1>1, <1>2, AddsAreLetters
<1>7. Append(chan, Notice("clear")) \in Seq(Letters(Seen)) /\ chan \in Seq(Letters(Seen))
    <2> DEFINE m == Notice("clear")
    <2>1. m \in Letters(Seen)
        BY NoticeIsLetter
    <2> HIDE DEF m
    <2>2. Append(chan, m) \in Seq(Letters(Seen))
        BY <2>1, AppendProperties DEF WireInv
    <2> QED BY <2>2 DEF WireInv, m
<1> DEFINE c == Append(chan, Notice("clear"))
           a == Adds(u, Copies)
<1>8. c \o a \in Seq(Letters(Seen))
    <2>1. c \in Seq(Letters(Seen)) /\ a \in Seq(Letters(Seen))
        BY <1>6, <1>7
    <2> HIDE DEF c, a
    <2> QED BY <2>1, ConcatProperties
<1>9. chan' = IF link = "up" THEN c \o a ELSE chan
    BY <1>3, <1>5
<1> QED BY <1>2, <1>7, <1>8, <1>9 DEF u

\* Every step keeps the messages messages.
LEMMA WireStep ==
    ASSUME ServerInv, WireInv, ServerInv', Onward, [Next]_vars
    PROVE  WireInv'
<1> USE DEF WireInv
<1>1. Seen \subseteq Seen' /\ chan \in Seq(Letters(Seen'))
    BY LettersGrow DEF Onward
<1>2. CASE UNCHANGED wire
    BY <1>1, <1>2 DEF wire
<1>3. ASSUME NEW f \in Flows, Add(f) PROVE WireInv'
    <2>1. Summary(f, 1) = [flow |-> f, ver |-> 1] /\ f \in Seen'
        BY <1>3, AddStep DEF Summary
    <2>2. News("add", f, 1) \in Letters(Seen')
        BY <2>1, NewsIsLetter
    <2>3. chan' \in Seq(Letters(Seen'))
        BY <1>1, <1>3, <2>1, <2>2, BroadcastStep DEF Add, News
    <2> QED BY <1>3, <2>3 DEF Add
<1>a. ASSUME NEW f \in Flows, NEW v, Says(f, v)
      PROVE  chan' \in Seq(Letters(Seen'))
    <2>1. v \in Nat \ {0} /\ f \in Seen'
        BY <1>1, <1>a DEF Says
    <2>2. News("update", f, v) \in Letters(Seen')
        BY <2>1, NewsIsLetter
    <2>3. Broadcast("update", <<Summary(f, v)>>)
        BY <1>a DEF Says
    <2> QED BY <1>1, <2>2, <2>3, BroadcastStep DEF News, Summary
<1>4. ASSUME NEW f \in Flows, Touch(f) \/ Announce(f) \/ Change(f) PROVE WireInv'
    <2>1. CASE Touch(f)
        BY <1>2, <2>1 DEF Touch
    <2>2. CASE Announce(f)
        BY <1>a, <2>2, AnnounceStep DEF Announce, AnnounceAs
    <2>3. CASE Change(f)
        BY <1>a, <2>3, AlterStep DEF Change
    <2> QED BY <1>4, <2>1, <2>2, <2>3
<1>b. ASSUME NEW flows \in SUBSET Seen, LoadSession(flows) PROVE WireInv'
    <2>1. chan' \in Seq(Letters(Seen')) /\ UNCHANGED <<link, drops>>
        BY <1>b, LoadEvents, LoadStep DEF LoadSession
    <2> QED BY <2>1
<1>5. ASSUME NEW f \in Flows, RemoveFlow(f) PROVE WireInv'
    <2>1. Notice("removed") \in Letters(Seen')
        BY NoticeIsLetter
    <2>2. chan' \in Seq(Letters(Seen'))
        BY <1>1, <1>5, <2>1, BroadcastStep DEF RemoveFlow, Notice
    <2> QED BY <1>5, <2>2 DEF RemoveFlow
<1>6. CASE Clear
    <2>1. Notice("clear") \in Letters(Seen')
        BY NoticeIsLetter
    <2>2. chan' \in Seq(Letters(Seen'))
        BY <1>1, <1>6, <2>1, BroadcastStep DEF Clear, Notice
    <2> QED BY <1>6, <2>2 DEF Clear
<1>7. CASE Resize
    BY <1>2, <1>7 DEF Resize
<1>8. ASSUME NEW i \in 1 .. Len(reqs), Serve(i) PROVE WireInv'
    <2>1. CASE ServeDetail(i)
        BY <1>2, <2>1 DEF ServeDetail
    <2>2. CASE ServeMark(i)
        <3>1. link' = link /\ drops' = drops
            BY <2>2 DEF ServeMark
        <3>2. chan' \in Seq(Letters(Seen'))
            BY <1>1, <1>a, <2>2, MarkStep
        <3> QED BY <3>1, <3>2
    <2>3. CASE ServeDelete(i)
        BY <1>1, <2>3, EventsStep DEF ServeDelete
    <2> QED BY <1>8, <2>1, <2>2, <2>3 DEF Serve
<1>9. ASSUME NEW i \in 1 .. Len(reqs), Handle(i) PROVE WireInv'
    BY <1>2, <1>9 DEF Handle, HandleDetail, HandleMarked, HandleDeleted, HandleBatchDeleted
<1>10. CASE Connect("unopened") \/ Connect("down")
    <2>1. chan' = <<Snapshot>> /\ link' = "up" /\ UNCHANGED drops
        BY <1>10 DEF Connect, Snapshot
    <2>2. Snapshot \in Letters(Seen')
        BY <1>1, SnapshotIsLetter DEF Letters
    <2>3. <<Snapshot>> \in Seq(Letters(Seen'))
        <3> DEFINE m == Snapshot
        <3>1. m \in Letters(Seen') BY <2>2
        <3> HIDE DEF m
        <3>2. <<m>> \in Seq(Letters(Seen')) BY <3>1
        <3> QED BY <3>2 DEF m
    <2> QED BY <2>1, <2>3
<1>11. CASE Drop
    BY <1>11, EmptySeq, InspectorAssumption DEF Drop
<1>12. CASE Deliver
    <2>1. link' = link /\ drops' = drops /\ chan # <<>> /\ chan' = Tail(chan)
        BY <1>12 DEF Deliver, HandleSnapshot, HandleAdd, HandleUpdate, HandleRemoved, HandleClear,
                     Receive
    <2> QED BY <1>1, <2>1, HeadTailProperties
<1>13. ASSUME NEW f \in Flows, Click(f) \/ Toggle(f) \/ RangeSelect(f) \/ DeleteFlow(f)
      PROVE  WireInv'
    BY <1>2, <1>13 DEF Click, Toggle, RangeSelect, DeleteFlow, Post
<1>14. CASE SelectAllVisible \/ ClearSelection \/ Mark \/ BatchDelete
    BY <1>2, <1>14 DEF SelectAllVisible, ClearSelection, Mark, BatchDelete, Post
<1>15. CASE UNCHANGED vars
    BY <1>2, <1>15 DEF vars, wire
<1> QED BY <1>3, <1>4, <1>b, <1>5, <1>6, <1>7, <1>8, <1>9, <1>10, <1>11, <1>12, <1>13, <1>14, <1>15
        DEF Next

-----------------------------------------------------------------------------
(* The requests.                                                           *)

\* What is left of the requests when one has been settled.
LEMMA SettleProperties ==
    ASSUME NEW E, reqs \in Seq(E), NEW i \in 1 .. Len(reqs)
    PROVE  /\ Settle(i) \in Seq(E) /\ Len(Settle(i)) = Len(reqs) - 1
           /\ \A k \in 1 .. Len(reqs) - 1 : Settle(i)[k] = IF k < i THEN reqs[k] ELSE reqs[k + 1]
<1> DEFINE first == SubSeq(reqs, 1, i - 1)
           rest == SubSeq(reqs, i + 1, Len(reqs))
<1>1. Len(reqs) \in Nat /\ \A k \in 1 .. Len(reqs) : reqs[k] \in E
    BY LenProperties, ElementOfSeq
<1>2. first \in Seq(E) /\ Len(first) = i - 1 /\ \A k \in 1 .. i - 1 : first[k] = reqs[k]
    <2>1. \A k \in 1 .. i - 1 : reqs[k] \in E
        BY <1>1
    <2>2. /\ first \in Seq(E)
          /\ Len(first) = IF 1 <= i - 1 THEN i - 1 - 1 + 1 ELSE 0
          /\ \A k \in 1 .. i - 1 - 1 + 1 : first[k] = reqs[1 + k - 1]
        BY <1>1, <2>1, SubSeqProperties
    <2> HIDE DEF first
    <2> QED BY <1>1, <2>2
<1>3. /\ rest \in Seq(E) /\ Len(rest) = Len(reqs) - i
      /\ \A k \in 1 .. Len(reqs) - i : rest[k] = reqs[i + k]
    <2>1. \A k \in i + 1 .. Len(reqs) : reqs[k] \in E
        BY <1>1
    <2>2. /\ rest \in Seq(E)
          /\ Len(rest) = IF i + 1 <= Len(reqs) THEN Len(reqs) - (i + 1) + 1 ELSE 0
          /\ \A k \in 1 .. Len(reqs) - (i + 1) + 1 : rest[k] = reqs[i + 1 + k - 1]
        BY <1>1, <2>1, SubSeqProperties
    <2> HIDE DEF rest
    <2> QED BY <1>1, <2>2
<1>4. Settle(i) = first \o rest
    BY DEF Settle
<1> HIDE DEF first, rest
<1> DEFINE t == first \o rest
<1>5. /\ t \in Seq(E) /\ Len(t) = Len(first) + Len(rest)
      /\ \A k \in 1 .. Len(first) + Len(rest) :
            t[k] = IF k <= Len(first) THEN first[k] ELSE rest[k - Len(first)]
    BY <1>2, <1>3, ConcatProperties
<1>6. Settle(i) = t
    BY <1>4
<1> HIDE DEF t
<1>7. Len(t) = Len(reqs) - 1
    BY <1>1, <1>2, <1>3, <1>5
<1>8. ASSUME NEW k \in 1 .. Len(reqs) - 1 PROVE t[k] = IF k < i THEN reqs[k] ELSE reqs[k + 1]
    <2>1. CASE k < i
        <3>1. k \in 1 .. i - 1 /\ k <= Len(first) /\ k \in 1 .. Len(first) + Len(rest)
            BY <1>1, <1>2, <1>3, <2>1
        <3> QED BY <1>2, <1>5, <2>1, <3>1
    <2>2. CASE ~(k < i)
        <3>1. /\ k - (i - 1) \in 1 .. Len(reqs) - i /\ ~(k <= Len(first))
              /\ k \in 1 .. Len(first) + Len(rest) /\ i + (k - (i - 1)) = k + 1
              /\ k - Len(first) = k - (i - 1)
            BY <1>1, <1>2, <1>3, <2>2
        <3> QED BY <1>3, <1>5, <2>2, <3>1
    <2> QED BY <2>1, <2>2
<1> QED BY <1>5, <1>6, <1>7, <1>8

\* The others are left when one has been settled.
LEMMA SettleLeaves ==
    ASSUME NEW E, reqs \in Seq(E), NEW i \in 1 .. Len(reqs), NEW F,
           \A j \in 1 .. Len(reqs) : j # i => reqs[j] \in F
    PROVE  Settle(i) \in Seq(F)
<1> DEFINE t == Settle(i)
           n == Len(reqs) - 1
<1>1. Len(reqs) \in Nat /\ n \in Nat
    BY LenProperties
<1>2. t \in Seq(E) /\ Len(t) = n /\ \A k \in 1 .. n : t[k] = IF k < i THEN reqs[k] ELSE reqs[k + 1]
    BY SettleProperties
<1> HIDE DEF t
<1>3. ASSUME NEW k \in 1 .. n PROVE t[k] \in F
    <2>1. CASE k < i
        <3>1. k \in 1 .. Len(reqs) /\ k # i
            BY <1>1, <2>1
        <3> QED BY <1>2, <2>1, <3>1
    <2>2. CASE ~(k < i)
        <3>1. k + 1 \in 1 .. Len(reqs) /\ k + 1 # i
            BY <1>1, <2>2
        <3> QED BY <1>2, <2>2, <3>1
    <2> QED BY <2>1, <2>2
<1>4. t \in [1 .. n -> F]
    <2>1. t \in [1 .. Len(t) -> E]
        BY <1>2, LenProperties
    <2> QED BY <1>2, <1>3, <2>1
<1> HIDE DEF n
<1>5. t \in Seq(F)
    BY <1>1, <1>4, FunctionIsSeq
<1> QED BY <1>5 DEF t

\* An answer changes one request.
LEMMA AnsweredProperties ==
    ASSUME NEW E, reqs \in Seq(E), E \subseteq Requests, NEW i \in 1 .. Len(reqs), NEW v \in Nat,
           Answered(i, v),
           NEW F, \A j \in 1 .. Len(reqs) : j # i => reqs[j] \in F,
           [kind |-> reqs[i].kind, flows |-> reqs[i].flows, answered |-> TRUE, ver |-> v] \in F
    PROVE  /\ reqs' \in Seq(F) /\ Len(reqs') = Len(reqs)
           /\ reqs'[i] = [kind |-> reqs[i].kind, flows |-> reqs[i].flows,
                          answered |-> TRUE, ver |-> v]
           /\ \A j \in 1 .. Len(reqs) : j # i => reqs'[j] = reqs[j]
<1> DEFINE n == Len(reqs)
           r == [kind |-> reqs[i].kind, flows |-> reqs[i].flows, answered |-> TRUE, ver |-> v]
<1>1. n \in Nat /\ DOMAIN reqs = 1 .. n /\ reqs[i] \in Requests
    BY LenProperties, ElementOfSeq
<1>2. reqs' = [reqs EXCEPT ![i] = r]
    BY DEF Answered
<1> HIDE DEF r
<1>4. /\ DOMAIN reqs' = 1 .. n /\ reqs' = [j \in 1 .. n |-> reqs'[j]]
      /\ reqs'[i] = r
      /\ \A j \in 1 .. n : j # i => reqs'[j] = reqs[j]
    BY <1>1, <1>2
<1>5. reqs' \in [1 .. n -> F]
    BY <1>4 DEF r
<1> HIDE DEF n
<1>6. reqs' \in Seq(F) /\ Len(reqs') = n
    BY <1>1, <1>5, FunctionIsSeq
<1> QED BY <1>4, <1>6 DEF r, n

\* A new request.
LEMMA RequestIsErrand ==
    ASSUME NEW kind \in {"detail", "mark", "delete", "batch"}, NEW flows, NEW S,
           flows \subseteq S, S \subseteq Flows, kind # "batch" => \E f \in Flows : flows = {f}
    PROVE  /\ Request(kind, flows) \in Errands(S)
           /\ Request(kind, flows).kind = kind /\ Request(kind, flows).flows = flows
           /\ Request(kind, flows).answered = FALSE
BY DEF Request, Errands, Requests

\* A request for detail joins the others.
LEMMA AskStep ==
    ASSUME NEW S, S \subseteq Flows, NEW u \in Seq(Errands(S)), NEW f \in S
    PROVE  Append(u, Request("detail", {f})) \in Seq(Errands(S))
<1> DEFINE r == Request("detail", {f})
<1>1. r \in Errands(S)
    <2> DEFINE one == {f}
    <2>1. one \subseteq S /\ \E g \in Flows : one = {g}
        OBVIOUS
    <2> HIDE DEF one
    <2>2. Request("detail", one) \in Errands(S)
        BY <2>1, RequestIsErrand
    <2> QED BY <2>2 DEF one
<1> HIDE DEF r
<1>2. Append(u, r) \in Seq(Errands(S))
    BY <1>1, AppendProperties
<1> QED BY <1>2 DEF r

\* The oldest message on its way.
LEMMA HeadIsLetter ==
    ASSUME WireInv, chan # <<>>
    PROVE  /\ Head(chan) \in Letters(Seen) /\ Head(chan) \in Mail
           /\ Head(chan).type \in {"add", "update"} =>
                /\ Head(chan).flows[1] \in Summaries
                /\ Head(chan).flows[1].flow \in Seen
<1> DEFINE m == Head(chan)
<1>1. m \in Letters(Seen)
    BY HeadTailProperties DEF WireInv
<1> HIDE DEF m
<1>2. m \in Mail /\ Mentions(m) \subseteq Seen /\ m.flows \in Seq(Summaries)
    BY <1>1 DEF Letters, Mail, Messages
<1>3. ASSUME m.type \in {"add", "update"}
      PROVE  m.flows[1] \in Summaries /\ m.flows[1].flow \in Seen
    <2>1. Len(m.flows) = 1
        BY <1>2, <1>3 DEF Mail
    <2>2. 1 \in 1 .. Len(m.flows)
        BY <2>1
    <2>3. m.flows[1] \in Summaries
        BY <1>2, <2>2, ElementOfSeq
    <2> QED BY <1>2, <2>2, <2>3 DEF Mentions
<1> QED BY <1>1, <1>2, <1>3 DEF m

\* What the operator can click.
LEMMA VisibleIsShown ==
    ASSUME ViewInv
    PROVE  /\ Visible \in Seq(Flows)
           /\ ToSet(Visible) \subseteq Shown /\ ToSet(Visible) \subseteq Seen
           /\ Seen \subseteq Flows
<1>1. Visible \in Seq(Flows) /\ ToSet(Visible) = ToSet(order) \cap Shown
    BY OnlyType, OnlyElements DEF Visible, ViewInv
<1> QED BY <1>1 DEF ViewInv, Seen

\* Every step keeps the requests requests.
LEMMA ReqsStep ==
    ASSUME ServerInv, WireInv, ReqsInv, ViewInv, Onward, [Next]_vars
    PROVE  ReqsInv'
<1> DEFINE E == Errands(Seen)
           F == Errands(Seen')
<1>1. /\ reqs \in Seq(E) /\ reqs \in Seq(F)
      /\ Seen \subseteq Seen' /\ Seen \subseteq Flows /\ Seen' \subseteq Flows
      /\ E \subseteq Requests /\ F \subseteq Requests
    <2>1. reqs \in Seq(F)
        BY ErrandsGrow DEF ReqsInv, Onward
    <2> QED BY <2>1 DEF ReqsInv, Onward, Seen, Errands
<1>2. \A j \in 1 .. Len(reqs) : reqs[j] \in E /\ reqs[j] \in F
    <2> HIDE DEF E, F
    <2> QED BY <1>1, ElementOfSeq
<1>3. reqs' \in Seq(F) => ReqsInv'
    BY DEF ReqsInv
<1> HIDE DEF E, F
<1>4. CASE UNCHANGED reqs
    BY <1>1, <1>3, <1>4
<1>a. ASSUME NEW i \in 1 .. Len(reqs), NEW v \in Nat, Answered(i, v),
             [kind |-> reqs[i].kind, flows |-> reqs[i].flows, answered |-> TRUE, ver |-> v] \in F
      PROVE  ReqsInv'
    BY <1>1, <1>2, <1>3, <1>a, AnsweredProperties
<1>b. ASSUME NEW i \in 1 .. Len(reqs)
      PROVE  Settle(i) \in Seq(F)
    BY <1>1, SettleProperties
<1>c. ASSUME NEW u \in Seq(F), NEW f \in Seen PROVE Append(u, Request("detail", {f})) \in Seq(F)
    BY <1>1, AskStep DEF F
<1>d. ASSUME NEW kind \in {"mark", "delete", "batch"}, NEW flows, Post(kind, flows),
             flows \subseteq Seen, kind # "batch" => \E f \in Flows : flows = {f}
      PROVE  ReqsInv'
    <2> DEFINE r == Request(kind, flows)
    <2>1. r \in F
        BY <1>1, <1>d, RequestIsErrand DEF F
    <2>2. reqs' = Append(reqs, r)
        BY <1>d DEF Post
    <2> HIDE DEF r
    <2> QED BY <1>1, <1>3, <2>1, <2>2, AppendProperties
<1>5. ASSUME NEW f \in Flows, Add(f) \/ Touch(f) \/ Announce(f) \/ Change(f) \/ RemoveFlow(f)
      PROVE  ReqsInv'
    BY <1>4, <1>5 DEF Add, Touch, Announce, AnnounceAs, Change, RemoveFlow
<1>6. CASE Clear \/ Resize \/ \E flows \in SUBSET Seen : LoadSession(flows)
    BY <1>4, <1>6 DEF Clear, Resize, LoadSession
<1>7. ASSUME NEW i \in 1 .. Len(reqs), Serve(i) PROVE ReqsInv'
    <2> DEFINE r(v) == [kind |-> reqs[i].kind, flows |-> reqs[i].flows, answered |-> TRUE, ver |-> v]
    <2>1. CASE ServeDetail(i)
        <3>1. PICK v \in Nat : Answered(i, v)
            BY <2>1 DEF ServeDetail, ServerInv, Seen
        <3>2. r(v) \in F
            BY <1>2, <2>1 DEF ServeDetail, F, Errands, Requests
        <3> QED BY <1>a, <3>1, <3>2
    <2>2. CASE ServeMark(i)
        <3>1. r(0) \in F
            BY <1>2, <2>2 DEF ServeMark, F, Errands, Requests
        <3> QED BY <1>a, <2>2, <3>1 DEF ServeMark
    <2>3. CASE ServeDelete(i)
        <3>1. r(0) \in F
            BY <1>2 DEF F, Errands, Requests
        <3> QED BY <1>a, <2>3, <3>1 DEF ServeDelete
    <2> QED BY <1>7, <2>1, <2>2, <2>3 DEF Serve
<1>8. ASSUME NEW i \in 1 .. Len(reqs), Handle(i) PROVE ReqsInv'
    <2>1. CASE HandleDetail(i) \/ HandleDeleted(i) \/ HandleBatchDeleted(i)
        BY <1>3, <1>b, <2>1 DEF HandleDetail, HandleDeleted, HandleBatchDeleted
    <2>2. CASE HandleMarked(i)
        <3> DEFINE f == CHOOSE g \in reqs[i].flows : TRUE
        <3>1. reqs' = Append(Settle(i), Request("detail", {f}))
            BY <2>2 DEF HandleMarked, Ask
        <3>2. f \in Seen
            BY <1>2, <2>2 DEF HandleMarked, E, Errands
        <3> HIDE DEF f
        <3> DEFINE u == Settle(i)
        <3>3. u \in Seq(F)
            BY <1>b
        <3> HIDE DEF u
        <3>4. Append(u, Request("detail", {f})) \in Seq(F)
            BY <1>c, <3>2, <3>3
        <3> QED BY <1>3, <3>1, <3>4 DEF u
    <2> QED BY <1>8, <2>1, <2>2 DEF Handle
<1>9. CASE Connect("unopened") \/ Connect("down") \/ Drop
    BY <1>4, <1>9 DEF Connect, Drop
<1>10. CASE Deliver
    <2>1. CASE HandleUpdate
        <3>1. reqs' = reqs \/ reqs' = Append(reqs, Request("detail", {Head(chan).flows[1].flow}))
            BY <2>1 DEF HandleUpdate, Ask
        <3> DEFINE f == Head(chan).flows[1].flow
        <3>2. f \in Seen
            BY <2>1, HeadIsLetter DEF HandleUpdate, Receive
        <3> HIDE DEF f
        <3>3. Append(reqs, Request("detail", {f})) \in Seq(F)
            BY <1>1, <1>c, <3>2
        <3> QED BY <1>1, <1>3, <3>1, <3>3 DEF f
    <2>2. CASE HandleSnapshot \/ HandleAdd \/ HandleRemoved \/ HandleClear
        BY <1>4, <2>2 DEF HandleSnapshot, HandleAdd, HandleRemoved, HandleClear
    <2> QED BY <1>10, <2>1, <2>2 DEF Deliver
<1>11. ASSUME NEW f \in Flows, Click(f) PROVE ReqsInv'
    <2>1. f \in Seen
        BY <1>11, VisibleIsShown DEF Click
    <2>2. reqs' = Append(reqs, Request("detail", {f}))
        BY <1>11 DEF Click, Ask
    <2> QED BY <1>1, <1>3, <1>c, <2>1, <2>2
<1>12. ASSUME NEW f \in Flows, Toggle(f) \/ RangeSelect(f) PROVE ReqsInv'
    BY <1>4, <1>12 DEF Toggle, RangeSelect
<1>13. ASSUME NEW f \in Flows, DeleteFlow(f) PROVE ReqsInv'
    BY <1>d, <1>13, VisibleIsShown DEF DeleteFlow
<1>14. CASE SelectAllVisible \/ ClearSelection
    BY <1>4, <1>14 DEF SelectAllVisible, ClearSelection
<1>15. CASE Mark
    <2>1. detail.flow \in Seen /\ detail.flow \in Flows
        BY <1>1, <1>15 DEF Mark, ViewInv
    <2> QED BY <1>d, <1>15, <2>1 DEF Mark
<1>16. CASE BatchDelete
    BY <1>d, <1>16 DEF BatchDelete, ViewInv
<1>17. CASE UNCHANGED vars
    BY <1>4, <1>17 DEF vars
<1> QED BY <1>5, <1>6, <1>7, <1>8, <1>9, <1>10, <1>11, <1>12, <1>13, <1>14, <1>15, <1>16, <1>17
        DEF Next

-----------------------------------------------------------------------------
(* The page.                                                               *)

\* A message is handled as Handled says.
LEMMA DeliverPage ==
    ASSUME WireInv, ViewInv, Deliver
    PROVE  /\ Page \in Pages /\ chan # <<>> /\ Head(chan) \in Mail
           /\ Page' = Handled(Page, Head(chan))
           /\ chan' = Tail(chan) /\ link = "up" /\ link' = "up"
           /\ UNCHANGED <<server, selected, picked, detail, acts>>
<1> DEFINE m == Head(chan)
<1>1. Page \in Pages
    BY DEF Page, Pages, ViewInv
<1>2. /\ chan # <<>> /\ chan' = Tail(chan) /\ link = "up" /\ link' = "up"
      /\ UNCHANGED <<server, selected, picked, detail, acts>>
    BY DEF Deliver, HandleSnapshot, HandleAdd, HandleUpdate, HandleRemoved, HandleClear, Receive,
           page
<1>3. m \in Mail
    BY <1>2, HeadIsLetter
<1>4. Page' = Handled(Page, m)
    <2>1. CASE HandleSnapshot
        BY <2>1 DEF HandleSnapshot, Receive, Page, Handled, Shot
    <2>2. CASE HandleAdd \/ HandleUpdate
        BY <2>2 DEF HandleAdd, HandleUpdate, Receive, AddFlow, Page, Handled, Added
    <2>3. CASE HandleRemoved
        BY <2>3 DEF HandleRemoved, Receive, page, Page, Handled
    <2>4. CASE HandleClear
        BY <2>4 DEF HandleClear, Receive, Page, Handled, Blank
    <2> QED BY <2>1, <2>2, <2>3, <2>4 DEF Deliver
<1> QED BY <1>1, <1>2, <1>3, <1>4

\* A deletion takes rows and places in the list.
LEMMA DeletedOrder ==
    ASSUME ViewInv, NEW gone
    PROVE  /\ Only(order, Flows \ gone) \in Seq(Flows)
           /\ ToSet(Only(order, Flows \ gone)) = ToSet(order) \cap (Flows \ gone)
           /\ Distinct(order) => Distinct(Only(order, Flows \ gone))
<1>1. order \in Seq(Flows)
    BY DEF ViewInv
<1> DEFINE T == Flows \ gone
<1> HIDE DEF T
<1>2. Only(order, T) \in Seq(Flows) /\ ToSet(Only(order, T)) = ToSet(order) \cap T
    BY <1>1, OnlyType, OnlyElements
<1>3. ASSUME Distinct(order) PROVE Distinct(Only(order, T))
    BY <1>1, <1>3, OnlyDistinct
<1> QED BY <1>2, <1>3 DEF T

\* Every step keeps the page a page that shows flows there have been.
LEMMA ViewStep ==
    ASSUME ServerInv, WireInv, ReqsInv, ViewInv, Onward, [Next]_vars
    PROVE  ViewInv'
<1>1. /\ Seen \subseteq Seen' /\ Seen \subseteq Flows /\ Seen' \subseteq Flows
    BY DEF Onward, Seen
<1>2. CASE UNCHANGED page
    BY <1>1, <1>2 DEF ViewInv, page, Shown
<1>a. ASSUME NEW i \in 1 .. Len(reqs)
      PROVE  /\ reqs[i] \in Requests /\ reqs[i].flows \subseteq Seen
             /\ reqs[i].kind # "batch" => \E f \in Seen : reqs[i].flows = {f}
    <2>1. reqs[i] \in Errands(Seen)
        BY ElementOfSeq DEF ReqsInv
    <2> QED BY <2>1 DEF Errands
<1>3. ASSUME NEW f \in Flows, Add(f) \/ Touch(f) \/ Announce(f) \/ Change(f) \/ RemoveFlow(f)
      PROVE  ViewInv'
    BY <1>2, <1>3 DEF Add, Touch, Announce, AnnounceAs, Change, RemoveFlow
<1>4. CASE \/ Clear \/ Resize \/ \E flows \in SUBSET Seen : LoadSession(flows)
           \/ Connect("unopened") \/ Connect("down") \/ Drop
    BY <1>2, <1>4 DEF Clear, Resize, LoadSession, Connect, Drop
<1>5. ASSUME NEW i \in 1 .. Len(reqs), Serve(i) PROVE ViewInv'
    BY <1>2, <1>5 DEF Serve, ServeDetail, ServeMark, ServeDelete, page
<1>6. CASE Deliver
    <2>1. Page \in Pages /\ Head(chan) \in Letters(Seen) /\ Head(chan) \in Mail /\ Page' = Handled(Page, Head(chan))
          /\ UNCHANGED <<selected, picked, detail, acts>>
        BY <1>6, DeliverPage, HeadIsLetter
    <2>2. Handled(Page, Head(chan)) \in Pages
          /\ \A f \in Flows : Handled(Page, Head(chan)).rows[f] > 0 => f \in Seen
        <3> DEFINE m == Head(chan)
        <3>1. m \in Mail /\ Mentions(m) \subseteq Seen
            BY <2>1 DEF Letters
        <3>2. \A f \in Flows : Page.rows[f] > 0 => f \in Seen
            BY DEF ViewInv, Shown, Page
        <3> HIDE DEF m
        <3>3. Handled(Page, m) \in Pages /\ \A f \in Flows : Handled(Page, m).rows[f] > 0 => f \in Seen
            BY <2>1, <3>1, <3>2, HandledProperties, HandledShows
        <3> QED BY <3>3 DEF m
    <2>3. /\ rows' \in [Flows -> Nat] /\ order' \in Seq(Flows)
          /\ Shown' \subseteq Seen
        <3>1. Page' \in Pages /\ Page'.rows = rows' /\ Page'.order = order'
            BY <2>1, <2>2 DEF Page
        <3> QED BY <2>1, <2>2, <3>1 DEF Pages, Shown
    <2>4. behind' \in BOOLEAN /\ lost' \in BOOLEAN /\ meddled' \in BOOLEAN
        BY <1>6 DEF Deliver, HandleSnapshot, HandleAdd, HandleUpdate, HandleRemoved, HandleClear,
                    page, Ask, ViewInv
    <2> QED BY <1>1, <2>1, <2>3, <2>4 DEF ViewInv
<1>7. ASSUME NEW i \in 1 .. Len(reqs), HandleDetail(i) PROVE ViewInv'
    <2> DEFINE f == CHOOSE g \in reqs[i].flows : TRUE
    <2>1. detail' = (IF reqs[i].ver = 0 THEN detail ELSE [flow |-> f, ver |-> reqs[i].ver])
          /\ behind' \in BOOLEAN
          /\ UNCHANGED <<rows, order, selected, picked, acts, lost, meddled>>
        BY <1>7 DEF HandleDetail, ViewInv
    <2>2. f \in Seen /\ reqs[i].ver \in Nat
        BY <1>a, <1>7 DEF HandleDetail, Requests
    <2> HIDE DEF f
    <2>3. detail' \in [flow : Seen' \cup {None}, ver : Nat]
        BY <1>1, <2>1, <2>2 DEF ViewInv
    <2> QED BY <1>1, <2>1, <2>3 DEF ViewInv, Shown
<1>8. ASSUME NEW i \in 1 .. Len(reqs), HandleMarked(i) PROVE ViewInv'
    <2>1. behind' \in BOOLEAN /\ UNCHANGED <<rows, order, selected, picked, detail, acts, lost, meddled>>
        BY <1>8 DEF HandleMarked, Ask, ViewInv
    <2> QED BY <1>1, <2>1 DEF ViewInv, Shown
<1>b. ASSUME NEW gone, Deselect(gone)
      PROVE  /\ selected' \in Seen' \cup {None} /\ detail' \in [flow : Seen' \cup {None}, ver : Nat]
             /\ behind' \in BOOLEAN
    <2>1. NoDetail \in [flow : Seen' \cup {None}, ver : Nat]
        BY DEF NoDetail
    <2>2. detail \in [flow : Seen' \cup {None}, ver : Nat] /\ selected \in Seen' \cup {None}
        BY <1>1 DEF ViewInv
    <2>3. CASE selected \in gone
        BY <1>b, <2>1, <2>3 DEF Deselect
    <2>4. CASE selected \notin gone
        BY <1>b, <2>2, <2>4 DEF Deselect, ViewInv
    <2> QED BY <2>3, <2>4
<1>c. ASSUME NEW gone, TakeRows(gone)
      PROVE  rows' \in [Flows -> Nat] /\ Shown' \subseteq Seen' /\ lost' \in BOOLEAN
    BY <1>1, <1>c DEF ViewInv, Shown, TakeRows
<1>9. ASSUME NEW i \in 1 .. Len(reqs), HandleDeleted(i) PROVE ViewInv'
    <2>1. order' \in Seq(Flows)
        BY <1>9, DeletedOrder DEF HandleDeleted
    <2>2. UNCHANGED <<picked, acts, meddled>>
        BY <1>9 DEF HandleDeleted
    <2>3. Deselect(reqs[i].flows) /\ TakeRows(reqs[i].flows)
        BY <1>9 DEF HandleDeleted
    <2> QED BY <1>1, <1>b, <1>c, <2>1, <2>2, <2>3 DEF ViewInv
<1>10. ASSUME NEW i \in 1 .. Len(reqs), HandleBatchDeleted(i) PROVE ViewInv'
    <2>1. order' \in Seq(Flows)
        BY <1>10, DeletedOrder DEF HandleBatchDeleted
    <2>2. picked' = {} /\ UNCHANGED acts /\ meddled' \in BOOLEAN
        BY <1>10 DEF HandleBatchDeleted, ViewInv
    <2>3. Deselect(picked) /\ TakeRows(reqs[i].flows)
        BY <1>10 DEF HandleBatchDeleted
    <2> QED BY <1>1, <1>b, <1>c, <2>1, <2>2, <2>3 DEF ViewInv
<1>d. ASSUME NEW flows, Pick(flows), flows \subseteq Seen, UNCHANGED <<rows, order, detail, lost>>,
             selected' \in Seen \cup {None}, behind' \in BOOLEAN
      PROVE  ViewInv'
    <2>1. picked' \subseteq Seen' /\ meddled' \in BOOLEAN
        BY <1>1, <1>d DEF Pick, ViewInv
    <2>2. acts' \in 0 .. MaxActs
        BY <1>d, InspectorAssumption DEF Pick, Spend, ViewInv
    <2> QED BY <1>1, <1>d, <2>1, <2>2 DEF ViewInv, Shown
<1>11. ASSUME NEW f \in Flows, Click(f) PROVE ViewInv'
    <2>1. f \in Seen
        BY <1>11, VisibleIsShown DEF Click
    <2> QED BY <1>d, <1>11, <2>1 DEF Click, Ask, ViewInv
<1>12. ASSUME NEW f \in Flows, Toggle(f) PROVE ViewInv'
    <2>1. f \in Seen
        BY <1>12, VisibleIsShown DEF Toggle
    <2>2. picked \subseteq Seen /\ selected \in Seen \cup {None} /\ behind \in BOOLEAN
        BY DEF ViewInv
    <2>3. PICK flows : Pick(flows) /\ flows \subseteq Seen
        BY <1>12, <2>1, <2>2 DEF Toggle
    <2> QED BY <1>d, <1>12, <2>2, <2>3 DEF Toggle
<1>13. ASSUME NEW f \in Flows, RangeSelect(f) PROVE ViewInv'
    <2>1. picked \subseteq Seen /\ selected \in Seen \cup {None} /\ behind \in BOOLEAN
        BY DEF ViewInv
    <2>2. PICK from \in 1 .. Len(Visible), to \in 1 .. Len(Visible) :
                Pick(picked \cup {Visible[i] : i \in from .. to})
        BY <1>13 DEF RangeSelect
    <2>3. {Visible[i] : i \in from .. to} \subseteq Seen
        <3> DEFINE v == Visible
        <3>1. v \in Seq(Flows) /\ ToSet(v) \subseteq Seen
            BY VisibleIsShown
        <3> HIDE DEF v
        <3>2. Len(v) \in Nat /\ \A i \in 1 .. Len(v) : v[i] \in Seen
            BY <3>1, ToSetElements, LenProperties
        <3>3. \A i \in from .. to : i \in 1 .. Len(v)
            BY <3>2 DEF v
        <3> QED BY <3>2, <3>3 DEF v
    <2> QED BY <1>d, <1>13, <2>1, <2>2, <2>3 DEF RangeSelect
<1>14. CASE SelectAllVisible
    BY <1>d, <1>14, VisibleIsShown DEF SelectAllVisible, ViewInv
<1>15. CASE ClearSelection
    BY <1>d, <1>15 DEF ClearSelection, ViewInv
<1>e. ASSUME NEW kind, NEW flows, Post(kind, flows) PROVE ViewInv'
    <2>1. UNCHANGED <<rows, order, selected, picked, detail, behind, lost, meddled>> /\ acts' \in 0 .. MaxActs
        BY <1>e, InspectorAssumption DEF Post, Spend, ViewInv
    <2> QED BY <1>1, <2>1 DEF ViewInv, Shown
<1>16. CASE Mark \/ BatchDelete
    BY <1>e, <1>16 DEF Mark, BatchDelete
<1>17. ASSUME NEW f \in Flows, DeleteFlow(f) PROVE ViewInv'
    BY <1>e, <1>17 DEF DeleteFlow
<1>18. CASE UNCHANGED vars
    BY <1>2, <1>18 DEF vars, page
<1> QED BY <1>3, <1>4, <1>5, <1>6, <1>7, <1>8, <1>9, <1>10, <1>11, <1>12, <1>13, <1>14, <1>15,
           <1>16, <1>17, <1>18 DEF Next, Handle

-----------------------------------------------------------------------------
(* Types.                                                                  *)

Sound == ServerInv /\ WireInv /\ ReqsInv /\ ViewInv

\* Nothing has happened yet.
LEMMA SoundInit == Init => Sound
<1> SUFFICES ASSUME Init PROVE Sound
    OBVIOUS
<1>1. <<>> \in Seq(Flows) /\ Len(<<>>) = 0
    BY EmptySeq
<1>2. Stored = {}
    BY ToSetEmpty DEF Init, Stored
<1>3. ServerInv
    <2>1. /\ list \in Seq(Flows) /\ Len(list) <= MaxFlows /\ Distinct(list)
          /\ ver \in [Flows -> Nat] /\ told \in [Flows -> Nat] /\ copied \subseteq Flows
          /\ changes \in 0 .. MaxChanges /\ loads \in 0 .. MaxLoads
        BY <1>1, InspectorAssumption DEF Init, Distinct
    <2>2. Seen = {}
        BY DEF Init, Seen
    <2> QED BY <1>2, <2>1, <2>2 DEF ServerInv
<1>4. WireInv
    BY EmptySeq, InspectorAssumption DEF Init, WireInv
<1>5. ReqsInv
    BY EmptySeq DEF Init, ReqsInv
<1>6. ViewInv
    <2>1. NoDetail \in [flow : Seen \cup {None}, ver : Nat]
        BY DEF NoDetail
    <2>2. /\ rows \in [Flows -> Nat] /\ Shown = {} /\ order \in Seq(Flows)
          /\ selected = None /\ picked = {} /\ detail = NoDetail
        BY <1>1 DEF Init, Shown
    <2>3. acts \in 0 .. MaxActs
        BY InspectorAssumption DEF Init
    <2>4. behind \in BOOLEAN /\ lost \in BOOLEAN /\ meddled \in BOOLEAN
        BY Zenon DEF Init
    <2> QED BY <2>1, <2>2, <2>3, <2>4 DEF ViewInv
<1> QED BY <1>3, <1>4, <1>5, <1>6 DEF Sound

\* The parts stay what they are.
LEMMA SoundStep == Sound /\ [Next]_vars => Sound'
<1> SUFFICES ASSUME Sound, [Next]_vars PROVE Sound'
    OBVIOUS
<1>1. ServerInv /\ WireInv /\ ReqsInv /\ ViewInv
    BY DEF Sound
<1>2. ServerInv' /\ Onward
    BY <1>1, ServerStep
<1>3. WireInv'
    BY <1>1, <1>2, WireStep
<1>4. ReqsInv'
    BY <1>1, <1>2, ReqsStep
<1>5. ViewInv'
    BY <1>1, <1>2, ViewStep
<1> QED BY <1>2, <1>3, <1>4, <1>5 DEF Sound

\* They are typed.
LEMMA SoundTyped == Sound => TypeOK
<1> SUFFICES ASSUME Sound PROVE TypeOK
    OBVIOUS
<1> USE DEF Sound, ServerInv, WireInv, ReqsInv, ViewInv
<1>1. Seen \subseteq Flows
    BY DEF Seen
<1>2. chan \in Seq(Messages)
    <2>1. Letters(Seen) \subseteq Messages
        BY DEF Letters, Mail
    <2> QED BY <2>1, SeqMonotonic
<1>3. reqs \in Seq(Requests)
    <2>1. Errands(Seen) \subseteq Requests
        BY DEF Errands
    <2> QED BY <2>1, SeqMonotonic
<1>4. detail \in [flow : Flows \cup {None}, ver : Nat]
    BY <1>1
<1> QED BY <1>1, <1>2, <1>3, <1>4 DEF TypeOK

\* TypeOK holds throughout: of the page as of the store, with any number of
\* flows, messages and requests (web/server.ts, web/ui/app.js).
THEOREM InspectorTypeCorrect == Spec => []TypeOK
<1>1. Spec => []Sound
    BY SoundInit, SoundStep, PTL DEF Spec
<1> QED BY <1>1, SoundTyped, PTL

-----------------------------------------------------------------------------
(* The page's list.                                                        *)

\* Requests of which the batch deletions are of the flows of P.
Aimed(P) == {r \in Requests : r.kind = "batch" => r.flows = P}

\* The list and the map agree, and a batch deletion under way is of the flows
\* that are selected, unless the selection changed under one.
ListedInv == ~meddled => Consistent(Page) /\ reqs \in Seq(Aimed(picked))

\* A page stays consistent when the rows of `gone` go, and their places.
LEMMA ConsistentDeleted ==
    ASSUME ViewInv, Consistent(Page), NEW gone, TakeRows(gone),
           order' = Only(order, Flows \ gone)
    PROVE  Consistent(Page)'
<1>1. Distinct(order) /\ ToSet(order) = {f \in Flows : rows[f] > 0}
    BY DEF Consistent, Page
<1>2. Distinct(order') /\ ToSet(order') = ToSet(order) \cap (Flows \ gone)
    BY <1>1, DeletedOrder
<1>3. ToSet(order') = {f \in Flows : rows'[f] > 0}
    BY <1>1, <1>2 DEF TakeRows
<1> QED BY <1>2, <1>3 DEF Consistent, Page

\* With no batch deletion under way, every request is aimed at anything.
LEMMA NotDeleting ==
    ASSUME ReqsInv, ~Deleting, NEW P
    PROVE  reqs \in Seq(Aimed(P))
<1> DEFINE E == Errands(Seen)
<1>1. reqs \in [1 .. Len(reqs) -> E] /\ Len(reqs) \in Nat
    BY LenProperties DEF ReqsInv
<1>2. \A i \in 1 .. Len(reqs) : reqs[i] \in Aimed(P)
    BY <1>1 DEF Errands, Aimed, Deleting
<1> HIDE DEF E
<1>3. reqs \in [1 .. Len(reqs) -> Aimed(P)]
    BY <1>1, <1>2
<1> QED BY <1>1, <1>3, FunctionIsSeq

\* A request of another kind joins the others.
LEMMA AimedAppend ==
    ASSUME NEW P, NEW u \in Seq(Aimed(P)), NEW kind \in {"detail", "mark", "delete", "batch"},
           NEW flows \in SUBSET Flows, kind = "batch" => flows = P
    PROVE  Append(u, Request(kind, flows)) \in Seq(Aimed(P))
<1> DEFINE r == Request(kind, flows)
<1>1. r \in Aimed(P)
    BY DEF Aimed, Request, Requests
<1> HIDE DEF r
<1>2. Append(u, r) \in Seq(Aimed(P))
    BY <1>1, AppendProperties
<1> QED BY <1>2 DEF r

\* Every step keeps the list.
LEMMA ListedStep ==
    ASSUME Sound, ListedInv, [Next]_vars
    PROVE  ListedInv'
<1> DEFINE A == Aimed(picked)
<1>1. ServerInv /\ WireInv /\ ReqsInv /\ ViewInv
    BY DEF Sound
<1>2. A \subseteq Requests /\ Seen \subseteq Flows
    BY DEF Aimed, Seen
<1>3. ~meddled => Consistent(Page) /\ reqs \in Seq(A)
    BY DEF ListedInv
<1> HIDE DEF A
<1>a. ASSUME NEW i \in 1 .. Len(reqs)
      PROVE  reqs[i] \in Requests /\ (reqs[i].kind # "batch" => \E f \in Seen : reqs[i].flows = {f})
    <2>1. reqs[i] \in Errands(Seen)
        BY <1>1, ElementOfSeq DEF ReqsInv
    <2> QED BY <2>1 DEF Errands
<1>b. ASSUME NEW i \in 1 .. Len(reqs), reqs \in Seq(A) PROVE Settle(i) \in Seq(A)
    BY <1>b, SettleProperties
<1>c. ASSUME UNCHANGED <<rows, order, picked, meddled>>, reqs \in Seq(A) => reqs' \in Seq(A)
      PROVE  ListedInv'
    BY <1>3, <1>c DEF ListedInv, A, Page, Consistent
<1>4. CASE UNCHANGED <<page, reqs>>
    BY <1>c, <1>4 DEF page
<1>d. ASSUME NEW i \in 1 .. Len(reqs), NEW v \in Nat, Answered(i, v), UNCHANGED page
      PROVE  ListedInv'
    <2>1. ASSUME reqs \in Seq(A) PROVE reqs' \in Seq(A)
        <3>1. \A j \in 1 .. Len(reqs) : reqs[j] \in A
            BY <2>1, ElementOfSeq
        <3>2. [kind |-> reqs[i].kind, flows |-> reqs[i].flows, answered |-> TRUE, ver |-> v] \in A
            BY <3>1 DEF A, Aimed, Requests
        <3> QED BY <1>2, <1>d, <2>1, <3>1, <3>2, AnsweredProperties
    <2> QED BY <1>c, <1>d, <2>1 DEF page
<1>5. ASSUME NEW f \in Flows, Add(f) \/ Touch(f) \/ Announce(f) \/ Change(f) \/ RemoveFlow(f)
      PROVE  ListedInv'
    BY <1>4, <1>5 DEF Add, Touch, Announce, AnnounceAs, Change, RemoveFlow
<1>6. CASE \/ Clear \/ Resize \/ \E flows \in SUBSET Seen : LoadSession(flows)
           \/ Connect("unopened") \/ Connect("down") \/ Drop
    BY <1>4, <1>6 DEF Clear, Resize, LoadSession, Connect, Drop
<1>7. ASSUME NEW i \in 1 .. Len(reqs), Serve(i) PROVE ListedInv'
    <2>1. PICK v \in Nat : Answered(i, v)
        BY <1>1, <1>7 DEF Serve, ServeDetail, ServeMark, ServeDelete, ServerInv, Seen
    <2>2. UNCHANGED page
        BY <1>7 DEF Serve, ServeDetail, ServeMark, ServeDelete
    <2> QED BY <1>d, <2>1, <2>2
<1>8. CASE Deliver
    <2>1. /\ Page \in Pages /\ Head(chan) \in Mail /\ Page' = Handled(Page, Head(chan))
          /\ UNCHANGED picked
        BY <1>1, <1>8, DeliverPage
    <2>2. Consistent(Page) \/ Reset(Head(chan)) => Consistent(Page)'
        <3> DEFINE m == Head(chan)
        <3>1. m \in Mail
            BY <2>1
        <3> HIDE DEF m
        <3>2. Consistent(Page) \/ Reset(m) => Consistent(Handled(Page, m))
            BY <2>1, <3>1, HandledProperties
        <3>3. Consistent(Page)' = Consistent(Page')
            BY DEF Consistent
        <3> QED BY <2>1, <3>2, <3>3 DEF m
    <2>3. CASE HandleSnapshot \/ HandleClear
        <3>1. Reset(Head(chan)) /\ meddled' = (meddled /\ Deleting) /\ UNCHANGED reqs
            BY <2>3 DEF HandleSnapshot, HandleClear, Receive, Reset
        <3> SUFFICES ASSUME ~meddled' PROVE reqs \in Seq(A)
            BY <2>1, <2>2, <3>1 DEF ListedInv, A
        <3>2. CASE ~meddled
            BY <1>3, <3>2
        <3>3. CASE ~Deleting
            BY <1>1, <3>3, NotDeleting DEF A
        <3> QED BY <3>1, <3>2, <3>3
    <2>4. CASE HandleAdd \/ HandleRemoved
        <3>1. UNCHANGED <<reqs, meddled>>
            BY <2>4 DEF HandleAdd, HandleRemoved, page
        <3> QED BY <1>3, <2>1, <2>2, <3>1 DEF ListedInv, A
    <2>5. CASE HandleUpdate
        <3> DEFINE f == Head(chan).flows[1].flow
        <3>1. UNCHANGED meddled /\ (reqs' = reqs \/ reqs' = Append(reqs, Request("detail", {f})))
            BY <2>5 DEF HandleUpdate, Ask
        <3>2. f \in Flows
            BY <1>1, <1>2, <2>5, HeadIsLetter DEF HandleUpdate, Receive
        <3> HIDE DEF f
        <3>3. ASSUME reqs \in Seq(A) PROVE reqs' \in Seq(A)
            <4> DEFINE one == {f}
            <4>1. one \in SUBSET Flows
                BY <3>2
            <4> HIDE DEF one
            <4>2. Append(reqs, Request("detail", one)) \in Seq(A)
                BY <3>3, <4>1, AimedAppend DEF A
            <4> QED BY <3>1, <3>3, <4>2 DEF one
        <3> QED BY <1>3, <2>1, <2>2, <3>1, <3>3 DEF ListedInv, A
    <2> QED BY <1>8, <2>3, <2>4, <2>5 DEF Deliver
<1>e. ASSUME NEW u, NEW f \in Flows, u \in Seq(A)
      PROVE  Append(u, Request("detail", {f})) \in Seq(A)
    <2> DEFINE one == {f}
    <2>1. one \in SUBSET Flows
        OBVIOUS
    <2> HIDE DEF one
    <2>2. Append(u, Request("detail", one)) \in Seq(A)
        BY <1>e, <2>1, AimedAppend DEF A
    <2> QED BY <2>2 DEF one
<1>9. ASSUME NEW i \in 1 .. Len(reqs), HandleDetail(i) PROVE ListedInv'
    BY <1>b, <1>c, <1>9 DEF HandleDetail
<1>10. ASSUME NEW i \in 1 .. Len(reqs), HandleMarked(i) PROVE ListedInv'
    <2> DEFINE f == CHOOSE g \in reqs[i].flows : TRUE
    <2>1. UNCHANGED <<rows, order, picked, meddled>> /\ reqs' = Append(Settle(i), Request("detail", {f}))
        BY <1>10 DEF HandleMarked, Ask
    <2>2. f \in Flows
        BY <1>2, <1>a, <1>10 DEF HandleMarked
    <2> HIDE DEF f
    <2>3. ASSUME reqs \in Seq(A) PROVE reqs' \in Seq(A)
        <3> DEFINE u == Settle(i)
        <3>1. u \in Seq(A)
            BY <1>b, <2>3
        <3> HIDE DEF u
        <3>2. Append(u, Request("detail", {f})) \in Seq(A)
            BY <1>e, <2>2, <3>1
        <3> QED BY <2>1, <3>2 DEF u
    <2> QED BY <1>c, <2>1, <2>3
<1>11. ASSUME NEW i \in 1 .. Len(reqs), HandleDeleted(i) PROVE ListedInv'
    <2> SUFFICES ASSUME ~meddled' PROVE Consistent(Page)' /\ reqs' \in Seq(Aimed(picked'))
        BY DEF ListedInv
    <2>1. ~meddled /\ picked' = picked /\ reqs' = Settle(i)
        BY <1>11 DEF HandleDeleted
    <2>2. TakeRows(reqs[i].flows) /\ order' = Only(order, Flows \ reqs[i].flows)
        BY <1>11 DEF HandleDeleted
    <2>3. Consistent(Page)'
        BY <1>1, <1>3, <2>1, <2>2, ConsistentDeleted
    <2> QED BY <1>3, <1>b, <2>1, <2>3 DEF A
<1>12. ASSUME NEW i \in 1 .. Len(reqs), HandleBatchDeleted(i) PROVE ListedInv'
    <2> SUFFICES ASSUME ~meddled' PROVE Consistent(Page)' /\ reqs' \in Seq(Aimed(picked'))
        BY DEF ListedInv
    <2>1. /\ ~meddled /\ \A j \in 1 .. Len(reqs) : j # i => reqs[j].kind # "batch"
          /\ reqs' = Settle(i) /\ reqs[i].kind = "batch"
        BY <1>12 DEF HandleBatchDeleted
    <2>2. reqs[i].flows = picked
        <3>1. reqs[i] \in A
            BY <1>3, <2>1, ElementOfSeq
        <3> QED BY <2>1, <3>1 DEF A, Aimed
    <2>3. TakeRows(picked) /\ order' = Only(order, Flows \ picked)
        BY <1>12, <2>2 DEF HandleBatchDeleted
    <2>4. Consistent(Page)'
        BY <1>1, <1>3, <2>1, <2>3, ConsistentDeleted
    <2>5. \A j \in 1 .. Len(reqs) : j # i => reqs[j] \in Aimed(picked')
        BY <1>a, <2>1 DEF Aimed
    <2>6. reqs' \in Seq(Aimed(picked'))
        <3> DEFINE F == Aimed(picked')
        <3>1. \A j \in 1 .. Len(reqs) : j # i => reqs[j] \in F
            BY <2>5
        <3> HIDE DEF F
        <3>2. Settle(i) \in Seq(F)
            BY <1>3, <2>1, <3>1, SettleLeaves
        <3> QED BY <2>1, <3>2 DEF F
    <2> QED BY <2>4, <2>6
<1>f. ASSUME NEW flows, Pick(flows), UNCHANGED <<rows, order>>,
             \A P : reqs \in Seq(Aimed(P)) => reqs' \in Seq(Aimed(P))
      PROVE  ListedInv'
    <2> SUFFICES ASSUME ~meddled' PROVE Consistent(Page)' /\ reqs' \in Seq(Aimed(picked'))
        BY DEF ListedInv
    <2>1. ~meddled /\ picked' = flows /\ (~Deleting \/ flows = picked)
        BY <1>f DEF Pick
    <2>2. Consistent(Page)'
        BY <1>3, <1>f, <2>1 DEF Consistent, Page
    <2>3. CASE ~Deleting
        BY <1>1, <1>f, <2>1, <2>2, <2>3, NotDeleting
    <2>4. CASE flows = picked
        BY <1>3, <1>f, <2>1, <2>2, <2>4 DEF A
    <2> QED BY <2>1, <2>3, <2>4
<1>13. ASSUME NEW f \in Flows, Click(f) PROVE ListedInv'
    <2>1. Pick({}) /\ UNCHANGED <<rows, order>> /\ reqs' = Append(reqs, Request("detail", {f}))
        BY <1>13 DEF Click, Ask
    <2>2. ASSUME NEW P, reqs \in Seq(Aimed(P)) PROVE reqs' \in Seq(Aimed(P))
        <3> DEFINE one == {f}
        <3>1. one \in SUBSET Flows
            OBVIOUS
        <3> HIDE DEF one
        <3>2. Append(reqs, Request("detail", one)) \in Seq(Aimed(P))
            BY <2>2, <3>1, AimedAppend
        <3> QED BY <2>1, <3>2 DEF one
    <2> QED BY <1>f, <2>1, <2>2
<1>14. ASSUME NEW f \in Flows, Toggle(f) \/ RangeSelect(f) PROVE ListedInv'
    BY <1>f, <1>14 DEF Toggle, RangeSelect
<1>15. CASE SelectAllVisible \/ ClearSelection
    BY <1>f, <1>15 DEF SelectAllVisible, ClearSelection
<1>g. ASSUME NEW kind \in {"mark", "delete", "batch"}, NEW flows \in SUBSET Flows,
             kind = "batch" => flows = picked, Post(kind, flows)
      PROVE  ListedInv'
    <2>1. UNCHANGED <<rows, order, picked, meddled>> /\ reqs' = Append(reqs, Request(kind, flows))
        BY <1>g DEF Post
    <2>2. ASSUME reqs \in Seq(A) PROVE reqs' \in Seq(A)
        BY <1>g, <2>1, <2>2, AimedAppend DEF A
    <2> QED BY <1>c, <2>1, <2>2
<1>16. CASE Mark
    <2>1. detail.flow \in Flows
        BY <1>1, <1>2, <1>16 DEF Mark, ViewInv
    <2> QED BY <1>g, <1>16, <2>1 DEF Mark
<1>17. ASSUME NEW f \in Flows, DeleteFlow(f) PROVE ListedInv'
    BY <1>g, <1>17 DEF DeleteFlow
<1>18. CASE BatchDelete
    <2>1. picked \in SUBSET Flows
        BY <1>1, <1>2 DEF ViewInv
    <2> QED BY <1>g, <1>18, <2>1 DEF BatchDelete
<1>19. CASE UNCHANGED vars
    BY <1>4, <1>19 DEF vars, page
<1> QED BY <1>5, <1>6, <1>7, <1>8, <1>9, <1>10, <1>11, <1>12, <1>13, <1>14, <1>15, <1>16, <1>17,
           <1>18, <1>19 DEF Next, Handle

\* A list with nothing twice is as long as the set of what it lists.
LEMMA DistinctCardinality ==
    ASSUME NEW E, NEW s \in Seq(E), Distinct(s)
    PROVE  Len(s) = Cardinality(ToSet(s))
<1> DEFINE n == Len(s)
<1>1. n \in Nat /\ s \in [1 .. n -> ToSet(s)]
      /\ \A x \in ToSet(s) : \E i \in 1 .. n : s[i] = x
    BY LenProperties, ToSetElements
<1> HIDE DEF n
<1>2. \A j, k \in 1 .. n : s[j] = s[k] => j = k
    BY DEF Distinct, n
<1>3. s \in Bijection(1 .. n, ToSet(s))
    BY <1>1, <1>2 DEF Bijection, Injection, IsInjective, Surjection
<1>4. ExistsBijection(1 .. n, ToSet(s))
    BY <1>3 DEF ExistsBijection
<1>5. Cardinality(ToSet(s)) = n
    BY <1>1, <1>4, FS_CountingElements
<1> QED BY <1>5 DEF n

\* RowsListed holds throughout: no sequence of messages, answers and selections,
\* however long, makes the list of a page that was not meddled with disagree
\* with its map (app.js:46-75, 327-328, 551-557).
THEOREM InspectorRowsListed == Spec => []RowsListed
<1>1. Init => ListedInv
    <2> SUFFICES ASSUME Init PROVE ListedInv
        OBVIOUS
    <2>1. Page = Blank
        BY DEF Init, Page, Blank
    <2>2. reqs \in Seq(Aimed(picked))
        BY EmptySeq DEF Init
    <2> QED BY <2>1, <2>2, BlankProperties DEF ListedInv
<1>2. Sound /\ ListedInv => RowsListed
    <2> SUFFICES ASSUME Sound, ListedInv, ~meddled
                 PROVE  ToSet(order) = Shown /\ Len(order) = Cardinality(Shown)
        BY DEF RowsListed
    <2>1. Distinct(order) /\ ToSet(order) = Shown
        BY DEF ListedInv, Consistent, Page, Shown
    <2>2. order \in Seq(Flows)
        BY DEF Sound, ViewInv
    <2>3. Len(order) = Cardinality(ToSet(order))
        BY <2>1, <2>2, DistinctCardinality
    <2> QED BY <2>1, <2>3
<1>3. Sound /\ ListedInv /\ [Next]_vars => ListedInv'
    BY ListedStep
<1> QED BY <1>1, <1>2, <1>3, SoundInit, SoundStep, PTL DEF Spec

-----------------------------------------------------------------------------
(* The page and the store.                                                 *)

\* The page p shows of each flow of the list l one of the contents in G, and, if
\* it is to be exact, the flows in their order.
Mirrors(p, l, G, exact) ==
    /\ \A f \in ToSet(l) : p.rows[f] \in G[f]
    /\ exact => Only(p.order, ToSet(l)) = l

\* What the page may show of each flow.
Goods == [f \in Flows |-> Current(f)]

\* It may show no row of no flow, and the store's own content of each.
LEMMA GoodsProperties ==
    ASSUME ServerInv
    PROVE  /\ \A f \in Stored : f \in Flows /\ 0 \notin Goods[f] /\ ver[f] \in Goods[f]
           /\ \A f \in Flows : Goods[f] = Current(f)
<1>1. \A f \in Flows : Goods[f] = Current(f)
    BY DEF Goods
<1>2. ASSUME NEW f \in Stored PROVE f \in Flows /\ 0 \notin Goods[f] /\ ver[f] \in Goods[f]
    <2>1. f \in Seen /\ f \in Flows /\ ver[f] \in Nat /\ told[f] \in Nat /\ ver[f] > 0
        BY DEF ServerInv, Seen
    <2>2. told[f] > 0
        BY <2>1 DEF ServerInv
    <2>3. 0 \notin Current(f) /\ ver[f] \in Current(f)
        BY <2>1, <2>2 DEF Current
    <2> QED BY <1>1, <2>1, <2>3
<1> QED BY <1>1, <1>2

\* It does so of a part of the list.
LEMMA MirrorsPart ==
    ASSUME NEW p \in Pages, NEW l \in Seq(Flows), NEW G, NEW e, Mirrors(p, l, G, e),
           NEW k, Part(k, l)
    PROVE  Mirrors(p, k, G, e)
<1> DEFINE U == ToSet(l)
           T == ToSet(k)
           o == p.order
<1>1. T \in SUBSET U /\ Only(l, T) = k
    BY DEF Part
<1>2. o \in Seq(Flows)
    BY DEF Pages
<1>3. e => Only(o, U) = l
    BY DEF Mirrors
<1>4. \A f \in T : p.rows[f] \in G[f]
    BY <1>1 DEF Mirrors
<1> HIDE DEF T, U, o
<1>5. Only(Only(o, U), T) = Only(o, T)
    BY <1>1, <1>2, OnlyOnly
<1>6. e => Only(o, T) = k
    BY <1>1, <1>3, <1>5
<1> QED BY <1>4, <1>6 DEF Mirrors, T, o

\* A page that hears of a new flow has it at the end of its list.
LEMMA MirrorsAdded ==
    ASSUME NEW p \in Pages, NEW l \in Seq(Flows), NEW G, NEW H, NEW e \in BOOLEAN,
           Mirrors(p, l, G, e), e => Consistent(p),
           NEW f \in Flows, f \notin ToSet(l), p.rows[f] = 0,
           1 \in H[f], \A g \in ToSet(l) : H[g] = G[g]
    PROVE  Mirrors(Added(p, [flow |-> f, ver |-> 1]), Append(l, f), H, e)
<1> DEFINE q == Added(p, [flow |-> f, ver |-> 1])
           U == ToSet(l)
           T == U \cup {f}
           o == p.order
<1>1. ToSet(Append(l, f)) = T
    BY ToSetAppend
<1>2. o \in Seq(Flows) /\ p.rows \in [Flows -> Nat]
    BY DEF Pages
<1>3. q.rows = [p.rows EXCEPT ![f] = 1] /\ q.order = Append(o, f)
    BY DEF Added
<1>4. \A g \in T : q.rows[g] \in H[g]
    <2>1. U \subseteq Flows /\ \A g \in U : p.rows[g] \in H[g]
        BY ToSetElements DEF Mirrors
    <2> HIDE DEF q, U
    <2> QED BY <1>2, <1>3, <2>1
<1>5. ASSUME e PROVE Only(q.order, T) = Append(l, f)
    <2>1. f \notin ToSet(o) /\ Only(o, U) = l
        BY <1>5 DEF Mirrors, Consistent
    <2>2. \A i \in 1 .. Len(o) : o[i] \in T <=> o[i] \in U
        <3>1. \A i \in 1 .. Len(o) : o[i] \in ToSet(o)
            BY <1>2, ToSetElements
        <3> QED BY <2>1, <3>1
    <2>3. f \in T
        OBVIOUS
    <2> HIDE DEF T, U, o
    <2>4. Only(o, T) = l
        BY <1>2, <2>1, <2>2, OnlySame
    <2>5. Only(Append(o, f), T) = Append(Only(o, T), f)
        BY <1>2, <2>3, OnlyAppend
    <2> QED BY <1>3, <2>4, <2>5
<1> HIDE DEF T, q
<1>6. Mirrors(q, Append(l, f), H, e)
    BY <1>1, <1>4, <1>5 DEF Mirrors
<1> QED BY <1>6 DEF q

\* A page that hears of a change shows what was said.
LEMMA MirrorsChanged ==
    ASSUME NEW p \in Pages, NEW l \in Seq(Flows), NEW G, NEW H, NEW e \in BOOLEAN,
           Mirrors(p, l, G, e), \A g \in ToSet(l) : 0 \notin G[g],
           NEW f \in Flows, NEW n \in Nat, n \in H[f], \A g \in ToSet(l) \ {f} : H[g] = G[g]
    PROVE  Mirrors(Added(p, [flow |-> f, ver |-> n]), l, H, e)
<1> DEFINE q == Added(p, [flow |-> f, ver |-> n])
           U == ToSet(l)
           o == p.order
<1>1. o \in Seq(Flows) /\ p.rows \in [Flows -> Nat] /\ U \subseteq Flows
    BY ToSetElements DEF Pages
<1>2. /\ q.rows = [p.rows EXCEPT ![f] = n]
      /\ q.order = IF p.rows[f] = 0 THEN Append(o, f) ELSE o
    BY DEF Added
<1>3. \A g \in U : p.rows[g] \in G[g] /\ 0 \notin G[g]
    BY DEF Mirrors
<1>4. \A g \in U \ {f} : H[g] = G[g]
    OBVIOUS
<1> HIDE DEF q, U
<1>5. ASSUME NEW g \in U PROVE q.rows[g] \in H[g]
    <2>1. CASE g = f
        BY <1>1, <1>2, <2>1
    <2>2. CASE g # f
        <3>1. q.rows[g] = p.rows[g]
            BY <1>1, <1>2, <2>2
        <3> QED BY <1>3, <1>4, <2>2, <3>1
    <2> QED BY <2>1, <2>2
<1>6. ASSUME e PROVE Only(q.order, U) = l
    <2>1. Only(o, U) = l
        BY <1>6 DEF Mirrors, U
    <2>2. CASE p.rows[f] = 0
        <3>1. f \notin U
            BY <1>3, <2>2
        <3> HIDE DEF o
        <3>2. Only(Append(o, f), U) = Only(o, U)
            BY <1>1, <3>1, OnlyAppend
        <3> QED BY <1>2, <2>1, <2>2, <3>2
    <2>3. CASE p.rows[f] # 0
        BY <1>2, <2>1, <2>3
    <2> QED BY <2>2, <2>3
<1>7. Mirrors(q, l, H, e)
    BY <1>5, <1>6 DEF Mirrors, U
<1> QED BY <1>7 DEF q

\* The page lists these flows, with these contents.
Lists(p, u, w) == p.order = u /\ \A f \in ToSet(u) : p.rows[f] = w[f]

\* A page that shows nothing has the flows of a session when it has heard of them.
LEMMA LoadedPage ==
    ASSUME NEW p \in Pages, NEW c \in Seq(Mail), After(p, c) = Blank,
           NEW w \in [Flows -> Nat \ {0}], NEW u \in Seq(Flows), Distinct(u)
    PROVE  Lists(After(p, c \o Adds(u, w)), u, w)
<1> DEFINE Told(v) == After(p, c \o Adds(v, w))
           Shows(v) == /\ Told(v).order = v
                       /\ \A f \in Flows : Told(v).rows[f] = IF f \in ToSet(v) THEN w[f] ELSE 0
           P == {v \in Seq(Flows) : Distinct(v) => Shows(v)}
<1>a. ASSUME NEW v \in Seq(Flows) PROVE Adds(v, w) \in Seq(Mail) /\ Len(Adds(v, w)) = Len(v)
    <2>1. ToSet(v) \subseteq Flows
        BY ToSetElements
    <2>2. Adds(v, w) \in Seq(Letters(Flows)) /\ Len(Adds(v, w)) = Len(v)
        BY <2>1, AddsAreLetters
    <2>3. Letters(Flows) \subseteq Mail
        BY DEF Letters
    <2> QED BY <2>2, <2>3, SeqMonotonic
<1>1. <<>> \in P
    <2>1. <<>> \in Seq(Flows) /\ Len(<<>>) = 0
        BY EmptySeq
    <2>2. Adds(<<>>, w) = <<>>
        BY <1>a, <2>1, EmptySeq
    <2>3. c \o <<>> = c
        BY ConcatEmptySeq
    <2>4. Told(<<>>) = Blank
        BY <2>2, <2>3
    <2> HIDE DEF Told
    <2>5. Shows(<<>>)
        BY <2>4, ToSetEmpty DEF Blank
    <2> QED BY <2>1, <2>5
<1>2. ASSUME NEW v \in P, NEW f \in Flows PROVE Append(v, f) \in P
    <2> DEFINE t == Append(v, f)
               a == Adds(v, w)
               m == News("add", f, w[f])
               q == Told(v)
    <2>0. v \in Seq(Flows) /\ (Distinct(v) => Shows(v))
        OBVIOUS
    <2> HIDE DEF P
    <2>1. /\ t \in Seq(Flows) /\ Len(t) = Len(v) + 1 /\ Len(v) \in Nat
          /\ \A i \in 1 .. Len(v) : t[i] = v[i]
          /\ t[Len(v) + 1] = f
        BY <2>0, AppendProperties, LenProperties
    <2> SUFFICES ASSUME Distinct(t) PROVE Shows(t)
        BY <2>1 DEF P
    <2>2. Distinct(v) /\ f \notin ToSet(v)
        <3> HIDE DEF t
        <3>1. \A j \in 1 .. Len(v) : j \in 1 .. Len(t) /\ j # Len(v) + 1
            BY <2>1
        <3>2. Len(v) + 1 \in 1 .. Len(t)
            BY <2>1
        <3>3. ASSUME NEW j \in 1 .. Len(v), NEW k \in 1 .. Len(v), v[j] = v[k] PROVE j = k
            BY <2>1, <3>1, <3>3 DEF Distinct
        <3>4. ASSUME NEW i \in 1 .. Len(v) PROVE v[i] # f
            BY <2>1, <3>1, <3>2 DEF Distinct
        <3> QED BY <2>0, <3>3, <3>4, ToSetElements DEF Distinct
    <2>3. ToSet(t) = ToSet(v) \cup {f}
        BY <2>0, ToSetAppend
    <2>4. w[f] \in Nat \ {0} /\ m \in Mail /\ a \in Seq(Mail) /\ Len(a) = Len(v)
        <3>1. w[f] \in Nat \ {0}
            OBVIOUS
        <3>2. m \in Letters(Flows)
            BY <3>1, NewsIsLetter
        <3> QED BY <1>a, <2>0, <3>1, <3>2 DEF Letters
    <2>5. Adds(t, w) = Append(a, m)
        <3> DEFINE b == Append(a, m)
        <3>1. Adds(t, w) \in Seq(Mail) /\ Len(Adds(t, w)) = Len(v) + 1
            BY <1>a, <2>1
        <3>2. /\ b \in Seq(Mail) /\ Len(b) = Len(v) + 1
              /\ \A i \in 1 .. Len(v) : b[i] = a[i]
              /\ b[Len(v) + 1] = m
            <4> HIDE DEF a, m
            <4> QED BY <2>4, AppendProperties
        <3>3. \A i \in 1 .. Len(v) : a[i] = News("add", v[i], w[v[i]])
            BY DEF Adds
        <3>4. \A i \in 1 .. Len(v) + 1 : Adds(t, w)[i] = News("add", t[i], w[t[i]])
            BY <2>1 DEF Adds
        <3> DEFINE d == Adds(t, w)
        <3> HIDE DEF b, a, d
        <3>5. \A i \in 1 .. Len(v) + 1 : d[i] = b[i]
            <4> SUFFICES ASSUME NEW i \in 1 .. Len(v) + 1 PROVE d[i] = b[i]
                OBVIOUS
            <4>1. CASE i \in 1 .. Len(v)
                BY <2>1, <3>2, <3>3, <3>4, <4>1 DEF d
            <4>2. CASE i = Len(v) + 1
                BY <2>1, <3>2, <3>4, <4>2 DEF d
            <4> QED BY <2>1, <4>1, <4>2
        <3>6. d = b
            BY <3>1, <3>2, <3>5, SeqEqual DEF d
        <3> QED BY <3>6 DEF d, b, a
    <2>6. Told(t) = Handled(q, m) /\ q \in Pages
        <3> HIDE DEF a, m
        <3>1. c \o Append(a, m) = Append(c \o a, m)
            BY <2>4, AppendToConcat
        <3>2. c \o a \in Seq(Mail)
            BY <2>4, ConcatProperties
        <3> DEFINE b == c \o a
        <3>3. b \in Seq(Mail)
            BY <3>2
        <3> HIDE DEF b
        <3>4. After(p, Append(b, m)) = Handled(After(p, b), m) /\ After(p, b) \in Pages
            BY <2>4, <3>3, AfterAppend, AfterType
        <3> QED BY <2>5, <3>1, <3>4 DEF b, a
    <2>7. q.order = v /\ \A g \in Flows : q.rows[g] = IF g \in ToSet(v) THEN w[g] ELSE 0
        BY <2>0, <2>2
    <2>8. Handled(q, m) = Added(q, [flow |-> f, ver |-> w[f]])
        BY DEF Handled, News
    <2> HIDE DEF Told, q, m
    <2>9. q.rows \in [Flows -> Nat] /\ q.rows[f] = 0
        BY <2>2, <2>6, <2>7 DEF Pages
    <2>10. Told(t).rows = [q.rows EXCEPT ![f] = w[f]] /\ Told(t).order = Append(v, f)
        BY <2>6, <2>7, <2>8, <2>9 DEF Added
    <2> HIDE DEF t
    <2>11. \A g \in Flows : Told(t).rows[g] = IF g \in ToSet(t) THEN w[g] ELSE 0
        BY <2>3, <2>7, <2>9, <2>10
    <2> QED BY <2>10, <2>11 DEF t
<1>3. P = Seq(Flows)
    <2>1. P \in SUBSET Seq(Flows) OBVIOUS
    <2> HIDE DEF P
    <2> QED BY <1>1, <1>2, <2>1, SeqSetInduction
<1>4. Shows(u)
    BY <1>3
<1>5. ToSet(u) \subseteq Flows
    BY ToSetElements
<1> HIDE DEF Told
<1>6. Lists(Told(u), u, w)
    BY <1>4, <1>5 DEF Lists
<1> QED BY <1>6 DEF Told

\* A page that differs in flows that are not listed does as well.
LEMMA MirrorsAlike ==
    ASSUME NEW gone, NEW p \in Pages, NEW q \in Pages, Alike(gone, p, q),
           NEW l \in Seq(Flows), NEW G, NEW e, Mirrors(p, l, G, e), gone \cap ToSet(l) = {}
    PROVE  Mirrors(q, l, G, e)
<1> DEFINE U == ToSet(l)
           T == Flows \ gone
           o == p.order
           r == q.order
<1>1. U \in SUBSET T
    BY ToSetElements
<1>2. o \in Seq(Flows) /\ r \in Seq(Flows)
    BY DEF Pages
<1>3. Only(o, T) = Only(r, T) /\ (e => Only(o, U) = l)
    BY DEF Alike, Mirrors
<1>4. \A f \in U : q.rows[f] \in G[f]
    BY <1>1 DEF Alike, Mirrors
<1> HIDE DEF T, U, o, r
<1>5. Only(Only(o, T), U) = Only(o, U)
    BY <1>1, <1>2, OnlyOnly
<1>6. Only(Only(r, T), U) = Only(r, U)
    BY <1>1, <1>2, OnlyOnly
<1>7. e => Only(r, U) = l
    BY <1>3, <1>5, <1>6
<1> QED BY <1>4, <1>7 DEF Mirrors, U, r

\* The rows of a page depend on the rows it had, not on the order.
RowsAlike(gone, p, q) == \A f \in Flows \ gone : p.rows[f] = q.rows[f]

\* They still do when it has handled messages.
LEMMA AfterRowsAlike ==
    ASSUME NEW gone, NEW p \in Pages, NEW q \in Pages, RowsAlike(gone, p, q), NEW u \in Seq(Mail)
    PROVE  RowsAlike(gone, After(p, u), After(q, u))
<1> DEFINE P == {v \in Seq(Mail) : RowsAlike(gone, After(p, v), After(q, v))}
<1>1. <<>> \in P
    <2>1. <<>> \in Seq(Mail)
        BY EmptySeq
    <2>2. After(p, <<>>) = p /\ After(q, <<>>) = q
        BY AfterNothing
    <2> QED BY <2>1, <2>2
<1>2. ASSUME NEW v \in P, NEW m \in Mail PROVE Append(v, m) \in P
    <2>1. Append(v, m) \in Seq(Mail)
        BY AppendProperties
    <2>2. After(p, Append(v, m)) = Handled(After(p, v), m)
        BY AfterAppend
    <2>3. After(q, Append(v, m)) = Handled(After(q, v), m)
        BY AfterAppend
    <2> DEFINE p1 == After(p, v)
               q1 == After(q, v)
    <2>4. p1 \in Pages
        BY AfterType
    <2>5. q1 \in Pages
        BY AfterType
    <2>6. RowsAlike(gone, p1, q1)
        OBVIOUS
    <2> HIDE DEF p1, q1
    <2>7. RowsAlike(gone, Handled(p1, m), Handled(q1, m))
        <3>1. m.type \in {"snapshot", "add", "update", "removed", "clear"}
            BY DEF Mail, Messages
        <3>2. CASE m.type \in {"snapshot", "clear", "removed"}
            BY <2>6, <3>2 DEF Handled, RowsAlike
        <3>3. CASE m.type \in {"add", "update"}
            <4>1. /\ Handled(p1, m).rows = [p1.rows EXCEPT ![m.flows[1].flow] = m.flows[1].ver]
                  /\ Handled(q1, m).rows = [q1.rows EXCEPT ![m.flows[1].flow] = m.flows[1].ver]
                BY <3>3 DEF Handled, Added
            <4>2. p1.rows \in [Flows -> Nat] /\ q1.rows \in [Flows -> Nat]
                BY <2>4, <2>5 DEF Pages
            <4> QED BY <2>6, <4>1, <4>2 DEF RowsAlike
        <3> QED BY <3>1, <3>2, <3>3
    <2> QED BY <2>1, <2>2, <2>3, <2>7 DEF p1, q1
<1>3. P = Seq(Mail)
    <2>1. P \in SUBSET Seq(Mail) OBVIOUS
    <2> HIDE DEF P
    <2> QED BY <1>1, <1>2, <2>1, SeqSetInduction
<1> QED BY <1>3

\* "removed" resets nothing, however many come.
LEMMA ResetsRemoved ==
    ASSUME NEW u \in Seq(Mail), NEW v \in Seq(Mail),
           \A i \in 1 .. Len(v) : v[i].type = "removed"
    PROVE  Resets(u \o v) <=> Resets(u)
<1> DEFINE w == u \o v
<1>1. /\ Len(u) \in Nat /\ Len(v) \in Nat /\ Len(w) = Len(u) + Len(v)
      /\ \A i \in 1 .. Len(u) + Len(v) : w[i] = IF i <= Len(u) THEN u[i] ELSE v[i - Len(u)]
    BY ConcatProperties, LenProperties
<1> HIDE DEF w
<1>2. ASSUME NEW i \in 1 .. Len(w), Reset(w[i]) PROVE Resets(u)
    <2>1. CASE i <= Len(u)
        <3>1. i \in 1 .. Len(u) /\ w[i] = u[i]
            BY <1>1, <2>1
        <3> QED BY <1>2, <3>1 DEF Resets
    <2>2. CASE ~(i <= Len(u))
        <3>1. i - Len(u) \in 1 .. Len(v) /\ w[i] = v[i - Len(u)]
            BY <1>1, <2>2
        <3>2. w[i].type = "removed"
            BY <3>1
        <3> QED BY <1>2, <3>2 DEF Reset
    <2> QED BY <2>1, <2>2
<1>3. ASSUME NEW i \in 1 .. Len(u), Reset(u[i]) PROVE Resets(w)
    <2>1. i \in 1 .. Len(w) /\ w[i] = u[i]
        BY <1>1
    <2> QED BY <1>3, <2>1 DEF Resets
<1> QED BY <1>2, <1>3 DEF Resets, w

\* The page once it has handled what is on its way, and whether it will then
\* have all the rows, and in the store's order.
Caught == After(Page, chan)
Whole == ~lost \/ Resets(chan)
Exact == ~meddled \/ Resets(chan)

\* Once it has handled everything, the page shows the store.
SyncInv == link = "up" /\ Whole => Mirrors(Caught, list, Goods, Exact)

\* What the other invariants say of that page.
LEMMA CaughtProperties ==
    ASSUME Sound, ListedInv
    PROVE  /\ Page \in Pages /\ chan \in Seq(Mail) /\ Caught \in Pages
           /\ list \in Seq(Flows) /\ Distinct(list)
           /\ Exact \in BOOLEAN /\ meddled \in BOOLEAN
           /\ Exact => Consistent(Caught)
           /\ \A f \in Flows : Caught.rows[f] > 0 => f \in Seen
<1>1. Page \in Pages /\ list \in Seq(Flows) /\ Distinct(list) /\ meddled \in BOOLEAN
    BY DEF Sound, ServerInv, ViewInv, Page, Pages
<1>2. chan \in Seq(Letters(Seen))
    BY DEF Sound, WireInv
<1>3. chan \in Seq(Mail)
    <2>1. Letters(Seen) \subseteq Mail
        BY DEF Letters
    <2> QED BY <1>2, <2>1, SeqMonotonic
<1>4. Caught \in Pages
    BY <1>1, <1>3, AfterType DEF Caught
<1>5. Exact => Consistent(Caught)
    <2>1. ASSUME Exact PROVE Consistent(Page) \/ Resets(chan)
        BY <2>1 DEF Exact, ListedInv
    <2> QED BY <1>1, <1>3, <2>1, AfterConsistent DEF Caught
<1>6. \A f \in Flows : Caught.rows[f] > 0 => f \in Seen
    <2>1. \A f \in Flows : Page.rows[f] > 0 => f \in Seen
        BY DEF Sound, ViewInv, Page, Shown
    <2>2. \A i \in 1 .. Len(chan) : Mentions(chan[i]) \subseteq Seen
        <3>1. \A i \in 1 .. Len(chan) : chan[i] \in Letters(Seen)
            BY <1>2, ElementOfSeq
        <3> QED BY <3>1 DEF Letters
    <2> QED BY <1>1, <1>3, <2>1, <2>2, AfterShows DEF Caught
<1>7. Exact \in BOOLEAN
    BY DEF Exact
<1> QED BY <1>1, <1>3, <1>4, <1>5, <1>6, <1>7

\* A message is sent.
LEMMA SentProperties ==
    ASSUME Sound, ListedInv, NEW m \in Mail, chan' = Append(chan, m), UNCHANGED page
    PROVE  /\ Caught' = Handled(Caught, m)
           /\ Exact' <=> Exact \/ Reset(m)
           /\ Whole' <=> Whole \/ Reset(m)
<1>1. Page \in Pages /\ chan \in Seq(Mail)
    BY CaughtProperties
<1>2. Page' = Page /\ meddled' = meddled /\ lost' = lost
    BY DEF Page, page
<1>3. After(Page, Append(chan, m)) = Handled(After(Page, chan), m)
    BY <1>1, AfterAppend
<1>4. Caught' = After(Page, Append(chan, m))
    BY <1>2 DEF Caught
<1>5. Resets(Append(chan, m)) <=> Resets(chan) \/ Reset(m)
    BY <1>1, ResetsAppend
<1>6. /\ Exact' <=> ~meddled \/ Resets(Append(chan, m))
      /\ Whole' <=> ~lost \/ Resets(Append(chan, m))
    BY <1>2 DEF Exact, Whole
<1> QED BY <1>3, <1>4, <1>5, <1>6 DEF Caught, Exact, Whole

\* The server is heard of in the order in which it changed.
LEMMA SyncServer ==
    ASSUME Sound, ListedInv, SyncInv, ServerMoves, link' = "up"
    PROVE  SyncInv'
<1>1. ServerInv /\ WireInv /\ ReqsInv /\ ViewInv /\ Seen \subseteq Flows
    BY DEF Sound, Seen
<1>2. /\ Page \in Pages /\ chan \in Seq(Mail) /\ Caught \in Pages
      /\ list \in Seq(Flows) /\ Distinct(list) /\ Exact \in BOOLEAN
    BY CaughtProperties
<1>3. link = "up" /\ UNCHANGED page
    BY DEF ServerMoves, Add, Touch, Announce, AnnounceAs, Change, RemoveFlow, LoadSession, Clear,
           Resize, ServeMark, ServeDelete, wire
<1> SUFFICES ASSUME Whole' PROVE Mirrors(Caught', list', Goods', Exact')
    BY DEF SyncInv, Mirrors
<1> DEFINE Goal == Mirrors(Caught', list', Goods', Exact')
<1>4. ASSUME Whole PROVE Mirrors(Caught, list, Goods, Exact)
    BY <1>3, <1>4 DEF SyncInv
<1>0. ToSet(list) = Stored /\ Stored \subseteq Flows /\ \A g \in Stored : 0 \notin Goods[g]
    BY <1>1, GoodsProperties DEF Stored
<1>5. ASSUME Caught' = Caught, Exact' <=> Exact, Whole, Goods' = Goods, Part(list', list)
      PROVE  Goal
    <2>1. Mirrors(Caught, list', Goods, Exact)
        BY <1>2, <1>4, <1>5, MirrorsPart
    <2> QED BY <1>5, <2>1 DEF Mirrors
<1>6. ASSUME UNCHANGED chan PROVE Caught' = Caught /\ (Exact' <=> Exact) /\ Whole
    BY <1>3, <1>6 DEF Caught, Exact, Whole, Page, page
<1>7. ASSUME NEW f \in Flows, Add(f) PROVE Goal
    <2> DEFINE m == News("add", f, 1)
               s == [flow |-> f, ver |-> 1]
    <2>1. /\ f \notin Seen /\ f \notin Stored /\ f \in Seen'
          /\ 1 \in Current(f)' /\ \A g \in Flows \ {f} : Current(g)' = Current(g)
          /\ Distinct(Append(list, f)) /\ Part(list', Append(list, f))
        BY <1>1, <1>7, AddStep
    <2>2. m \in Mail /\ ~Reset(m)
        <3>1. m \in Letters(Seen')
            BY <2>1, NewsIsLetter
        <3> QED BY <3>1 DEF Letters, Reset, News
    <2>3. chan' = Append(chan, m)
        BY <1>3, <1>7 DEF Add, Broadcast, Summary, News
    <2>4. Handled(Caught, m) = Added(Caught, s)
        BY DEF Handled, News
    <2> HIDE DEF m
    <2>5. Caught' = Added(Caught, s) /\ (Exact' <=> Exact) /\ Whole
        BY <1>3, <2>2, <2>3, <2>4, SentProperties
    <2>6. Caught.rows[f] = 0 /\ (Exact => Consistent(Caught))
        BY <2>1, CaughtProperties DEF Pages
    <2>7. f \notin ToSet(list)
        BY <2>1 DEF Stored
    <2> DEFINE p == Added(Caught, s)
               l == Append(list, f)
               H == Goods'
    <2>8. 1 \in H[f] /\ \A g \in ToSet(list) : H[g] = Goods[g]
        BY <1>0, <2>1, <2>7 DEF Goods
    <2> HIDE DEF H
    <2>9. Mirrors(p, l, H, Exact)
        BY <1>2, <1>4, <2>5, <2>6, <2>7, <2>8, MirrorsAdded
    <2>10. p \in Pages
        <3>1. s \in Summaries
            BY DEF Summaries
        <3> HIDE DEF s
        <3> QED BY <1>2, <3>1, AddedProperties
    <2>11. l \in Seq(Flows)
        BY <1>2, AppendProperties
    <2>12. p = Caught' /\ Part(list', l)
        BY <2>1, <2>5
    <2> HIDE DEF p, l
    <2>13. Mirrors(p, list', H, Exact)
        BY <2>9, <2>10, <2>11, <2>12, MirrorsPart
    <2> QED BY <2>5, <2>12, <2>13 DEF Mirrors, H
<1>a. ASSUME NEW f \in Flows, NEW n, Says(f, n) PROVE Goal
    <2> DEFINE m == News("update", f, n)
               s == [flow |-> f, ver |-> n]
               H == Goods'
    <2>1. /\ n \in Nat \ {0} /\ UNCHANGED list
          /\ n \in H[f] /\ \A g \in Flows \ {f} : H[g] = Goods[g]
        BY <1>a DEF Says, Goods
    <2>2. chan' = Append(chan, m)
        BY <1>3, <1>a DEF Says, Broadcast, Summary, News
    <2>3. m \in Mail /\ ~Reset(m)
        <3>1. m \in Letters(Flows)
            BY <2>1, NewsIsLetter
        <3> QED BY <3>1 DEF Letters, Reset, News
    <2>4. Handled(Caught, m) = Added(Caught, s)
        BY DEF Handled, News
    <2> HIDE DEF m, H
    <2>5. Caught' = Added(Caught, s) /\ (Exact' <=> Exact) /\ Whole
        BY <1>3, <2>2, <2>3, <2>4, SentProperties
    <2>6. Mirrors(Added(Caught, s), list, H, Exact)
        BY <1>0, <1>2, <1>4, <2>1, <2>5, MirrorsChanged
    <2> HIDE DEF s
    <2> QED BY <2>1, <2>5, <2>6 DEF Mirrors, H
<1>8. ASSUME NEW f \in Flows, Announce(f) \/ Change(f) PROVE Goal
    <2>1. CASE Announce(f)
        BY <1>1, <1>a, <2>1, AnnounceStep
    <2>2. CASE Change(f)
        BY <1>1, <1>a, <2>2, AlterStep DEF Change
    <2> QED BY <1>8, <2>1, <2>2
<1>b. ASSUME NEW f \in Flows, Touch(f) PROVE Goal
    <2>1. Caught' = Caught /\ (Exact' <=> Exact) /\ Whole /\ UNCHANGED list
        BY <1>6, <1>b DEF Touch, wire
    <2>2. \A g \in Stored : Goods[g] \subseteq Goods'[g]
        <3>1. \A g \in Stored : Current(g) \subseteq Current(g)'
            BY <1>1, <1>b, TouchStep DEF ServerInv
        <3> QED BY <1>0, <3>1 DEF Goods
    <2> DEFINE H == Goods'
    <2>3. \A g \in Stored : Goods[g] \subseteq H[g]
        BY <2>2
    <2> HIDE DEF H
    <2>4. Mirrors(Caught, list, H, Exact)
        BY <1>0, <1>4, <2>1, <2>3 DEF Mirrors
    <2> QED BY <2>1, <2>4 DEF Mirrors, H
<1>9. ASSUME NEW i \in 1 .. Len(reqs), ServeMark(i) PROVE Goal
    <2>1. CASE \E f \in Flows : \E n : Says(f, n)
        BY <1>a, <2>1
    <2>2. CASE UNCHANGED <<server, chan>>
        <3>1. Caught' = Caught /\ (Exact' <=> Exact) /\ Whole
            BY <1>6, <2>2
        <3>2. Goods' = Goods /\ list' = list
            BY <2>2 DEF server, Goods, Current
        <3> QED BY <1>4, <3>1, <3>2 DEF Mirrors
    <2> QED BY <1>1, <1>9, <2>1, <2>2, MarkStep
<1>c. ASSUME \/ \E f \in Flows : RemoveFlow(f)
             \/ Clear \/ Resize
             \/ \E i \in 1 .. Len(reqs) : ServeDelete(i)
      PROVE  Part(list', list) /\ Goods' = Goods /\ Seen' = Seen
    <2>1. Part(list', list) /\ UNCHANGED contents
        BY <1>1, <1>c, Shrinks
    <2> QED BY <2>1 DEF contents, Goods, Current, Seen
<1>10. ASSUME NEW f \in Flows, RemoveFlow(f) PROVE Goal
    <2> DEFINE m == Notice("removed")
    <2>1. m \in Mail /\ ~Reset(m) /\ Handled(Caught, m) = Caught
        BY NoticeIsLetter DEF Letters, Reset, Notice, Handled
    <2>2. chan' = Append(chan, m)
        BY <1>3, <1>10 DEF RemoveFlow, Broadcast, Notice
    <2> HIDE DEF m
    <2>3. Caught' = Caught /\ (Exact' <=> Exact) /\ Whole
        BY <1>3, <2>1, <2>2, SentProperties
    <2> QED BY <1>5, <1>c, <1>10, <2>3
<1>11. CASE Clear
    <2> DEFINE m == Notice("clear")
    <2>1. m \in Mail /\ Handled(Caught, m) = Blank
        BY NoticeIsLetter DEF Letters, Notice, Handled
    <2>2. chan' = Append(chan, m)
        BY <1>3, <1>11 DEF Clear, Broadcast, Notice
    <2> HIDE DEF m
    <2>3. Caught' = Blank /\ list' = <<>>
        BY <1>3, <1>11, <2>1, <2>2, SentProperties DEF Clear
    <2>4. Only(<<>>, {}) = <<>> /\ Blank.order = <<>>
        BY OnlyEmpty DEF Blank
    <2> QED BY <2>3, <2>4, ToSetEmpty DEF Mirrors
<1>12. CASE Resize
    BY <1>5, <1>6, <1>c, <1>12 DEF Resize, wire
<1>13. ASSUME NEW i \in 1 .. Len(reqs), ServeDelete(i) PROVE Goal
    <2>1. Part(list', list) /\ Goods' = Goods /\ Seen' = Seen
        BY <1>c, <1>13
    <2>2. PICK events \in Seq(Letters(Seen)) :
                /\ chan' = chan \/ chan' = chan \o events
                /\ \A n \in 1 .. Len(events) : events[n].type = "removed"
        BY <1>1, <1>13, <2>1, EventsStep
    <2>3. events \in Seq(Mail)
        <3>1. Letters(Seen) \subseteq Mail
            BY DEF Letters
        <3> QED BY <3>1, SeqMonotonic
    <2>4. CASE chan' = chan
        BY <1>5, <1>6, <2>1, <2>4
    <2>5. CASE chan' = chan \o events
        <3>1. After(Page, chan \o events) = After(Page, chan)
            BY <1>2, <2>2, <2>3, AfterRemoved
        <3>2. Caught' = Caught
            BY <1>3, <2>5, <3>1 DEF Caught, Page, page
        <3>3. Resets(chan \o events) <=> Resets(chan)
            BY <1>2, <2>2, <2>3, ResetsRemoved
        <3>4. (Exact' <=> Exact) /\ Whole
            BY <1>3, <2>5, <3>3 DEF Exact, Whole, page
        <3> QED BY <1>5, <2>1, <3>2, <3>4
    <2> QED BY <2>2, <2>4, <2>5
<1>14. ASSUME NEW flows \in SUBSET Seen, LoadSession(flows) PROVE Goal
    <2> DEFINE m == Notice("clear")
               u == InOrder(flows)
               c == Append(chan, m)
               q == After(Page, c \o Adds(u, Copies))
    <2>1. /\ u \in Seq(Flows) /\ Distinct(u) /\ ToSet(u) = flows
          /\ Part(list', u) /\ \A f \in flows : Fresh(f) \in Current(f)'
        BY <1>1, <1>14, LoadStep
    <2>2. chan' = c \o Adds(u, Copies) /\ Copies \in [Flows -> Nat \ {0}]
        BY <1>1, <1>3, <1>14, LoadEvents
    <2>3. m \in Mail /\ Handled(Caught, m) = Blank
        BY NoticeIsLetter DEF Letters, Notice, Handled
    <2> HIDE DEF m, u
    <2>4. c \in Seq(Mail) /\ After(Page, c) = Blank
        BY <1>2, <2>3, AppendProperties, AfterAppend DEF Caught
    <2> HIDE DEF c
    <2>5. q.order = u /\ \A f \in ToSet(u) : q.rows[f] = Copies[f]
        <3> DEFINE w == Copies
        <3>1. w \in [Flows -> Nat \ {0}]
            BY <2>2
        <3> HIDE DEF w
        <3>2. Lists(After(Page, c \o Adds(u, w)), u, w)
            <4>1. Page \in Pages
                BY <1>2
            <4>2. c \in Seq(Mail)
                BY <2>4
            <4>3. After(Page, c) = Blank
                BY <2>4
            <4>4. u \in Seq(Flows)
                BY <2>1
            <4>5. Distinct(u)
                BY <2>1
            <4> QED BY <3>1, <4>1, <4>2, <4>3, <4>4, <4>5, LoadedPage
        <3> QED BY <3>2 DEF w, Lists
    <2>6. Caught' = q
        BY <1>3, <2>2 DEF Caught, Page, page
    <2>7. q \in Pages
        <3>1. Page' \in Pages /\ chan' \in Seq(Mail)
            <4>1. chan' \in Seq(Letters(Seen)) /\ Letters(Seen) \subseteq Mail
                BY <1>1, <1>14, LoadEvents DEF Letters
            <4> QED BY <1>2, <1>3, <4>1, SeqMonotonic DEF Page, page
        <3> QED BY <1>2, <2>2, <3>1, AfterType
    <2> HIDE DEF q
    <2> DEFINE H == Goods'
    <2>8. \A f \in flows : Copies[f] \in H[f]
        BY <1>1, <2>1 DEF Goods, Copies
    <2> HIDE DEF H
    <2>9. Only(u, ToSet(u)) = u
        BY <2>1, PartTrivial DEF Part
    <2>10. Mirrors(q, u, H, Exact')
        BY <2>1, <2>5, <2>8, <2>9 DEF Mirrors
    <2>11. Mirrors(q, list', H, Exact')
        BY <2>1, <2>7, <2>10, MirrorsPart
    <2> QED BY <2>6, <2>11 DEF Mirrors, H
<1> QED BY <1>7, <1>8, <1>b, <1>9, <1>10, <1>11, <1>12, <1>13, <1>14 DEF ServerMoves

\* A page whose rows of `gone` went, and their places, is the same otherwise.
LEMMA DeletedAlike ==
    ASSUME ViewInv, NEW gone, TakeRows(gone)
    PROVE  /\ RowsAlike(gone, Page, Page')
           /\ order' = Only(order, Flows \ gone) => Alike(gone, Page, Page')
<1> DEFINE T == Flows \ gone
<1>1. order \in Seq(Flows)
    BY DEF ViewInv
<1>2. Page.rows = rows /\ Page'.rows = rows' /\ Page.order = order /\ Page'.order = order'
    BY DEF Page
<1>3. \A f \in T : Page.rows[f] = Page'.rows[f]
    BY <1>2 DEF TakeRows
<1>4. ASSUME order' = Only(order, T) PROVE Only(Page.order, T) = Only(Page'.order, T)
    <2> HIDE DEF T
    <2>1. Only(Only(order, T), T) = Only(order, T)
        BY <1>1, OnlyOnly
    <2> QED BY <1>2, <1>4, <2>1
<1> QED BY <1>3, <1>4 DEF RowsAlike, Alike

\* Every step keeps what the page will show what the store has.
LEMMA SyncStep ==
    ASSUME Sound, ListedInv, SyncInv, [Next]_vars
    PROVE  SyncInv'
<1>1. ServerInv /\ WireInv /\ ReqsInv /\ ViewInv /\ Sound'
    BY SoundStep DEF Sound
<1>2. /\ Page \in Pages /\ chan \in Seq(Mail) /\ Caught \in Pages
      /\ list \in Seq(Flows)
    BY CaughtProperties
<1>3. Page' \in Pages
    BY <1>1 DEF Sound, ViewInv, Page, Pages
<1>4. CASE ServerMoves
    <2>1. CASE link' = "up"
        BY <1>4, <2>1, SyncServer
    <2> QED BY <2>1 DEF SyncInv
<1>0. ASSUME UNCHANGED server PROVE list' = list /\ Goods' = Goods
    BY <1>0 DEF server, Goods, Current
<1>a. ASSUME UNCHANGED <<server, link, chan, rows, order, lost>>, meddled => meddled'
      PROVE  SyncInv'
    <2>1. Caught' = Caught /\ (Exact' => Exact) /\ (Whole' => Whole)
        BY <1>a DEF Caught, Page, Exact, Whole
    <2> SUFFICES ASSUME link' = "up", Whole' PROVE Mirrors(Caught', list', Goods', Exact')
        BY DEF SyncInv, Mirrors
    <2>2. Mirrors(Caught, list, Goods, Exact)
        BY <1>a, <2>1 DEF SyncInv
    <2> QED BY <1>0, <1>a, <2>1, <2>2 DEF Mirrors
<1>5. ASSUME NEW f \in Flows, Add(f) \/ Touch(f) \/ Announce(f) \/ Change(f) \/ RemoveFlow(f)
      PROVE  SyncInv'
    BY <1>4, <1>5 DEF ServerMoves
<1>6. CASE Clear \/ Resize \/ \E flows \in SUBSET Seen : LoadSession(flows)
    BY <1>4, <1>6 DEF ServerMoves
<1>7. ASSUME NEW i \in 1 .. Len(reqs), Serve(i) PROVE SyncInv'
    <2>1. CASE ServeDetail(i)
        BY <1>a, <2>1 DEF ServeDetail, wire, page
    <2> QED BY <1>4, <1>7, <2>1 DEF Serve, ServerMoves
<1>8. CASE Connect("unopened") \/ Connect("down")
    <2>1. chan' = <<Snapshot>> /\ UNCHANGED <<page, server>>
        BY <1>8 DEF Connect, Snapshot
    <2>2. Snapshot \in Mail /\ Handled(Page, Snapshot) = Shot(Snapshot)
        BY <1>1, SnapshotIsLetter DEF Letters, Handled, Snapshot
    <2>3. Shot(Snapshot).order = list /\ \A f \in Stored : Shot(Snapshot).rows[f] = ver[f]
        BY <1>1, SnapshotIsLetter
    <2> DEFINE m == Snapshot
    <2>4. m \in Mail
        BY <2>2
    <2> HIDE DEF m
    <2>5. After(Page, <<m>>) = Handled(Page, m)
        <3>1. <<>> \in Seq(Mail) /\ Append(<<>>, m) = <<m>>
            BY <2>4, EmptySeq
        <3>2. After(Page, Append(<<>>, m)) = Handled(After(Page, <<>>), m)
            BY <1>2, <2>4, <3>1, AfterAppend
        <3> QED BY <1>2, <3>1, <3>2, AfterNothing
    <2>6. Caught' = Shot(Snapshot)
        BY <2>1, <2>2, <2>5 DEF Caught, Page, page, m
    <2>7. Only(list, ToSet(list)) = list
        <3>1. Part(list, list)
            BY <1>1, PartTrivial DEF ServerInv
        <3> QED BY <3>1 DEF Part
    <2>8. \A f \in Stored : Shot(Snapshot).rows[f] \in Goods[f]
        BY <1>1, <2>3, GoodsProperties
    <2> QED BY <1>0, <2>1, <2>3, <2>6, <2>7, <2>8 DEF SyncInv, Mirrors, Stored
<1>9. CASE Drop
    BY <1>9 DEF Drop, SyncInv
<1>10. CASE Deliver
    <2>1. /\ chan # <<>> /\ Page' = Handled(Page, Head(chan)) /\ chan' = Tail(chan)
          /\ link = "up" /\ UNCHANGED server
        BY <1>1, <1>10, DeliverPage
    <2>2. After(Handled(Page, Head(chan)), Tail(chan)) = After(Page, chan)
        BY <1>2, <2>1, AfterTail
    <2>3. Caught' = Caught
        <3>1. Caught' = After(Page', chan')
            BY DEF Caught, After
        <3> QED BY <2>1, <2>2, <3>1 DEF Caught
    <2>4. (Exact' => Exact) /\ (Whole' => Whole)
        <3>1. ASSUME Resets(Tail(chan)) PROVE Resets(chan)
            <4>1. PICK k \in 1 .. Len(Tail(chan)) : Reset(Tail(chan)[k])
                BY <3>1 DEF Resets
            <4>2. k + 1 \in 1 .. Len(chan) /\ Tail(chan)[k] = chan[k + 1]
                BY <1>2, <2>1, <4>1, HeadTailProperties, LenProperties
            <4> QED BY <4>1, <4>2 DEF Resets
        <3>2. CASE HandleSnapshot \/ HandleClear
            <4>1. Head(chan) = chan[1] /\ 1 \in 1 .. Len(chan)
                BY <1>2, <2>1, EmptySeq
            <4>2. Reset(Head(chan))
                BY <3>2 DEF HandleSnapshot, HandleClear, Receive, Reset
            <4>3. Resets(chan)
                BY <4>1, <4>2 DEF Resets
            <4> QED BY <4>3 DEF Exact, Whole
        <3>3. CASE HandleAdd \/ HandleUpdate \/ HandleRemoved
            <4>1. meddled' = meddled /\ lost' = lost
                BY <3>3 DEF HandleAdd, HandleUpdate, HandleRemoved, page
            <4>2. Resets(chan)' => Resets(Tail(chan))
                BY <2>1 DEF Resets
            <4> QED BY <3>1, <4>1, <4>2 DEF Exact, Whole
        <3> QED BY <1>10, <3>2, <3>3 DEF Deliver
    <2> SUFFICES ASSUME Whole' PROVE Mirrors(Caught', list', Goods', Exact')
        BY DEF SyncInv, Mirrors
    <2>5. Mirrors(Caught, list, Goods, Exact)
        BY <2>1, <2>4 DEF SyncInv
    <2> QED BY <1>0, <2>1, <2>3, <2>4, <2>5 DEF Mirrors
<1>11. ASSUME NEW i \in 1 .. Len(reqs), HandleDetail(i) \/ HandleMarked(i) PROVE SyncInv'
    BY <1>a, <1>11 DEF HandleDetail, HandleMarked, wire
<1>12. ASSUME NEW i \in 1 .. Len(reqs), HandleDeleted(i) PROVE SyncInv'
    <2> DEFINE gone == reqs[i].flows
    <2>1. /\ UNCHANGED <<server, link, chan, meddled>>
          /\ TakeRows(gone)
          /\ order' = Only(order, Flows \ gone)
        BY <1>12 DEF HandleDeleted, wire
    <2> SUFFICES ASSUME link = "up", Whole' PROVE Mirrors(Caught', list, Goods, Exact)
        BY <1>0, <2>1 DEF SyncInv, Exact, Mirrors
    <2> HIDE DEF gone
    <2>2. Whole /\ (gone \cap ToSet(list) = {} \/ Resets(chan))
        BY <2>1 DEF Whole, TakeRows, Stored
    <2>3. Mirrors(Caught, list, Goods, Exact)
        BY <2>2 DEF SyncInv
    <2>4. Alike(gone, Page, Page')
        BY <1>1, <2>1, DeletedAlike
    <2> DEFINE q == Page'
               r == After(q, chan)
    <2>5. q \in Pages /\ Alike(gone, Page, q)
        BY <1>3, <2>4
    <2>6. Caught' = r
        BY <2>1 DEF Caught, After
    <2> HIDE DEF q
    <2>7. CASE Resets(chan)
        <3>1. r = Caught
            BY <1>2, <2>5, <2>7, AfterReset DEF Caught
        <3> QED BY <2>3, <2>6, <3>1
    <2>8. CASE gone \cap ToSet(list) = {}
        <3>1. r \in Pages /\ Alike(gone, Caught, r)
            BY <1>2, <2>5, AfterAlike, AfterType DEF Caught
        <3> HIDE DEF r
        <3>2. Mirrors(r, list, Goods, Exact)
            BY <1>2, <2>3, <2>8, <3>1, MirrorsAlike
        <3> QED BY <2>6, <3>2
    <2> QED BY <2>2, <2>7, <2>8
<1>13. ASSUME NEW i \in 1 .. Len(reqs), HandleBatchDeleted(i) PROVE SyncInv'
    <2> DEFINE gone == reqs[i].flows
    <2>1. /\ UNCHANGED <<server, link, chan>>
          /\ TakeRows(gone)
          /\ order' = Only(order, Flows \ picked)
          /\ meddled => meddled'
        BY <1>13 DEF HandleBatchDeleted, wire
    <2> SUFFICES ASSUME link = "up", Whole' PROVE Mirrors(Caught', list, Goods, Exact')
        BY <1>0, <2>1 DEF SyncInv, Mirrors
    <2>2. ~meddled => gone = picked
        <3> SUFFICES ASSUME ~meddled PROVE gone = picked
            OBVIOUS
        <3>1. reqs[i] \in Aimed(picked)
            BY ElementOfSeq DEF ListedInv
        <3> QED BY <1>13, <3>1 DEF Aimed, HandleBatchDeleted
    <2> HIDE DEF gone
    <2>3. Whole /\ (gone \cap ToSet(list) = {} \/ Resets(chan))
        BY <2>1 DEF Whole, TakeRows, Stored
    <2>4. RowsAlike(gone, Page, Page') /\ (~meddled => Alike(gone, Page, Page'))
        BY <1>1, <2>1, <2>2, DeletedAlike
    <2> DEFINE q == Page'
               r == After(q, chan)
    <2>5. q \in Pages /\ RowsAlike(gone, Page, q) /\ (~meddled => Alike(gone, Page, q))
        BY <1>3, <2>4
    <2>6. Caught' = r
        BY <2>1 DEF Caught, After
    <2> HIDE DEF q
    <2>7. Mirrors(Caught, list, Goods, Exact)
        BY <2>3 DEF SyncInv
    <2>8. Exact' => ~meddled \/ Resets(chan)
        BY <2>1 DEF Exact
    <2>9. CASE Resets(chan)
        <3>1. r = Caught
            BY <1>2, <2>5, <2>9, AfterReset DEF Caught
        <3>2. Exact
            BY <2>9 DEF Exact
        <3> QED BY <2>6, <2>7, <3>1, <3>2 DEF Mirrors
    <2>10. CASE ~Resets(chan)
        <3>1. gone \cap ToSet(list) = {}
            BY <2>3, <2>10
        <3>2. RowsAlike(gone, Caught, r)
            BY <1>2, <2>5, AfterRowsAlike DEF Caught
        <3>3. \A f \in ToSet(list) : r.rows[f] \in Goods[f]
            <4>1. ToSet(list) \subseteq Flows
                BY <1>2, ToSetElements
            <4> HIDE DEF r
            <4> QED BY <2>7, <3>1, <3>2, <4>1 DEF RowsAlike, Mirrors
        <3>4. ASSUME ~meddled PROVE Only(r.order, ToSet(list)) = list
            <4>1. r \in Pages /\ Alike(gone, Caught, r) /\ Exact
                BY <1>2, <2>5, <3>4, AfterAlike, AfterType DEF Caught, Exact
            <4> HIDE DEF r
            <4>2. Mirrors(r, list, Goods, Exact)
                BY <1>2, <2>7, <3>1, <4>1, MirrorsAlike
            <4> QED BY <4>1, <4>2 DEF Mirrors
        <3> HIDE DEF r
        <3> QED BY <2>6, <2>8, <2>10, <3>3, <3>4 DEF Mirrors
    <2> QED BY <2>9, <2>10
<1>14. ASSUME NEW f \in Flows, Click(f) \/ Toggle(f) \/ RangeSelect(f) \/ DeleteFlow(f)
       PROVE  SyncInv'
    BY <1>a, <1>14 DEF Click, Toggle, RangeSelect, DeleteFlow, Pick, Post, wire
<1>15. CASE SelectAllVisible \/ ClearSelection \/ Mark \/ BatchDelete
    BY <1>a, <1>15 DEF SelectAllVisible, ClearSelection, Mark, BatchDelete, Pick, Post, wire
<1>16. CASE UNCHANGED vars
    BY <1>a, <1>16 DEF vars, server
<1> QED BY <1>5, <1>6, <1>7, <1>8, <1>9, <1>10, <1>11, <1>12, <1>13, <1>14, <1>15, <1>16
        DEF Next, Handle

\* ShowsEveryFlow holds throughout: whatever was added, changed with an event or
\* without, evicted, deleted, cleared or loaded from a session while the page was
\* connecting, connected or away, and however many messages that took, a page
\* that has read them all shows every stored flow, in the store's order and with
\* nothing older than what was said of it last (server.ts:60-66, 171-186, 362-367;
\* app.js:46-75, 540-557).
THEOREM InspectorShowsEveryFlow == Spec => []ShowsEveryFlow
<1>1. Init => ListedInv /\ SyncInv
    <2> SUFFICES ASSUME Init PROVE ListedInv /\ SyncInv
        OBVIOUS
    <2>1. Page = Blank
        BY DEF Init, Page, Blank
    <2>2. reqs \in Seq(Aimed(picked))
        BY EmptySeq DEF Init
    <2>3. link # "up"
        BY DEF Init
    <2> QED BY <2>1, <2>2, <2>3, BlankProperties DEF ListedInv, SyncInv
<1>2. Sound /\ ListedInv /\ SyncInv => ShowsEveryFlow
    <2> SUFFICES ASSUME Sound, ListedInv, SyncInv, link = "up", chan = <<>>, ~lost
                 PROVE  /\ \A f \in Stored : rows[f] \in Current(f)
                        /\ ~meddled => Only(order, Stored) = list
        BY DEF ShowsEveryFlow
    <2>1. Caught = Page
        BY AfterNothing, CaughtProperties DEF Caught
    <2>2. Mirrors(Page, list, Goods, Exact)
        BY <2>1 DEF SyncInv, Whole
    <2>3. \A f \in Stored : Goods[f] = Current(f)
        BY GoodsProperties DEF Sound
    <2> QED BY <2>2, <2>3 DEF Mirrors, Exact, Page, Stored
<1>3. Sound /\ ListedInv /\ SyncInv /\ [Next]_vars => ListedInv' /\ SyncInv'
    BY ListedStep, SyncStep
<1> QED BY <1>1, <1>2, <1>3, SoundInit, SoundStep, PTL DEF Spec

-----------------------------------------------------------------------------
(* The detail pane.                                                        *)

\* No detail is asked for.
Quiet(u) == \A j \in 1 .. Len(u) : u[j].kind # "detail"

\* The last detail asked for is that of f, and its answer, if there is one,
\* says one of G.
Awaits(u, f, G) ==
    \E k \in 1 .. Len(u) :
        /\ u[k].kind = "detail" /\ u[k].flows = {f}
        /\ u[k].answered => u[k].ver \in G
        /\ \A j \in k + 1 .. Len(u) : u[j].kind # "detail"

\* The pane shows one of the contents G of f, or will when the last answer is in.
WillShow(u, d, f, G) ==
    \/ Quiet(u) /\ d.flow = f /\ d.ver \in G
    \/ Awaits(u, f, G)

\* Something on its way will have the page ask for the detail of f, or will
\* have the detail count as behind.
Prompts(m, f) ==
    \/ m.type = "snapshot"
    \/ m.type \in {"add", "update"} /\ m.flows[1].flow = f
Prompted(u, f) == \E j \in 1 .. Len(u) : Prompts(u[j], f)

DetailInv ==
    link = "up" /\ ~behind /\ selected \in Stored =>
        Prompted(chan, selected) \/ WillShow(reqs, detail, selected, Current(selected))

\* The more contents will do, the better.
LEMMA MoreWillShow ==
    ASSUME NEW u, NEW d, NEW f, NEW G, NEW H, G \subseteq H, WillShow(u, d, f, G)
    PROVE  WillShow(u, d, f, H)
BY DEF WillShow, Awaits

\* A request of another kind makes no difference.
LEMMA AppendWillShow ==
    ASSUME NEW E, NEW u \in Seq(E), NEW r \in E, r.kind # "detail", NEW d, NEW f, NEW G,
           WillShow(u, d, f, G)
    PROVE  WillShow(Append(u, r), d, f, G)
<1> DEFINE t == Append(u, r)
           n == Len(u)
<1>1. n \in Nat /\ Len(t) = n + 1 /\ t[n + 1] = r /\ \A j \in 1 .. n : t[j] = u[j]
    BY LenProperties, AppendProperties
<1> HIDE DEF t
<1>2. ASSUME NEW j \in 1 .. Len(t) PROVE j \in 1 .. n \/ j = n + 1
    BY <1>1
<1>3. CASE Quiet(u) /\ d.flow = f /\ d.ver \in G
    <2>1. Quiet(t)
        BY <1>1, <1>2, <1>3 DEF Quiet
    <2> QED BY <1>3, <2>1 DEF WillShow, t
<1>4. CASE Awaits(u, f, G)
    <2>1. PICK k \in 1 .. n :
                /\ u[k].kind = "detail" /\ u[k].flows = {f}
                /\ u[k].answered => u[k].ver \in G
                /\ \A j \in k + 1 .. n : u[j].kind # "detail"
        BY <1>4 DEF Awaits
    <2>2. k \in 1 .. Len(t) /\ t[k] = u[k]
        BY <1>1, <2>1
    <2>3. ASSUME NEW j \in k + 1 .. Len(t) PROVE t[j].kind # "detail"
        <3>1. j \in k + 1 .. n \/ j = n + 1
            BY <1>1
        <3>2. ASSUME j \in k + 1 .. n PROVE t[j] = u[j]
            BY <1>1, <3>2
        <3> QED BY <1>1, <2>1, <3>1, <3>2
    <2>4. Awaits(t, f, G)
        BY <2>1, <2>2, <2>3 DEF Awaits
    <2> QED BY <2>4 DEF WillShow, t
<1> QED BY <1>3, <1>4 DEF WillShow

\* A request for the detail of f has it shown.
LEMMA AskedWillShow ==
    ASSUME NEW E, NEW u \in Seq(E), NEW d, NEW f, NEW G, Request("detail", {f}) \in E
    PROVE  WillShow(Append(u, Request("detail", {f})), d, f, G)
<1> DEFINE r == Request("detail", {f})
           t == Append(u, r)
           n == Len(u)
<1>1. r.kind = "detail" /\ r.flows = {f} /\ ~r.answered
    BY DEF Request
<1>2. r \in E
    OBVIOUS
<1> HIDE DEF r
<1>3. n \in Nat /\ Len(t) = n + 1 /\ t[n + 1] = r
    BY <1>2, LenProperties, AppendProperties
<1> HIDE DEF t
<1>4. n + 1 \in 1 .. Len(t) /\ \A j \in n + 1 + 1 .. Len(t) : FALSE
    BY <1>3
<1>5. Awaits(t, f, G)
    BY <1>1, <1>3, <1>4 DEF Awaits
<1> QED BY <1>5 DEF WillShow, t, r

\* So makes the answer of another request, or an answer that says one of G.
LEMMA AnsweredWillShow ==
    ASSUME NEW u, NEW t, NEW i \in 1 .. Len(u), Len(t) = Len(u), NEW d, NEW f, NEW G,
           t[i].kind = u[i].kind /\ t[i].flows = u[i].flows,
           u[i].kind = "detail" /\ u[i].flows = {f} => t[i].ver \in G,
           \A j \in 1 .. Len(u) : j # i => t[j] = u[j],
           WillShow(u, d, f, G)
    PROVE  WillShow(t, d, f, G)
<1>1. \A j \in 1 .. Len(u) : t[j].kind = u[j].kind /\ t[j].flows = u[j].flows
    OBVIOUS
<1>2. CASE Quiet(u) /\ d.flow = f /\ d.ver \in G
    BY <1>1, <1>2 DEF Quiet, WillShow
<1>3. CASE Awaits(u, f, G)
    <2>1. PICK k \in 1 .. Len(u) :
                /\ u[k].kind = "detail" /\ u[k].flows = {f}
                /\ u[k].answered => u[k].ver \in G
                /\ \A j \in k + 1 .. Len(u) : u[j].kind # "detail"
        BY <1>3 DEF Awaits
    <2>2. t[k].answered => t[k].ver \in G
        BY <2>1
    <2>3. \A j \in k + 1 .. Len(u) : j \in 1 .. Len(u)
        OBVIOUS
    <2>4. Awaits(t, f, G)
        BY <1>1, <2>1, <2>2, <2>3 DEF Awaits
    <2> QED BY <2>4 DEF WillShow
<1> QED BY <1>2, <1>3 DEF WillShow

\* To settle a request that is not for a detail leaves the pane as good as it
\* was; to settle the first for a detail leaves the last, or is the last.
LEMMA SettleWillShow ==
    ASSUME NEW E, reqs \in Seq(E), NEW i \in 1 .. Len(reqs), NEW d, NEW f, NEW G,
           WillShow(reqs, d, f, G),
           \/ reqs[i].kind # "detail"
           \/ \A j \in 1 .. i - 1 : reqs[j].kind # "detail"
    PROVE  \/ WillShow(Settle(i), d, f, G)
           \/ /\ reqs[i].kind = "detail" /\ reqs[i].flows = {f}
              /\ reqs[i].answered => reqs[i].ver \in G
              /\ Quiet(Settle(i))
<1> DEFINE t == Settle(i)
           n == Len(reqs)
<1>1. n \in Nat /\ i \in 1 .. n
    BY LenProperties
<1>2. Len(t) = n - 1 /\ \A k \in 1 .. n - 1 : t[k] = IF k < i THEN reqs[k] ELSE reqs[k + 1]
    BY SettleProperties
<1> HIDE DEF t
<1>4. CASE Quiet(reqs) /\ d.flow = f /\ d.ver \in G
    <2>1. ASSUME NEW k \in 1 .. Len(t) PROVE t[k].kind # "detail"
        <3>1. k \in 1 .. n /\ k + 1 \in 1 .. n /\ k \in 1 .. n - 1
            BY <1>1, <1>2
        <3> QED BY <1>2, <1>4, <3>1 DEF Quiet
    <2> QED BY <1>4, <2>1 DEF Quiet, WillShow, t
<1>5. CASE Awaits(reqs, f, G)
    <2>1. PICK k \in 1 .. n :
                /\ reqs[k].kind = "detail" /\ reqs[k].flows = {f}
                /\ reqs[k].answered => reqs[k].ver \in G
                /\ \A j \in k + 1 .. n : reqs[j].kind # "detail"
        BY <1>5 DEF Awaits
    <2>2. CASE k = i
        <3>1. ASSUME NEW j \in 1 .. Len(t) PROVE t[j].kind # "detail"
            <4>1. CASE j < i
                <5>1. j \in 1 .. i - 1 /\ j \in 1 .. n - 1
                    BY <1>1, <1>2, <4>1
                <5>2. t[j] = reqs[j]
                    BY <1>2, <4>1, <5>1
                <5> QED BY <2>1, <2>2, <5>1, <5>2
            <4>2. CASE ~(j < i)
                <5>1. j + 1 \in k + 1 .. n /\ j \in 1 .. n - 1
                    BY <1>1, <1>2, <2>2, <4>2
                <5>2. t[j] = reqs[j + 1]
                    BY <1>2, <4>2, <5>1
                <5> QED BY <2>1, <5>1, <5>2
            <4> QED BY <4>1, <4>2
        <3> QED BY <2>1, <2>2, <3>1 DEF Quiet, t
    <2>3. CASE k # i
        <3> DEFINE l == IF k < i THEN k ELSE k - 1
        <3>1. l \in 1 .. n - 1 /\ t[l] = reqs[k]
            <4>1. CASE k < i
                <5>1. l = k /\ l \in 1 .. n - 1
                    BY <1>1, <4>1
                <5> HIDE DEF l
                <5> QED BY <1>2, <4>1, <5>1
            <4>2. CASE ~(k < i)
                <5>1. l = k - 1 /\ l \in 1 .. n - 1 /\ ~(l < i) /\ l + 1 = k
                    BY <1>1, <2>3, <4>2
                <5> HIDE DEF l
                <5> QED BY <1>2, <5>1
            <4> QED BY <4>1, <4>2
        <3>2. ASSUME NEW j \in l + 1 .. Len(t) PROVE t[j].kind # "detail"
            <4>1. CASE j < i
                <5>1. j \in k + 1 .. n /\ j \in 1 .. n - 1
                    BY <1>1, <1>2, <2>3, <4>1
                <5>2. t[j] = reqs[j]
                    BY <1>2, <4>1, <5>1
                <5> QED BY <2>1, <5>1, <5>2
            <4>2. CASE ~(j < i)
                <5>1. j + 1 \in k + 1 .. n /\ j \in 1 .. n - 1
                    BY <1>1, <1>2, <2>3, <4>2
                <5>2. t[j] = reqs[j + 1]
                    BY <1>2, <4>2, <5>1
                <5> QED BY <2>1, <5>1, <5>2
            <4> QED BY <4>1, <4>2
        <3> HIDE DEF l
        <3>3. Awaits(t, f, G)
            BY <1>2, <2>1, <3>1, <3>2 DEF Awaits
        <3> QED BY <3>3 DEF WillShow, t
    <2> QED BY <2>2, <2>3
<1> QED BY <1>4, <1>5 DEF WillShow

\* What is on its way stays so, but for what is delivered.
LEMMA PromptedStep ==
    ASSUME NEW E, NEW u \in Seq(E), NEW f, Prompted(u, f)
    PROVE  /\ \A m : Prompted(Append(u, m), f)
           /\ \A w \in Seq(E) : Prompted(u \o w, f)
           /\ u # <<>> /\ (~Prompts(Head(u), f) => Prompted(Tail(u), f))
<1>1. PICK k \in 1 .. Len(u) : Prompts(u[k], f)
    BY DEF Prompted
<1>2. Len(u) \in Nat
    BY LenProperties
<1>3. ASSUME NEW m PROVE Prompted(Append(u, m), f)
    <2> DEFINE t == Append(u, m)
               M == E \cup {m}
    <2>a. u \in Seq(M) /\ m \in M
        <3>1. E \subseteq M /\ m \in M
            OBVIOUS
        <3> HIDE DEF M
        <3> QED BY <3>1, SeqMonotonic
    <2> HIDE DEF M
    <2>1. k \in 1 .. Len(t) /\ t[k] = u[k]
        BY <1>1, <1>2, <2>a, AppendProperties
    <2> HIDE DEF t
    <2> QED BY <1>1, <2>1 DEF Prompted, t
<1>4. ASSUME NEW w \in Seq(E) PROVE Prompted(u \o w, f)
    <2> DEFINE t == u \o w
    <2>1. Len(w) \in Nat
        BY LenProperties
    <2>2. k \in 1 .. Len(u) + Len(w) /\ k <= Len(u)
        BY <1>2, <2>1
    <2>3. Len(t) = Len(u) + Len(w) /\ t[k] = u[k]
        BY <2>2, ConcatProperties
    <2> HIDE DEF t
    <2> QED BY <1>1, <2>2, <2>3 DEF Prompted, t
<1>5. u # <<>>
    BY <1>1, EmptySeq
<1>6. ASSUME ~Prompts(Head(u), f) PROVE Prompted(Tail(u), f)
    <2> DEFINE t == Tail(u)
    <2>1. Head(u) = u[1] /\ Len(t) = Len(u) - 1 /\ \A j \in 1 .. Len(t) : t[j] = u[j + 1]
        BY <1>5, HeadTailProperties
    <2> HIDE DEF t
    <2>2. k # 1
        BY <1>1, <1>6, <2>1
    <2>3. k - 1 \in 1 .. Len(t) /\ (k - 1) + 1 = k
        BY <1>1, <1>2, <2>1, <2>2
    <2>4. t[k - 1] = u[k]
        BY <2>1, <2>3
    <2> QED BY <1>1, <2>3, <2>4 DEF Prompted, t
<1> QED BY <1>3, <1>4, <1>5, <1>6

\* What is on its way stays so, whatever the server says.
LEMMA ServerSends ==
    ASSUME Sound, ServerMoves
    PROVE  /\ UNCHANGED <<link, page>>
           /\ \A f : Prompted(chan, f) => Prompted(chan', f)
<1> DEFINE E == Letters(Seen)
<1>1. UNCHANGED <<link, page>>
    BY DEF ServerMoves, Add, Touch, Announce, AnnounceAs, Change, LoadSession, RemoveFlow, Clear,
           Resize, ServeMark, ServeDelete, wire
<1> SUFFICES ASSUME NEW f, Prompted(chan, f) PROVE Prompted(chan', f)
    BY <1>1
<1>2. chan \in Seq(E)
    BY DEF Sound, WireInv
<1> HIDE DEF E
<1>3. ASSUME chan' = chan \/ \E m : chan' = Append(chan, m) PROVE Prompted(chan', f)
    BY <1>2, <1>3, PromptedStep
<1>4. ASSUME NEW type, NEW flows, Broadcast(type, flows) PROVE Prompted(chan', f)
    BY <1>3, <1>4 DEF Broadcast
<1>5. ASSUME NEW g \in Flows, Add(g) \/ Touch(g) \/ Announce(g) \/ Change(g) \/ RemoveFlow(g)
      PROVE  Prompted(chan', f)
    BY <1>3, <1>4, <1>5 DEF Add, Touch, Announce, AnnounceAs, Change, Alter, RemoveFlow, wire
<1>6. CASE Clear \/ Resize
    BY <1>3, <1>4, <1>6 DEF Clear, Resize, wire
<1>7. ASSUME NEW i \in 1 .. Len(reqs), ServeMark(i) PROVE Prompted(chan', f)
    BY <1>3, <1>4, <1>7 DEF ServeMark, Alter
<1>8. ASSUME NEW i \in 1 .. Len(reqs), ServeDelete(i) PROVE Prompted(chan', f)
    <2>1. Seen' = Seen
        BY <1>8 DEF ServeDelete, Seen
    <2>2. chan' = chan \/ \E w \in Seq(E) : chan' = chan \o w
        BY <1>8, <2>1, EventsStep DEF Sound, E
    <2> QED BY <1>2, <2>2, PromptedStep
<1>9. ASSUME NEW flows \in SUBSET Seen, LoadSession(flows) PROVE Prompted(chan', f)
    <2> DEFINE c == Append(chan, Notice("clear"))
               w == Adds(InOrder(flows), Copies)
    <2>1. chan' = chan \/ chan' = c \o w
        BY <1>9, LoadEvents DEF Sound
    <2>2. c \in Seq(E) /\ w \in Seq(E)
        <3>1. Notice("clear") \in E
            BY NoticeIsLetter DEF E
        <3>2. InOrder(flows) \in Seq(Flows) /\ ToSet(InOrder(flows)) = flows
            BY <1>9, LoadStep DEF Sound
        <3>3. Copies \in [Flows -> Nat \ {0}]
            BY <1>9, LoadEvents DEF Sound
        <3>4. w \in Seq(E)
            BY <3>2, <3>3, AddsAreLetters DEF E
        <3> QED BY <1>2, <3>1, <3>4, AppendProperties
    <2>3. Prompted(c, f)
        BY <1>2, PromptedStep
    <2> HIDE DEF c, w
    <2> QED BY <2>1, <2>2, <2>3, PromptedStep
<1> QED BY <1>5, <1>6, <1>7, <1>8, <1>9 DEF ServerMoves

\* Of the flows of a session, and of a flow that is announced, something is said.
LEMMA LoadPrompts ==
    ASSUME Sound, NEW flows \in SUBSET Seen, LoadSession(flows), link = "up", NEW f \in flows
    PROVE  Prompted(chan', f)
<1> DEFINE c == Append(chan, Notice("clear"))
           u == InOrder(flows)
           w == Adds(u, Copies)
<1>1. chan' = c \o w /\ Copies \in [Flows -> Nat \ {0}]
    BY LoadEvents DEF Sound
<1>2. u \in Seq(Flows) /\ ToSet(u) = flows
    BY LoadStep DEF Sound
<1>3. c \in Seq(Letters(Seen))
    <2> DEFINE m == Notice("clear")
    <2>1. m \in Letters(Seen)
        BY NoticeIsLetter
    <2> HIDE DEF m
    <2> QED BY <2>1, AppendProperties DEF Sound, WireInv, m
<1> HIDE DEF c, u
<1>4. PICK n \in 1 .. Len(u) : u[n] = f
    BY <1>2, ToSetElements
<1>5. w \in Seq(Letters(Seen)) /\ Len(w) = Len(u)
    BY <1>1, <1>2, AddsAreLetters
<1>6. w[n].type = "add" /\ w[n].flows[1].flow = f
    BY <1>4 DEF Adds, News
<1> HIDE DEF w
<1> DEFINE t == c \o w
           k == Len(c) + n
<1>7. Len(c) \in Nat /\ Len(u) \in Nat
    BY <1>2, <1>3, LenProperties
<1>8. k \in 1 .. Len(c) + Len(w) /\ ~(k <= Len(c)) /\ k - Len(c) = n
    BY <1>5, <1>7
<1> HIDE DEF k
<1>9. Len(t) = Len(c) + Len(w) /\ t[k] = w[n]
    <2> DEFINE E == Letters(Seen)
    <2>1. c \in Seq(E) /\ w \in Seq(E)
        BY <1>3, <1>5
    <2> HIDE DEF E
    <2>2. /\ Len(c \o w) = Len(c) + Len(w)
          /\ \A i \in 1 .. Len(c) + Len(w) : (c \o w)[i] = IF i <= Len(c) THEN c[i] ELSE w[i - Len(c)]
        BY <2>1, ConcatProperties
    <2> QED BY <1>8, <2>2
<1>10. k \in 1 .. Len(t)
    BY <1>8, <1>9
<1> HIDE DEF t
<1>11. Prompted(t, f)
    BY <1>6, <1>9, <1>10 DEF Prompted, Prompts
<1> QED BY <1>1, <1>11 DEF t

LEMMA SaysPrompts ==
    ASSUME Sound, NEW f, NEW v, Says(f, v), link = "up"
    PROVE  Prompted(chan', f)
<1> DEFINE m == [type |-> "update", flows |-> <<Summary(f, v)>>]
           M == Letters(Seen) \cup {m}
           t == Append(chan, m)
<1>1. Prompts(m, f)
    BY DEF Prompts, Summary
<1>2. chan' = t
    BY DEF Says, Broadcast
<1> HIDE DEF m
<1>3. chan \in Seq(M) /\ m \in M
    <2>1. Letters(Seen) \subseteq M /\ m \in M
        OBVIOUS
    <2> HIDE DEF M
    <2> QED BY <2>1, SeqMonotonic DEF Sound, WireInv
<1> HIDE DEF M
<1>4. Len(t) = Len(chan) + 1 /\ t[Len(chan) + 1] = m /\ Len(chan) \in Nat
    BY <1>3, AppendProperties, LenProperties
<1> HIDE DEF t
<1>5. Len(chan) + 1 \in 1 .. Len(t)
    BY <1>4
<1> QED BY <1>1, <1>2, <1>4, <1>5 DEF Prompted

\* What the server does to its flows leaves the detail of one as good as it was,
\* or something is said of the flow.
LEMMA DetailServer ==
    ASSUME Sound, DetailInv, ServerMoves, [Next]_vars
    PROVE  DetailInv'
<1> DEFINE G == Current(selected)
           Goal == Prompted(chan', selected) \/ WillShow(reqs', detail, selected, G')
<1>1. ServerInv /\ WireInv /\ ReqsInv /\ ViewInv
    BY DEF Sound
<1>2. reqs \in Seq(Requests) /\ Stored \subseteq Seen /\ Seen \subseteq Flows
    <2>1. Errands(Seen) \subseteq Requests
        BY DEF Errands
    <2>2. reqs \in Seq(Requests)
        BY <1>1, <2>1, SeqMonotonic DEF ReqsInv
    <2> QED BY <1>1, <2>2 DEF ServerInv, Seen
<1>3. UNCHANGED <<link, behind, selected, detail>>
    BY ServerSends DEF page
<1> SUFFICES ASSUME link = "up", ~behind, selected \in Stored' PROVE Goal
    BY <1>3 DEF DetailInv
<1> HIDE DEF Goal
<1>4. CASE \E flows \in SUBSET Seen : LoadSession(flows)
    <2>1. PICK flows \in SUBSET Seen : LoadSession(flows)
        BY <1>4
    <2>2. selected \in flows
        BY <1>1, <2>1, LoadStep DEF Part, Stored
    <2> QED BY <2>1, <2>2, LoadPrompts DEF Goal
<1>5. ASSUME NEW f \in Flows, Add(f) PROVE Goal
    <2>1. CASE f = selected
        <3>1. selected \notin Stored /\ selected \in Seen \cup {None} /\ selected \notin Seen
            BY <1>1, <1>5, <2>1, AddStep DEF ViewInv
        <3>2. None \notin Flows
            BY NoneIsNoFlow
        <3> QED BY <2>1, <3>1, <3>2
    <2>2. CASE f # selected
        <3>1. selected \in Stored /\ selected \in Flows
            <4>1. list' \in Seq(Flows) /\ ToSet(list') \subseteq ToSet(Append(list, f))
                BY <1>1, <1>5, AddStep DEF Part
            <4>2. ToSet(Append(list, f)) = Stored \cup {f}
                BY <1>1, ToSetAppend DEF ServerInv, Stored
            <4> QED BY <1>2, <2>2, <4>1, <4>2 DEF Stored
        <3>2. G' = G /\ reqs' = reqs
            <4>1. \A g \in Flows \ {f} : Current(g)' = Current(g)
                BY <1>1, <1>5, AddStep
            <4> QED BY <1>3, <1>5, <2>2, <3>1, <4>1 DEF Add, Current
        <3>3. Prompted(chan, selected) \/ WillShow(reqs, detail, selected, G)
            BY <3>1 DEF DetailInv
        <3> QED BY <3>2, <3>3, ServerSends DEF Goal
    <2> QED BY <2>1, <2>2
<1>6. ASSUME ~(\E flows \in SUBSET Seen : LoadSession(flows)), ~(\E f \in Flows : Add(f))
      PROVE  Goal
    <2>1. selected \in Stored /\ selected \in Flows
        <3>1. Stored' \subseteq Stored
            <4>1. CASE list' = list
                BY <4>1 DEF Stored
            <4>2. CASE \/ \E f \in Flows : RemoveFlow(f)
                       \/ Clear \/ Resize
                       \/ \E i \in 1 .. Len(reqs) : ServeDelete(i)
                BY <1>1, <4>2, Shrinks DEF Part, Stored
            <4>3. \/ list' = list
                  \/ \E f \in Flows : RemoveFlow(f)
                  \/ Clear \/ Resize
                  \/ \E i \in 1 .. Len(reqs) : ServeDelete(i)
                BY <1>6 DEF ServerMoves, Touch, Announce, AnnounceAs, Change, ServeMark
            <4> QED BY <4>1, <4>2, <4>3
        <3> QED BY <1>2, <3>1
    <2>2. Prompted(chan, selected) \/ WillShow(reqs, detail, selected, G)
        BY <2>1 DEF DetailInv
    <2>3. CASE Prompted(chan, selected)
        BY <2>3, ServerSends DEF Goal
    <2> SUFFICES ASSUME WillShow(reqs, detail, selected, G) PROVE Goal
        BY <2>2, <2>3
    <2>4. ASSUME NEW f \in Flows, NEW v, Says(f, v) PROVE Prompted(chan', selected) \/ G' = G
        <3>1. CASE f = selected
            BY <2>4, <3>1, SaysPrompts
        <3>2. CASE f # selected
            <4>1. Current(selected)' = Current(selected)
                BY <1>3, <2>1, <2>4, <3>2 DEF Says, Current
            <4> QED BY <4>1
        <3> QED BY <3>1, <3>2
    <2>5. ASSUME UNCHANGED <<reqs, contents>> PROVE Goal
        <3>1. G' = G
            BY <1>3, <2>5 DEF Current, contents
        <3> QED BY <2>5, <3>1 DEF Goal
    <2>6. ASSUME NEW f \in Flows, Touch(f) PROVE Goal
        <3>1. Current(selected) \subseteq Current(selected)'
            <4>1. \A g \in Seen : Current(g) \subseteq Current(g)'
                BY <1>1, <2>6, TouchStep
            <4> QED BY <1>2, <1>3, <2>1, <4>1 DEF Current
        <3>2. G \subseteq G' /\ reqs' = reqs
            BY <1>3, <2>6, <3>1 DEF Touch
        <3> QED BY <3>2, MoreWillShow DEF Goal
    <2>7. ASSUME NEW f \in Flows, Announce(f) \/ Change(f) PROVE Goal
        <3>1. \E v : Says(f, v)
            BY <1>1, <2>7, AnnounceStep, AlterStep DEF Change
        <3>2. reqs' = reqs
            BY <2>7 DEF Announce, AnnounceAs, Change
        <3> QED BY <2>4, <3>1, <3>2 DEF Goal
    <2>8. CASE (\E f \in Flows : RemoveFlow(f)) \/ Clear \/ Resize
        BY <2>5, <2>8 DEF RemoveFlow, Clear, Resize, contents
    <2>9. ASSUME NEW i \in 1 .. Len(reqs), reqs[i].kind # "detail", Answered(i, 0)
          PROVE  WillShow(reqs', detail, selected, G)
        <3> DEFINE r == [kind |-> reqs[i].kind, flows |-> reqs[i].flows,
                         answered |-> TRUE, ver |-> 0]
                   F == Requests
        <3>1. reqs[i] \in Requests /\ \A j \in 1 .. Len(reqs) : j # i => reqs[j] \in F
            BY <1>2, ElementOfSeq
        <3>2. r \in F
            <4>1. TRUE \in BOOLEAN
                OBVIOUS
            <4> QED BY <3>1, <4>1 DEF Requests
        <3>3. r.kind = reqs[i].kind /\ r.flows = reqs[i].flows
            OBVIOUS
        <3>4. F \subseteq Requests /\ reqs \in Seq(F)
            BY <1>2
        <3> HIDE DEF F
        <3>5. /\ Len(reqs') = Len(reqs) /\ reqs'[i] = r
              /\ \A j \in 1 .. Len(reqs) : j # i => reqs'[j] = reqs[j]
            BY <2>9, <3>1, <3>2, <3>4, AnsweredProperties
        <3> HIDE DEF r, G
        <3> QED BY <2>9, <3>3, <3>5, AnsweredWillShow
    <2>10. ASSUME NEW i \in 1 .. Len(reqs), ServeMark(i) PROVE Goal
        <3>1. WillShow(reqs', detail, selected, G)
            BY <2>9, <2>10 DEF ServeMark
        <3>2. CASE \E f \in Flows : \E v : Says(f, v)
            BY <2>4, <3>1, <3>2 DEF Goal
        <3>3. CASE UNCHANGED <<server, chan>>
            <4>1. G' = G
                BY <1>3, <3>3 DEF Current, server
            <4> QED BY <3>1, <4>1 DEF Goal
        <3> QED BY <1>1, <2>10, <3>2, <3>3, MarkStep
    <2>11. ASSUME NEW i \in 1 .. Len(reqs), ServeDelete(i) PROVE Goal
        <3>1. WillShow(reqs', detail, selected, G)
            BY <2>9, <2>11 DEF ServeDelete
        <3>2. G' = G
            BY <1>3, <2>11 DEF Current, ServeDelete
        <3> QED BY <3>1, <3>2 DEF Goal
    <2> QED BY <1>6, <2>6, <2>7, <2>8, <2>10, <2>11 DEF ServerMoves
<1> QED BY <1>4, <1>5, <1>6

\* Every step keeps the detail as fresh as DetailInv says.
LEMMA DetailStep ==
    ASSUME Sound, DetailInv, [Next]_vars
    PROVE  DetailInv'
<1> DEFINE F == Errands(Seen)
<1>1. ServerInv /\ WireInv /\ ReqsInv /\ ViewInv
    BY DEF Sound
<1>2. /\ chan \in Seq(Letters(Seen)) /\ reqs \in Seq(F)
      /\ selected \in Seen \cup {None} /\ None \notin Stored /\ Seen \subseteq Flows
      /\ Stored \subseteq Seen /\ ver \in [Flows -> Nat] /\ behind \in BOOLEAN
    BY <1>1, NoneIsNoFlow DEF WireInv, ReqsInv, ViewInv, ServerInv, Seen
<1>a. ASSUME NEW i \in 1 .. Len(reqs)
      PROVE  reqs[i].kind # "batch" => \E f \in Flows : reqs[i].flows = {f}
    <2>1. reqs[i] \in F
        <3> HIDE DEF F
        <3> QED BY <1>2, ElementOfSeq
    <2> QED BY <2>1 DEF Errands
<1> HIDE DEF F
<1>3. CASE ServerMoves
    BY <1>3, DetailServer
<1> SUFFICES ASSUME ~ServerMoves, link' = "up", ~behind', selected' \in Stored'
             PROVE  \/ Prompted(chan', selected')
                    \/ WillShow(reqs', detail', selected', Current(selected)')
    BY <1>3 DEF DetailInv
<1> DEFINE Goal == \/ Prompted(chan', selected')
                   \/ WillShow(reqs', detail', selected', Current(selected'))
<1>4. UNCHANGED server /\ Stored' = Stored /\ selected' # None
    <2>1. UNCHANGED server
        BY OnlyServerMoves
    <2>2. Stored' = Stored
        BY <2>1 DEF server, Stored
    <2> QED BY <1>2, <2>1, <2>2
<1> SUFFICES Goal
    BY <1>4 DEF server, Current
<1>b. ASSUME link = "up", ~behind, selected \in Stored
      PROVE  Prompted(chan, selected) \/ WillShow(reqs, detail, selected, Current(selected))
    BY <1>b DEF DetailInv
<1>c. ASSUME UNCHANGED <<wire, selected, detail, reqs, behind>> PROVE Goal
    <2>1. link = "up" /\ chan' = chan /\ selected \in Stored /\ ~behind
        BY <1>4, <1>c DEF wire, server
    <2>2. Prompted(chan, selected) \/ WillShow(reqs, detail, selected, Current(selected))
        BY <1>b, <2>1
    <2> QED BY <1>c, <2>1, <2>2
<1>d. ASSUME NEW E, NEW u \in Seq(E), NEW f, f = selected', Request("detail", {f}) \in E,
             reqs' = Append(u, Request("detail", {f}))
      PROVE  Goal
    BY <1>d, AskedWillShow
<1>e. ASSUME NEW kind \in {"mark", "delete", "batch"}, NEW flows,
             reqs' = Append(reqs, Request(kind, flows)), UNCHANGED <<wire, selected, detail, behind>>
      PROVE  Goal
    <2> DEFINE r == Request(kind, flows)
               M == F \cup {r}
    <2>1. link = "up" /\ chan' = chan /\ selected \in Stored /\ ~behind
        BY <1>4, <1>e DEF wire, server
    <2>2. Prompted(chan, selected) \/ WillShow(reqs, detail, selected, Current(selected))
        BY <1>b, <2>1
    <2>3. r.kind # "detail"
        BY DEF Request
    <2> HIDE DEF r
    <2>4. reqs \in Seq(M) /\ r \in M
        <3>1. F \subseteq M /\ r \in M
            OBVIOUS
        <3> HIDE DEF M
        <3> QED BY <1>2, <3>1, SeqMonotonic
    <2> HIDE DEF M
    <2>5. ASSUME WillShow(reqs, detail, selected, Current(selected))
          PROVE  WillShow(Append(reqs, r), detail, selected, Current(selected))
        BY <2>3, <2>4, <2>5, AppendWillShow
    <2> QED BY <1>e, <2>1, <2>2, <2>5 DEF r
<1>5. ASSUME NEW i \in 1 .. Len(reqs), ServeDetail(i) PROVE Goal
    <2> DEFINE f == CHOOSE g \in reqs[i].flows : TRUE
               n == IF f \in Stored THEN ver[f] ELSE 0
               r == [kind |-> reqs[i].kind, flows |-> reqs[i].flows, answered |-> TRUE, ver |-> n]
    <2>1. /\ reqs[i].kind = "detail" /\ Answered(i, n)
          /\ link = "up" /\ chan' = chan /\ selected \in Stored /\ ~behind
          /\ UNCHANGED <<selected, detail>>
        BY <1>4, <1>5 DEF ServeDetail, wire, server, page
    <2>2. Prompted(chan, selected) \/ WillShow(reqs, detail, selected, Current(selected))
        BY <1>b, <2>1
    <2>3. reqs[i].flows = {selected} => n \in Current(selected)
        BY <1>1, <2>1, GoodsProperties
    <2>4. n \in Nat
        <3>1. Stored \subseteq Flows
            BY <1>2
        <3> HIDE DEF f
        <3> QED BY <1>2, <3>1
    <2> HIDE DEF n
    <2>5. reqs \in Seq(Requests)
        <3>1. F \subseteq Requests
            BY DEF F, Errands
        <3> QED BY <1>2, <3>1, SeqMonotonic
    <2>6. reqs[i] \in Requests /\ \A j \in 1 .. Len(reqs) : j # i => reqs[j] \in Requests
        BY <2>5, ElementOfSeq
    <2>7. r \in Requests
        <3>1. TRUE \in BOOLEAN
            OBVIOUS
        <3> QED BY <2>4, <2>6, <3>1 DEF Requests
    <2>8. r.kind = reqs[i].kind /\ r.flows = reqs[i].flows /\ r.ver = n
        OBVIOUS
    <2> DEFINE R == Requests
    <2>9. R \subseteq Requests /\ reqs \in Seq(R) /\ r \in R
          /\ \A j \in 1 .. Len(reqs) : j # i => reqs[j] \in R
        BY <2>5, <2>6, <2>7
    <2> HIDE DEF R
    <2>10. /\ Len(reqs') = Len(reqs) /\ reqs'[i] = r
           /\ \A j \in 1 .. Len(reqs) : j # i => reqs'[j] = reqs[j]
        BY <2>1, <2>4, <2>9, AnsweredProperties
    <2> HIDE DEF r
    <2>11. ASSUME WillShow(reqs, detail, selected, Current(selected))
           PROVE  WillShow(reqs', detail, selected, Current(selected))
        BY <2>3, <2>8, <2>10, <2>11, AnsweredWillShow
    <2> QED BY <2>1, <2>2, <2>11
<1>6. ASSUME NEW i \in 1 .. Len(reqs), HandleDetail(i) PROVE Goal
    <2> DEFINE G == Current(selected)
    <2>1. /\ reqs[i].kind = "detail" /\ reqs[i].answered
          /\ link = "up" /\ chan' = chan /\ selected \in Stored /\ ~behind
          /\ selected' = selected /\ reqs' = Settle(i)
          /\ \A j \in 1 .. i - 1 : reqs[j].kind # "detail"
        BY <1>4, <1>6 DEF HandleDetail, wire, server
    <2>2. Prompted(chan, selected) \/ WillShow(reqs, detail, selected, G)
        BY <1>b, <2>1
    <2>3. detail' = IF reqs[i].ver = 0 THEN detail
                    ELSE [flow |-> CHOOSE g \in reqs[i].flows : TRUE, ver |-> reqs[i].ver]
        BY <1>6 DEF HandleDetail
    <2>4. 0 \notin G
        BY <1>1, <2>1, GoodsProperties
    <2>5. ASSUME WillShow(reqs, detail, selected, G)
          PROVE  WillShow(Settle(i), detail', selected, G)
        <3>1. \/ WillShow(Settle(i), detail', selected, G)
              \/ /\ reqs[i].flows = {selected} /\ reqs[i].ver \in G
                 /\ Quiet(Settle(i))
            <4>1. ~Quiet(reqs)
                BY <2>1 DEF Quiet
            <4>2. WillShow(reqs, detail', selected, G)
                BY <2>5, <4>1 DEF WillShow
            <4>3. \/ WillShow(Settle(i), detail', selected, G)
                  \/ /\ reqs[i].kind = "detail" /\ reqs[i].flows = {selected}
                     /\ reqs[i].answered => reqs[i].ver \in G
                     /\ Quiet(Settle(i))
                BY <1>2, <2>1, <4>2, SettleWillShow
            <4> QED BY <2>1, <4>3
        <3>2. ASSUME reqs[i].flows = {selected}, reqs[i].ver \in G, Quiet(Settle(i))
              PROVE  WillShow(Settle(i), detail', selected, G)
            <4>1. detail' = [flow |-> selected, ver |-> reqs[i].ver]
                BY <2>3, <2>4, <3>2
            <4> QED BY <3>2, <4>1 DEF WillShow
        <3> QED BY <3>1, <3>2
    <2> QED BY <2>1, <2>2, <2>5
<1>7. ASSUME NEW i \in 1 .. Len(reqs), HandleMarked(i) PROVE Goal
    <2> DEFINE f == CHOOSE g \in reqs[i].flows : TRUE
    <2>1. reqs' = Append(Settle(i), Request("detail", {f})) /\ f = selected'
        BY <1>7 DEF HandleMarked, Ask
    <2> HIDE DEF f
    <2> DEFINE u == Settle(i)
               M == F \cup {Request("detail", {f})}
    <2>2. u \in Seq(F)
        BY <1>2, SettleProperties
    <2> HIDE DEF u
    <2>3. u \in Seq(M) /\ Request("detail", {f}) \in M
        <3>1. F \subseteq M /\ Request("detail", {f}) \in M
            OBVIOUS
        <3> HIDE DEF M
        <3> QED BY <2>2, <3>1, SeqMonotonic
    <2> HIDE DEF M
    <2> QED BY <1>d, <2>1, <2>3 DEF u
<1>8. ASSUME NEW i \in 1 .. Len(reqs), HandleDeleted(i) \/ HandleBatchDeleted(i) PROVE Goal
    <2>1. /\ reqs[i].kind # "detail"
          /\ link = "up" /\ chan' = chan /\ reqs' = Settle(i)
          /\ Deselect(reqs[i].flows) \/ Deselect(picked)
        BY <1>4, <1>8 DEF HandleDeleted, HandleBatchDeleted, wire, server
    <2>2. UNCHANGED <<selected, detail, behind>>
        BY <1>4, <2>1 DEF Deselect
    <2>3. Prompted(chan, selected) \/ WillShow(reqs, detail, selected, Current(selected))
        BY <1>4, <1>b, <2>1, <2>2
    <2>4. ASSUME WillShow(reqs, detail, selected, Current(selected))
          PROVE  WillShow(Settle(i), detail, selected, Current(selected))
        BY <1>2, <2>1, <2>4, SettleWillShow
    <2> QED BY <2>1, <2>2, <2>3, <2>4
<1>9. CASE Connect("unopened") \/ Connect("down")
    <2>1. chan' = <<Snapshot>>
        BY <1>9 DEF Connect, Snapshot
    <2> DEFINE m == Snapshot
    <2>2. Prompts(m, selected')
        BY DEF Snapshot, Prompts
    <2> HIDE DEF m
    <2>3. 1 \in 1 .. Len(<<m>>) /\ <<m>>[1] = m
        OBVIOUS
    <2>4. Prompted(<<m>>, selected')
        BY <2>2, <2>3 DEF Prompted
    <2> QED BY <2>1, <2>4 DEF m
<1>10. CASE Drop
    BY <1>10 DEF Drop
<1>11. CASE Deliver
    <2> DEFINE m == Head(chan)
    <2>1. /\ chan # <<>> /\ chan' = Tail(chan) /\ link = "up" /\ selected' = selected
          /\ detail' = detail /\ m \in Letters(Seen)
        BY <1>1, <1>11, DeliverPage, HeadIsLetter
    <2>a. ASSUME ~Prompts(m, selected), UNCHANGED <<reqs, behind>> PROVE Goal
        <3>1. Prompted(chan, selected) \/ WillShow(reqs, detail, selected, Current(selected))
            BY <1>4, <1>b, <2>1, <2>a
        <3>2. ASSUME Prompted(chan, selected) PROVE Prompted(Tail(chan), selected)
            BY <1>2, <2>a, <3>2, PromptedStep
        <3> QED BY <2>1, <2>a, <3>1, <3>2
    <2>2. CASE HandleSnapshot
        BY <1>4, <2>2 DEF HandleSnapshot
    <2>b. CASE HandleAdd
        <3>1. m.type = "add" /\ reqs' = reqs /\ behind' = (behind \/ selected = m.flows[1].flow)
            BY <2>b DEF HandleAdd, Receive
        <3>2. behind' = behind /\ selected # m.flows[1].flow
            BY <1>2, <3>1
        <3> QED BY <2>a, <3>1, <3>2 DEF Prompts
    <2>3. CASE HandleRemoved \/ HandleClear
        BY <2>3, <2>a DEF HandleRemoved, HandleClear, Receive, Prompts, page
    <2>4. CASE HandleUpdate
        <3> DEFINE f == m.flows[1].flow
        <3>1. m.type = "update"
              /\ IF selected = f THEN Ask(reqs, f) ELSE UNCHANGED <<reqs, behind>>
            BY <2>4 DEF HandleUpdate, Receive
        <3>2. CASE selected = f
            <4>1. reqs' = Append(reqs, Request("detail", {f})) /\ f = selected'
                BY <2>1, <3>1, <3>2 DEF Ask
            <4> HIDE DEF f
            <4> DEFINE M == F \cup {Request("detail", {f})}
            <4>2. reqs \in Seq(M) /\ Request("detail", {f}) \in M
                <5>1. F \subseteq M /\ Request("detail", {f}) \in M
                    OBVIOUS
                <5> HIDE DEF M
                <5> QED BY <1>2, <5>1, SeqMonotonic
            <4> HIDE DEF M
            <4> QED BY <1>d, <4>1, <4>2
        <3>3. CASE selected # f
            BY <2>a, <3>1, <3>3 DEF Prompts
        <3> QED BY <3>2, <3>3
    <2> QED BY <1>11, <2>b, <2>2, <2>3, <2>4 DEF Deliver
<1>12. ASSUME NEW f \in Flows, Click(f) PROVE Goal
    <2>1. reqs' = Append(reqs, Request("detail", {f})) /\ f = selected'
        BY <1>12 DEF Click, Ask
    <2> DEFINE M == F \cup {Request("detail", {f})}
    <2>2. reqs \in Seq(M) /\ Request("detail", {f}) \in M
        <3>1. F \subseteq M /\ Request("detail", {f}) \in M
            OBVIOUS
        <3> HIDE DEF M
        <3> QED BY <1>2, <3>1, SeqMonotonic
    <2> HIDE DEF M
    <2> QED BY <1>d, <2>1, <2>2
<1>13. ASSUME NEW f \in Flows, Toggle(f) \/ RangeSelect(f) PROVE Goal
    BY <1>13, <1>c DEF Toggle, RangeSelect
<1>14. CASE SelectAllVisible \/ ClearSelection
    BY <1>14, <1>c DEF SelectAllVisible, ClearSelection
<1>15. ASSUME NEW f \in Flows, DeleteFlow(f) PROVE Goal
    BY <1>15, <1>e DEF DeleteFlow, Post
<1>16. CASE Mark \/ BatchDelete
    BY <1>16, <1>e DEF Mark, BatchDelete, Post
<1>17. CASE UNCHANGED vars
    BY <1>17, <1>c DEF vars, wire
<1> QED BY <1>5, <1>6, <1>7, <1>8, <1>9, <1>10, <1>11, <1>12, <1>13, <1>14, <1>15, <1>16, <1>17
        DEF Next, Serve, Handle, ServerMoves

\* The detail pane shows of its flow what the store has, or at least nothing older
\* than what was said of it last, once nothing is under way and unless the page
\* itself has reason to doubt it (app.js:331-354, 592) or a session load put a copy
\* in the flow's place (app.js:53-56): the detail the page asked for last is
\* answered with what the flow is by then, or something that will have it asked for
\* again is still on its way.
THEOREM InspectorDetailRefreshes == Spec => []DetailRefreshes
<1>1. Init => DetailInv
    BY DEF Init, DetailInv
<1>2. Sound /\ DetailInv /\ [Next]_vars => DetailInv'
    BY DetailStep
<1>3. Sound /\ DetailInv => DetailRefreshes
    <2> SUFFICES ASSUME Sound, DetailInv, link = "up", chan = <<>>, reqs = <<>>, ~behind,
                        selected \in Stored
                 PROVE  detail.flow = selected /\ detail.ver \in Current(selected)
        BY DEF DetailRefreshes
    <2> DEFINE G == Current(selected)
    <2>1. Prompted(chan, selected) \/ WillShow(reqs, detail, selected, G)
        BY DEF DetailInv
    <2> HIDE DEF G
    <2>2. Len(<<>>) = 0
        BY EmptySeq
    <2>3. ~Prompted(<<>>, selected) /\ ~Awaits(<<>>, selected, G)
        BY <2>2 DEF Prompted, Awaits
    <2>4. detail.flow = selected /\ detail.ver \in G
        BY <2>1, <2>3 DEF WillShow
    <2> QED BY <2>4 DEF G
<1> QED BY <1>1, <1>2, <1>3, SoundInit, SoundStep, PTL DEF Spec

=============================================================================
