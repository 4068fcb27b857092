----------------------------- MODULE SubsequenceProofs -----------------------------
(***************************************************************************)
(* What Only and Places do, for every sequence, set and place, and the     *)
(* induction these facts rest on.  The induction is said of sets of        *)
(* naturals and of sequences, and follows from Nat's being well-founded:   *)
(* in this form it can be used without an operator for a parameter.        *)
(***************************************************************************)
EXTENDS Subsequences, SequenceTheorems, WellFoundedInduction, TLAPS

\* A set of naturals that is not empty has a least element.
LEMMA LeastElement ==
    ASSUME NEW T \in SUBSET Nat, T # {}
    PROVE  \E x \in T : \A y \in T : x <= y
<1> DEFINE R == OpToRel(<, Nat)
<1>1. IsWellFoundedOn(R, Nat)
    BY NatLessThanWellFounded
<1>2. \E x \in T : \A y \in T : ~(<<y, x>> \in R)
    <2> HIDE DEF R
    <2> QED BY <1>1, WFMin
<1>3. ASSUME NEW x \in Nat, NEW y \in Nat, y < x PROVE <<y, x>> \in R
    BY <1>3 DEF OpToRel
<1> HIDE DEF R
<1>4. PICK x \in T : \A y \in T : ~(<<y, x>> \in R)
    BY <1>2
<1>5. ASSUME NEW y \in T PROVE x <= y
    <2>1. x \in Nat /\ y \in Nat OBVIOUS
    <2>2. ~(y < x) BY <1>3, <1>4, <2>1
    <2> QED BY <2>1, <2>2
<1> QED BY <1>5

\* Induction, said of a set: one that has 0 and every successor is Nat.
LEMMA NatSetInduction ==
    ASSUME NEW G \in SUBSET Nat, 0 \in G, \A n \in G : n + 1 \in G
    PROVE  G = Nat
<1> DEFINE T == Nat \ G
<1> SUFFICES ASSUME T # {} PROVE FALSE OBVIOUS
<1>1. PICK x \in T : \A y \in T : x <= y
    BY LeastElement
<1>2. x \in Nat /\ x # 0 /\ x - 1 \in Nat BY <1>1
<1>3. x - 1 \in G BY <1>1, <1>2
<1> QED BY <1>1, <1>2, <1>3

\* The same of sequences: a set that has <<>> and is closed under Append.
LEMMA SeqSetInduction ==
    ASSUME NEW E, NEW P \in SUBSET Seq(E), <<>> \in P,
           \A s \in P, e \in E : Append(s, e) \in P
    PROVE  P = Seq(E)
<1> DEFINE G == {n \in Nat : \A s \in Seq(E) : Len(s) = n => s \in P}
<1>1. 0 \in G
    BY EmptySeq
<1>2. ASSUME NEW n \in G PROVE n + 1 \in G
    <2> SUFFICES ASSUME NEW s \in Seq(E), Len(s) = n + 1 PROVE s \in P
        OBVIOUS
    <2>1. s # <<>>
        BY EmptySeq
    <2>2. PICK f \in Seq(E), e \in E : s = Append(f, e)
        BY <2>1, SequenceEmptyOrAppend
    <2>3. Len(f) = n
        BY <2>2, AppendProperties, LenProperties
    <2> QED BY <2>2, <2>3
<1>3. G = Nat
    <2> HIDE DEF G
    <2>1. G \subseteq Nat BY DEF G
    <2> QED BY <1>1, <1>2, <2>1, NatSetInduction
<1>4. ASSUME NEW s \in Seq(E) PROVE s \in P
    <2>1. Len(s) \in G BY <1>3, LenProperties
    <2> QED BY <2>1
<1> QED BY <1>4

Steps(N, S) == [(1 .. N) \X S -> S]
Iterates(f, G, base, N, S) ==
    /\ f \in [0 .. N -> S]
    /\ f[0] = base
    /\ \A n \in 1 .. N : f[n] = G[<<n, f[n - 1]>>]

\* A function on 0 .. N that is built step by step from `base` exists.
LEMMA RecursionOnInterval ==
    ASSUME NEW S, NEW base \in S, NEW N \in Nat, NEW G \in Steps(N, S)
    PROVE  \E f : Iterates(f, G, base, N, S)
<1> USE DEF Steps
<1> DEFINE Defined(M, f) == f[0] = base /\ \A n \in 1 .. M : f[n] = G[<<n, f[n - 1]>>]
           H == {M \in Nat : M <= N => \E f \in [0 .. M -> S] : Defined(M, f)}
<1>1. 0 \in H
    <2> DEFINE f == [n \in 0 .. 0 |-> base]
    <2>1. f \in [0 .. 0 -> S] /\ Defined(0, f) OBVIOUS
    <2> HIDE DEF f, Defined
    <2> QED BY <2>1
<1>2. ASSUME NEW M \in H PROVE M + 1 \in H
    <2> SUFFICES ASSUME M + 1 <= N PROVE \E f \in [0 .. M + 1 -> S] : Defined(M + 1, f)
        OBVIOUS
    <2>1. PICK f \in [0 .. M -> S] : Defined(M, f) OBVIOUS
    <2> DEFINE g == [n \in 0 .. M + 1 |-> IF n = M + 1 THEN G[<<n, f[M]>>] ELSE f[n]]
    <2>2. G[<<M + 1, f[M]>>] \in S BY <2>1
    <2>3. g \in [0 .. M + 1 -> S] BY <2>2
    <2>4. g[0] = base BY <2>1
    <2>5. ASSUME NEW n \in 1 .. M + 1 PROVE g[n] = G[<<n, g[n - 1]>>]
        <3>1. n - 1 \in 0 .. M /\ g[n - 1] = f[n - 1] OBVIOUS
        <3>2. CASE n = M + 1 BY <3>1, <3>2
        <3>3. CASE n # M + 1
            <4>1. n \in 1 .. M /\ n \in 0 .. M BY <3>3
            <4>2. g[n] = f[n] BY <4>1, <3>3
            <4>3. f[n] = G[<<n, f[n - 1]>>] BY <2>1, <4>1
            <4> QED BY <3>1, <4>2, <4>3
        <3> QED BY <3>2, <3>3
    <2> HIDE DEF g
    <2> QED BY <2>3, <2>4, <2>5
<1>3. H = Nat
    <2> HIDE DEF H
    <2>1. H \subseteq Nat BY DEF H
    <2> QED BY <1>1, <1>2, <2>1, NatSetInduction
<1>4. N \in H
    BY <1>3
<1>5. PICK f \in [0 .. N -> S] : Defined(N, f)
    <2> HIDE DEF Defined
    <2> QED BY <1>4
<1> QED BY <1>5 DEF Iterates

\* The functions on D with a value in V[x] at each x.
Values(D, V) == {h \in [D -> UNION {V[x] : x \in D}] : \A x \in D : h[x] \in V[x]}

\* Step, which gives a value for a place and a function, gives the right kind of
\* value, and asks the function only about places of lower measure.
Descends(D, V, m, F, Step) ==
    /\ \A x \in D : V[x] # {}
    /\ \A x \in D, h \in Values(D, V) : Step[<<x, h>>] \in V[x]
    /\ \A x \in D, g \in F, h \in Values(D, V) :
            (\A y \in D : m[y] < m[x] => g[y] = h[y]) => Step[<<x, g>>] = Step[<<x, h>>]

Solves(D, Step, f) == \A x \in D : f[x] = Step[<<x, f>>]

\* What replaces values by others of their kind is of the kind.
LEMMA ValuesPatched ==
    ASSUME NEW D, NEW V, NEW v, \A x \in D : v[x] \in V[x]
    PROVE  [x \in D |-> v[x]] \in Values(D, V)
BY DEF Values

\* A function that is defined by its values at places of lower measure exists.
LEMMA RecursionExists ==
    ASSUME NEW D, NEW V, NEW N \in Nat, NEW m \in [D -> 0 .. N], NEW Step,
           Descends(D, V, m, Values(D, V), Step)
    PROVE  \E f \in Values(D, V) : Solves(D, Step, f)
<1> DEFINE F == Values(D, V)
           Upto(k, f) == \A x \in D : m[x] < k => f[x] = Step[<<x, f>>]
           H == {k \in Nat : \E f \in F : Upto(k, f)}
<1>1. /\ \A x \in D : V[x] # {}
      /\ \A x \in D, h \in F : Step[<<x, h>>] \in V[x]
      /\ \A x \in D, g \in F, h \in F :
            (\A y \in D : m[y] < m[x] => g[y] = h[y]) => Step[<<x, g>>] = Step[<<x, h>>]
    BY DEF Descends
<1>2. 0 \in H
    <2> DEFINE v == [x \in D |-> CHOOSE w \in V[x] : TRUE]
    <2>1. \A x \in D : v[x] \in V[x]
        BY <1>1
    <2> HIDE DEF v
    <2>2. PICK f \in F : TRUE
        BY <2>1, ValuesPatched
    <2>3. Upto(0, f)
        OBVIOUS
    <2> QED BY <2>3
<1>3. ASSUME NEW k \in H PROVE k + 1 \in H
    <2>1. PICK f \in F : Upto(k, f)
        OBVIOUS
    <2> DEFINE v == [x \in D |-> IF m[x] = k THEN Step[<<x, f>>] ELSE f[x]]
               g == [x \in D |-> v[x]]
    <2>2. \A x \in D : v[x] \in V[x]
        BY <1>1 DEF Values
    <2>3. g \in F
        <3> HIDE DEF v
        <3> QED BY <2>2, ValuesPatched
    <2>4. ASSUME NEW x \in D, m[x] < k + 1 PROVE g[x] = Step[<<x, g>>]
        <3>1. \A y \in D : m[y] < m[x] => g[y] = f[y]
            BY <2>4
        <3> HIDE DEF g, F
        <3>2. Step[<<x, g>>] = Step[<<x, f>>]
            BY <1>1, <2>1, <2>3, <3>1
        <3>3. CASE m[x] = k
            <4>1. g[x] = Step[<<x, f>>]
                BY <3>3 DEF g
            <4> QED BY <3>2, <4>1
        <3>4. CASE m[x] # k
            <4>1. g[x] = f[x] /\ m[x] < k
                BY <2>4, <3>4 DEF g
            <4> QED BY <2>1, <3>2, <4>1
        <3> QED BY <3>3, <3>4
    <2> HIDE DEF g
    <2>5. Upto(k + 1, g)
        BY <2>4
    <2> HIDE DEF Upto
    <2> QED BY <2>3, <2>5
<1>4. H = Nat
    <2>1. H \subseteq Nat
        OBVIOUS
    <2> HIDE DEF H
    <2> QED BY <1>2, <1>3, <2>1, NatSetInduction
<1>5. PICK f \in F : Upto(N + 1, f)
    <2> HIDE DEF Upto, F
    <2>1. N + 1 \in H
        BY <1>4
    <2> QED BY <2>1
<1>6. Solves(D, Step, f)
    BY <1>5 DEF Solves
<1> QED BY <1>6

\* Whatever is defined so has values of the right kind.
LEMMA RecursionTyped ==
    ASSUME NEW D, NEW V, NEW N \in Nat, NEW m \in [D -> 0 .. N], NEW F, NEW Step,
           Descends(D, V, m, F, Step), NEW f \in F, Solves(D, Step, f)
    PROVE  \A x \in D : f[x] \in V[x]
<1> DEFINE H == {k \in Nat : \A x \in D : m[x] < k => f[x] \in V[x]}
<1>1. 0 \in H
    OBVIOUS
<1>2. ASSUME NEW k \in H PROVE k + 1 \in H
    <2> DEFINE v == [x \in D |-> IF m[x] < k THEN f[x] ELSE CHOOSE w \in V[x] : TRUE]
               g == [x \in D |-> v[x]]
    <2>1. \A x \in D : v[x] \in V[x]
        BY DEF Descends
    <2>2. g \in Values(D, V)
        <3> HIDE DEF v
        <3> QED BY <2>1, ValuesPatched
    <2>3. ASSUME NEW x \in D, m[x] < k + 1 PROVE f[x] \in V[x]
        <3>1. \A y \in D : m[y] < m[x] => f[y] = g[y]
            BY <2>3
        <3> HIDE DEF g
        <3>2. Step[<<x, f>>] = Step[<<x, g>>] /\ Step[<<x, g>>] \in V[x]
            BY <2>2, <3>1 DEF Descends
        <3> QED BY <3>2 DEF Solves
    <2> QED BY <2>3
<1>3. H = Nat
    <2>1. H \subseteq Nat
        OBVIOUS
    <2> HIDE DEF H
    <2> QED BY <1>1, <1>2, <2>1, NatSetInduction
<1>4. N + 1 \in H
    <2> HIDE DEF H
    <2> QED BY <1>3
<1> QED BY <1>4

\* What comes of `base` when a function of what was before and of an element is
\* applied to the elements of s, one after the other.
Accumulate(G, base, s) ==
    LET fold[n \in 0 .. Len(s)] == IF n = 0 THEN base ELSE G[<<fold[n - 1], s[n]>>]
    IN  fold[Len(s)]

Accumulates(f, G, base, s, S) ==
    /\ f \in [0 .. Len(s) -> S]
    /\ f[0] = base
    /\ \A n \in 1 .. Len(s) : f[n] = G[<<f[n - 1], s[n]>>]
    /\ Accumulate(G, base, s) = f[Len(s)]

\* The recursive function inside Accumulate exists.
LEMMA AccumulateIsComputed ==
    ASSUME NEW S, NEW E, NEW G \in [S \X E -> S], NEW base \in S, NEW s \in Seq(E)
    PROVE  \E f : Accumulates(f, G, base, s, S)
<1> DEFINE N == Len(s)
           K == [x \in (1 .. N) \X S |-> G[<<x[2], s[x[1]]>>]]
           Rec(f) == f = [n \in 0 .. N |-> IF n = 0 THEN base ELSE G[<<f[n - 1], s[n]>>]]
           fold == CHOOSE f : Rec(f)
<1>1. N \in Nat /\ \A n \in 1 .. N : s[n] \in E
    BY LenProperties, ElementOfSeq
<1>2. K \in Steps(N, S)
    <2> SUFFICES ASSUME NEW n \in 1 .. N, NEW q \in S PROVE G[<<q, s[n]>>] \in S
        BY DEF Steps
    <2>1. <<q, s[n]>> \in S \X E
        BY <1>1
    <2> QED BY <2>1
<1>3. PICK f : Iterates(f, K, base, N, S)
    <2> HIDE DEF K, N
    <2> QED BY <1>1, <1>2, RecursionOnInterval
<1>4. /\ f \in [0 .. N -> S] /\ f[0] = base
      /\ \A n \in 1 .. N : f[n] = K[<<n, f[n - 1]>>]
    BY <1>3 DEF Iterates
<1>5. ASSUME NEW n \in 1 .. N PROVE f[n] = G[<<f[n - 1], s[n]>>]
    <2>1. n - 1 \in 0 .. N
        BY <1>1
    <2>2. f[n - 1] \in S
        BY <1>4, <2>1
    <2>3. K[<<n, f[n - 1]>>] = G[<<f[n - 1], s[n]>>]
        BY <2>2
    <2> QED BY <1>4, <2>3
<1>6. Rec(f)
    <2> DEFINE h == [n \in 0 .. N |-> IF n = 0 THEN base ELSE G[<<f[n - 1], s[n]>>]]
    <2>1. ASSUME NEW n \in 0 .. N PROVE f[n] = h[n]
        <3>1. CASE n = 0
            BY <1>4, <3>1
        <3>2. CASE n # 0
            <4>1. n \in 1 .. N
                BY <1>1, <3>2
            <4> QED BY <1>5, <3>2, <4>1
        <3> QED BY <3>1, <3>2
    <2> HIDE DEF h
    <2>2. f = [n \in 0 .. N |-> h[n]]
        BY <1>4, <2>1
    <2>3. h = [n \in 0 .. N |-> h[n]]
        BY DEF h
    <2> QED BY <2>2, <2>3 DEF h
<1>7. Rec(fold)
    <2> HIDE DEF Rec
    <2> QED BY <1>6
<1>8. Accumulate(G, base, s) = fold[N]
    BY DEF Accumulate
<1> HIDE DEF fold, N
<1>9. /\ fold = [n \in 0 .. N |-> fold[n]]
      /\ fold[0] = base
      /\ \A n \in 1 .. N : fold[n] = G[<<fold[n - 1], s[n]>>]
    <2>1. fold = [n \in 0 .. N |-> IF n = 0 THEN base ELSE G[<<fold[n - 1], s[n]>>]]
        BY <1>7
    <2>2. \A n \in 0 .. N : fold[n] = IF n = 0 THEN base ELSE G[<<fold[n - 1], s[n]>>]
        BY <2>1
    <2>3. fold = [n \in 0 .. N |-> fold[n]]
        BY <2>1
    <2>4. 0 \in 0 .. N /\ \A n \in 1 .. N : n \in 0 .. N /\ n # 0
        BY <1>1
    <2> HIDE <1>7
    <2> QED BY <2>2, <2>3, <2>4
<1>10. fold \in [0 .. N -> S]
    <2> DEFINE H == {n \in Nat : n \in 0 .. N => fold[n] \in S}
    <2>1. 0 \in H
        BY <1>9
    <2>2. ASSUME NEW n \in H PROVE n + 1 \in H
        <3> SUFFICES ASSUME n + 1 \in 1 .. N PROVE fold[n + 1] \in S
            BY <1>1
        <3>1. n \in 0 .. N /\ fold[n] \in S /\ s[n + 1] \in E /\ (n + 1) - 1 = n
            BY <1>1
        <3>2. <<fold[n], s[n + 1]>> \in S \X E
            BY <3>1
        <3>3. fold[n + 1] = G[<<fold[n], s[n + 1]>>]
            BY <1>9, <3>1
        <3> QED BY <3>2, <3>3
    <2>3. H = Nat
        <3>1. H \subseteq Nat
            OBVIOUS
        <3> HIDE DEF H
        <3> QED BY <2>1, <2>2, <3>1, NatSetInduction
    <2> QED BY <1>1, <1>9, <2>3
<1> QED BY <1>8, <1>9, <1>10 DEF Accumulates, N

\* What comes of nothing is the base.
LEMMA AccumulateEmpty ==
    ASSUME NEW S, NEW E, NEW G \in [S \X E -> S], NEW base \in S
    PROVE  Accumulate(G, base, <<>>) = base
<1>1. <<>> \in Seq(E) /\ Len(<<>>) = 0
    BY EmptySeq
<1>2. PICK f : Accumulates(f, G, base, <<>>, S)
    BY <1>1, AccumulateIsComputed
<1> QED BY <1>1, <1>2 DEF Accumulates

\* What comes of the elements is typed.
LEMMA AccumulateType ==
    ASSUME NEW S, NEW E, NEW G \in [S \X E -> S], NEW base \in S, NEW s \in Seq(E)
    PROVE  Accumulate(G, base, s) \in S
<1>1. PICK f : Accumulates(f, G, base, s, S)
    BY AccumulateIsComputed
<1>2. Len(s) \in 0 .. Len(s)
    BY LenProperties
<1> QED BY <1>1, <1>2 DEF Accumulates

\* One more element is applied to what came of the others.
OneMore(G, base, s, e) ==
    Accumulate(G, base, Append(s, e)) = G[<<Accumulate(G, base, s), e>>]

\* It is so for every sequence and element.
LEMMA AccumulateAppend ==
    ASSUME NEW S, NEW E, NEW G \in [S \X E -> S], NEW base \in S, NEW s \in Seq(E), NEW e \in E
    PROVE  OneMore(G, base, s, e)
<1> DEFINE more == Append(s, e)
           N == Len(s)
<1>1. /\ more \in Seq(E) /\ Len(more) = N + 1 /\ N \in Nat
      /\ \A i \in 1 .. N : more[i] = s[i]
      /\ more[N + 1] = e
    BY AppendProperties, LenProperties
<1>2. PICK f : Accumulates(f, G, base, s, S)
    BY AccumulateIsComputed
<1>3. /\ f[0] = base /\ Accumulate(G, base, s) = f[N]
      /\ \A n \in 1 .. N : f[n] = G[<<f[n - 1], s[n]>>]
    BY <1>2 DEF Accumulates
<1> HIDE DEF more, N
<1>4. PICK g : Accumulates(g, G, base, more, S)
    BY <1>1, AccumulateIsComputed
<1>5. /\ g[0] = base /\ Accumulate(G, base, more) = g[N + 1]
      /\ \A n \in 1 .. N + 1 : g[n] = G[<<g[n - 1], more[n]>>]
    BY <1>1, <1>4 DEF Accumulates
<1> DEFINE H == {n \in Nat : n <= N => g[n] = f[n]}
<1>6. 0 \in H
    BY <1>3, <1>5
<1>7. ASSUME NEW n \in H PROVE n + 1 \in H
    <2> SUFFICES ASSUME n + 1 <= N PROVE g[n + 1] = f[n + 1]
        OBVIOUS
    <2>1. n + 1 \in 1 .. N /\ n + 1 \in 1 .. N + 1 /\ (n + 1) - 1 = n
        BY <1>1
    <2>2. g[n] = f[n] /\ more[n + 1] = s[n + 1]
        BY <1>1, <2>1
    <2>3. g[n + 1] = G[<<g[n], more[n + 1]>>]
        BY <1>5, <2>1
    <2>4. f[n + 1] = G[<<f[n], s[n + 1]>>]
        BY <1>3, <2>1
    <2> QED BY <2>2, <2>3, <2>4
<1>8. H = Nat
    <2>1. H \subseteq Nat
        OBVIOUS
    <2> HIDE DEF H
    <2> QED BY <1>6, <1>7, <2>1, NatSetInduction
<1>9. g[N] = f[N]
    BY <1>1, <1>8
<1>10. N + 1 \in 1 .. N + 1 /\ (N + 1) - 1 = N
    BY <1>1
<1>11. g[N + 1] = G[<<g[N], more[N + 1]>>]
    BY <1>5, <1>10
<1>12. Accumulate(G, base, more) = G[<<Accumulate(G, base, s), e>>]
    BY <1>1, <1>3, <1>5, <1>9, <1>11
<1> QED BY <1>12 DEF more, OneMore

Computes(f, s, T, E) ==
    /\ f \in [0 .. Len(s) -> Seq(E)]
    /\ f[0] = <<>>
    /\ \A n \in 1 .. Len(s) :
            f[n] = IF s[n] \in T THEN Append(f[n - 1], s[n]) ELSE f[n - 1]
    /\ Only(s, T) = f[Len(s)]

\* The recursive function inside Only exists, and ends in Only(s, T).
LEMMA OnlyIsComputed ==
    ASSUME NEW E, NEW s \in Seq(E), NEW T
    PROVE  \E f : Computes(f, s, T, E)
<1> DEFINE G == [x \in (1 .. Len(s)) \X Seq(E) |->
                    IF s[x[1]] \in T THEN Append(x[2], s[x[1]]) ELSE x[2]]
           Rec(f) == f = [n \in 0 .. Len(s) |->
                            IF n = 0 THEN <<>>
                            ELSE IF s[n] \in T THEN Append(f[n - 1], s[n]) ELSE f[n - 1]]
           only == CHOOSE f : Rec(f)
<1>1. Len(s) \in Nat /\ <<>> \in Seq(E)
    BY LenProperties, EmptySeq
<1>2. G \in [(1 .. Len(s)) \X Seq(E) -> Seq(E)]
    <2> SUFFICES ASSUME NEW n \in 1 .. Len(s), NEW t \in Seq(E)
                 PROVE  (IF s[n] \in T THEN Append(t, s[n]) ELSE t) \in Seq(E)
        OBVIOUS
    <2> QED BY ElementOfSeq, AppendProperties
<1>3. PICK f : Iterates(f, G, <<>>, Len(s), Seq(E))
    <2> HIDE DEF G
    <2> QED BY <1>1, <1>2, RecursionOnInterval DEF Steps
<1>3a. f \in [0 .. Len(s) -> Seq(E)] /\ f[0] = <<>> /\ \A n \in 1 .. Len(s) : f[n] = G[<<n, f[n - 1]>>]
    BY <1>3 DEF Iterates
<1>4. ASSUME NEW n \in 1 .. Len(s)
      PROVE  G[<<n, f[n - 1]>>] = IF s[n] \in T THEN Append(f[n - 1], s[n]) ELSE f[n - 1]
    <2>1. n - 1 \in 0 .. Len(s) BY <1>1
    <2>2. f[n - 1] \in Seq(E) BY <2>1, <1>3a
    <2> QED BY <2>2
<1>5. Rec(f)
    <2> DEFINE h == [n \in 0 .. Len(s) |->
                            IF n = 0 THEN <<>>
                            ELSE IF s[n] \in T THEN Append(f[n - 1], s[n]) ELSE f[n - 1]]
    <2>1. ASSUME NEW n \in 0 .. Len(s) PROVE f[n] = h[n]
        <3>2. CASE n = 0 BY <1>3a, <3>2
        <3>3. CASE n # 0
            <4>1. n \in 1 .. Len(s) BY <3>3, <1>1
            <4> HIDE DEF G
            <4> QED BY <1>3a, <3>3, <4>1, <1>4
        <3> QED BY <3>2, <3>3
    <2> HIDE DEF h
    <2>2. f = [n \in 0 .. Len(s) |-> h[n]] BY <2>1, <1>3a
    <2>3. h = [n \in 0 .. Len(s) |-> h[n]] BY DEF h
    <2> QED BY <2>2, <2>3 DEF h
<1>6. Rec(only)
    <2> HIDE DEF Rec
    <2> QED BY <1>5
<1>7. Only(s, T) = only[Len(s)]
    BY DEF Only
<1>8. /\ only[0] = <<>>
      /\ \A n \in 1 .. Len(s) :
            only[n] = IF s[n] \in T THEN Append(only[n - 1], s[n]) ELSE only[n - 1]
    <2>1. \A n \in 0 .. Len(s) :
            only[n] = IF n = 0 THEN <<>>
                      ELSE IF s[n] \in T THEN Append(only[n - 1], s[n]) ELSE only[n - 1]
        <3> HIDE DEF only
        <3> QED BY <1>6
    <2> HIDE DEF only
    <2> QED BY <2>1, <1>1
<1>9. only \in [0 .. Len(s) -> Seq(E)]
    <2> HIDE DEF only
    <2>1. only = [n \in 0 .. Len(s) |-> only[n]] BY <1>6
    <2> DEFINE H == {n \in Nat : n \in 0 .. Len(s) => only[n] \in Seq(E)}
    <2>2. 0 \in H BY <1>1, <1>8
    <2>3. ASSUME NEW n \in H PROVE n + 1 \in H
        <3> SUFFICES ASSUME n + 1 \in 1 .. Len(s) PROVE only[n + 1] \in Seq(E)
            BY <1>1
        <3>1. n \in 0 .. Len(s) /\ only[n] \in Seq(E) BY <1>1
        <3>2. only[n + 1] = IF s[n + 1] \in T THEN Append(only[n], s[n + 1]) ELSE only[n]
            BY <1>8, <1>1
        <3> QED BY <3>1, <3>2, ElementOfSeq, AppendProperties
    <2>4. H = Nat
        <3>1. H \subseteq Nat OBVIOUS
        <3> HIDE DEF H
        <3> QED BY <2>2, <2>3, <3>1, NatSetInduction
    <2> QED BY <2>1, <2>4, <1>1
<1> HIDE DEF only
<1> QED BY <1>7, <1>8, <1>9 DEF Computes

\* A subsequence has elements of the sequence.
LEMMA OnlyType ==
    ASSUME NEW E, NEW s \in Seq(E), NEW T
    PROVE  Only(s, T) \in Seq(E)
<1>1. Len(s) \in 0 .. Len(s)
    BY LenProperties
<1> QED BY <1>1, OnlyIsComputed DEF Computes

\* Of nothing, nothing is kept.
LEMMA OnlyEmpty ==
    ASSUME NEW T
    PROVE  Only(<<>>, T) = <<>>
<1>1. <<>> \in Seq({}) /\ Len(<<>>) = 0
    BY EmptySeq
<1>2. PICK f : Computes(f, <<>>, T, {})
    BY <1>1, OnlyIsComputed
<1> QED BY <1>1, <1>2 DEF Computes

\* One more element is kept or not.
LEMMA OnlyAppend ==
    ASSUME NEW E, NEW s \in Seq(E), NEW e \in E, NEW T
    PROVE  Only(Append(s, e), T) = IF e \in T THEN Append(Only(s, T), e) ELSE Only(s, T)
<1> DEFINE t == Append(s, e)
           N == Len(s)
<1>1. /\ t \in Seq(E) /\ Len(t) = N + 1 /\ N \in Nat
      /\ \A i \in 1 .. N : t[i] = s[i]
      /\ t[N + 1] = e
    BY AppendProperties, LenProperties
<1>a. PICK f : Computes(f, s, T, E)
    BY OnlyIsComputed
<1>2. /\ f[0] = <<>>
      /\ \A n \in 1 .. N : f[n] = IF s[n] \in T THEN Append(f[n - 1], s[n]) ELSE f[n - 1]
      /\ Only(s, T) = f[N]
    BY <1>a DEF Computes
<1> HIDE DEF t
<1>b. PICK g : Computes(g, t, T, E)
    BY <1>1, OnlyIsComputed
<1>3. /\ g[0] = <<>>
      /\ \A n \in 1 .. N + 1 : g[n] = IF t[n] \in T THEN Append(g[n - 1], t[n]) ELSE g[n - 1]
      /\ Only(t, T) = g[N + 1]
    BY <1>b, <1>1 DEF Computes
<1> DEFINE H == {n \in Nat : n <= N => g[n] = f[n]}
<1>4. 0 \in H
    BY <1>2, <1>3
<1>5. ASSUME NEW n \in H PROVE n + 1 \in H
    <2> SUFFICES ASSUME n + 1 <= N PROVE g[n + 1] = f[n + 1]
        OBVIOUS
    <2>1. n + 1 \in 1 .. N /\ n + 1 \in 1 .. N + 1 /\ (n + 1) - 1 = n
        BY <1>1
    <2>2. g[n] = f[n] /\ t[n + 1] = s[n + 1]
        BY <2>1, <1>1
    <2>3. g[n + 1] = IF t[n + 1] \in T THEN Append(g[n], t[n + 1]) ELSE g[n]
        BY <2>1, <1>3
    <2>4. f[n + 1] = IF s[n + 1] \in T THEN Append(f[n], s[n + 1]) ELSE f[n]
        BY <2>1, <1>2
    <2> QED BY <2>2, <2>3, <2>4
<1>6. H = Nat
    <2>1. H \subseteq Nat OBVIOUS
    <2> HIDE DEF H
    <2> QED BY <1>4, <1>5, <2>1, NatSetInduction
<1>7. g[N] = f[N]
    BY <1>6, <1>1
<1>8. N + 1 \in 1 .. N + 1 /\ (N + 1) - 1 = N
    BY <1>1
<1>9. g[N + 1] = IF e \in T THEN Append(g[N], e) ELSE g[N]
    BY <1>1, <1>3, <1>8
<1> QED BY <1>2, <1>3, <1>7, <1>9 DEF t

\* Append and concatenation associate.
LEMMA AppendToConcat ==
    ASSUME NEW E, NEW s \in Seq(E), NEW t \in Seq(E), NEW e \in E
    PROVE  s \o Append(t, e) = Append(s \o t, e)
<1>1. /\ Append(t, e) \in Seq(E) /\ s \o t \in Seq(E) /\ <<e>> \in Seq(E)
      /\ Append(t, e) = t \o <<e>>
    BY AppendProperties, ConcatProperties, AppendIsConcat
<1>2. Append(s \o t, e) = (s \o t) \o <<e>>
    BY <1>1, AppendIsConcat
<1>3. (s \o t) \o <<e>> = s \o (t \o <<e>>)
    BY <1>1, ConcatAssociative
<1> QED BY <1>1, <1>2, <1>3

\* What is kept of two sequences is kept of each.
LEMMA OnlyConcat ==
    ASSUME NEW E, NEW s \in Seq(E), NEW t \in Seq(E), NEW T
    PROVE  Only(s \o t, T) = Only(s, T) \o Only(t, T)
<1> DEFINE P == {u \in Seq(E) : Only(s \o u, T) = Only(s, T) \o Only(u, T)}
<1>1. <<>> \in P
    <2>1. s \o <<>> = s /\ Only(s, T) \o <<>> = Only(s, T)
        BY ConcatEmptySeq, OnlyType
    <2> QED BY <2>1, OnlyEmpty, EmptySeq
<1>2. ASSUME NEW u \in P, NEW e \in E PROVE Append(u, e) \in P
    <2>0. u \in Seq(E) /\ Only(s \o u, T) = Only(s, T) \o Only(u, T) OBVIOUS
    <2>1. /\ s \o u \in Seq(E) /\ Append(u, e) \in Seq(E)
          /\ Only(s, T) \in Seq(E) /\ Only(u, T) \in Seq(E)
        BY <2>0, ConcatProperties, AppendProperties, OnlyType
    <2>2. s \o Append(u, e) = Append(s \o u, e)
        BY <2>0, AppendToConcat
    <2>3. Only(s, T) \o Append(Only(u, T), e) = Append(Only(s, T) \o Only(u, T), e)
        BY <2>1, AppendToConcat
    <2>4. Only(Append(s \o u, e), T)
            = IF e \in T THEN Append(Only(s \o u, T), e) ELSE Only(s \o u, T)
        <3> DEFINE v == s \o u
        <3>1. v \in Seq(E) BY <2>1
        <3> HIDE DEF v, P
        <3>2. Only(Append(v, e), T) = IF e \in T THEN Append(Only(v, T), e) ELSE Only(v, T)
            BY <3>1, OnlyAppend
        <3> QED BY <3>2 DEF v
    <2>5. Only(Append(u, e), T) = IF e \in T THEN Append(Only(u, T), e) ELSE Only(u, T)
        BY <2>0, OnlyAppend
    <2>6. Only(s \o Append(u, e), T) = Only(s, T) \o Only(Append(u, e), T)
        BY <2>0, <2>2, <2>3, <2>4, <2>5, Zenon
    <2> QED BY <2>1, <2>6
<1>3. P = Seq(E)
    <2>1. P \in SUBSET Seq(E) OBVIOUS
    <2> HIDE DEF P
    <2> QED BY <1>1, <1>2, <2>1, SeqSetInduction
<1> QED BY <1>3

\* Two sets that agree on the elements keep the same.
LEMMA OnlySame ==
    ASSUME NEW E, NEW s \in Seq(E), NEW T, NEW U,
           \A i \in 1 .. Len(s) : s[i] \in T <=> s[i] \in U
    PROVE  Only(s, T) = Only(s, U)
<1> DEFINE P == {u \in Seq(E) : (\A i \in 1 .. Len(u) : u[i] \in T <=> u[i] \in U)
                                => Only(u, T) = Only(u, U)}
<1>1. <<>> \in P
    BY OnlyEmpty, EmptySeq
<1>2. ASSUME NEW u \in P, NEW e \in E PROVE Append(u, e) \in P
    <2>1. /\ u \in Seq(E) /\ Append(u, e) \in Seq(E) /\ Len(u) \in Nat
          /\ Len(Append(u, e)) = Len(u) + 1
          /\ \A i \in 1 .. Len(u) : Append(u, e)[i] = u[i]
          /\ Append(u, e)[Len(u) + 1] = e
        BY AppendProperties, LenProperties
    <2> SUFFICES ASSUME \A i \in 1 .. Len(Append(u, e)) :
                           Append(u, e)[i] \in T <=> Append(u, e)[i] \in U
                 PROVE  Only(Append(u, e), T) = Only(Append(u, e), U)
        BY <2>1
    <2>2. \A i \in 1 .. Len(u) : u[i] \in T <=> u[i] \in U
        BY <2>1
    <2>3. e \in T <=> e \in U
        BY <2>1
    <2>4. Only(u, T) = Only(u, U)
        BY <2>2
    <2>5. Only(Append(u, e), T) = IF e \in T THEN Append(Only(u, T), e) ELSE Only(u, T)
        BY OnlyAppend
    <2>6. Only(Append(u, e), U) = IF e \in U THEN Append(Only(u, U), e) ELSE Only(u, U)
        BY OnlyAppend
    <2> QED BY <2>3, <2>4, <2>5, <2>6, Zenon
<1>3. P = Seq(E)
    <2>1. P \in SUBSET Seq(E) OBVIOUS
    <2> HIDE DEF P
    <2> QED BY <1>1, <1>2, <2>1, SeqSetInduction
<1> QED BY <1>3

\* A set with every element keeps the whole sequence.
LEMMA OnlyAll ==
    ASSUME NEW E, NEW s \in Seq(E), NEW T, \A i \in 1 .. Len(s) : s[i] \in T
    PROVE  Only(s, T) = s
<1> DEFINE P == {u \in Seq(E) : Only(u, E) = u}
<1>1. <<>> \in P
    BY OnlyEmpty, EmptySeq
<1>2. ASSUME NEW u \in P, NEW e \in E PROVE Append(u, e) \in P
    BY OnlyAppend, AppendProperties
<1>3. P = Seq(E)
    <2>1. P \in SUBSET Seq(E) OBVIOUS
    <2> HIDE DEF P
    <2> QED BY <1>1, <1>2, <2>1, SeqSetInduction
<1>4. Only(s, E) = s
    BY <1>3
<1>5. \A i \in 1 .. Len(s) : s[i] \in T <=> s[i] \in E
    BY ElementOfSeq
<1>6. Only(s, T) = Only(s, E)
    BY <1>5, OnlySame
<1> QED BY <1>4, <1>6

\* A set with no element keeps nothing.
LEMMA OnlyNone ==
    ASSUME NEW E, NEW s \in Seq(E), NEW T, \A i \in 1 .. Len(s) : s[i] \notin T
    PROVE  Only(s, T) = <<>>
<1> DEFINE P == {u \in Seq(E) : Only(u, {}) = <<>>}
<1>1. <<>> \in P
    BY OnlyEmpty, EmptySeq
<1>2. ASSUME NEW u \in P, NEW e \in E PROVE Append(u, e) \in P
    BY OnlyAppend, AppendProperties
<1>3. P = Seq(E)
    <2>1. P \in SUBSET Seq(E) OBVIOUS
    <2> HIDE DEF P
    <2> QED BY <1>1, <1>2, <2>1, SeqSetInduction
<1>4. Only(s, {}) = <<>>
    BY <1>3
<1>5. \A i \in 1 .. Len(s) : s[i] \in T <=> s[i] \in {}
    OBVIOUS
<1>6. Only(s, T) = Only(s, {})
    BY <1>5, OnlySame
<1> QED BY <1>4, <1>6

-----------------------------------------------------------------------------
(* Places.                                                                 *)

\* A function on 1 .. n is a sequence of length n.
LEMMA FunctionIsSeq ==
    ASSUME NEW S, NEW n \in Nat, NEW f \in [1 .. n -> S]
    PROVE  f \in Seq(S) /\ Len(f) = n
<1>1. f \in Seq(S)
    BY SeqDef
<1>2. DOMAIN f = 1 .. n /\ DOMAIN f = 1 .. Len(f) /\ Len(f) \in Nat
    BY <1>1, LenProperties
<1> QED BY <1>1, <1>2

\* The n places after `from` are from + 1, from + 2 and so on.
LEMMA PlacesProperties ==
    ASSUME NEW from \in Nat, NEW n \in Nat
    PROVE  /\ Places(from, n) \in Seq(Nat)
           /\ Len(Places(from, n)) = n
           /\ \A i \in 1 .. n : Places(from, n)[i] = from + i
<1>1. Places(from, n) \in [1 .. n -> Nat]
    BY DEF Places
<1> QED BY <1>1, FunctionIsSeq DEF Places

\* They are places of a stream that is long enough.
LEMMA PlacesWithin ==
    ASSUME NEW from \in Nat, NEW n \in Nat, NEW m \in Nat, from + n <= m
    PROVE  Places(from, n) \in Seq(1 .. m)
<1>1. Places(from, n) \in [1 .. n -> 1 .. m]
    BY DEF Places
<1> QED BY <1>1, FunctionIsSeq

\* No places.
LEMMA PlacesEmpty ==
    ASSUME NEW from \in Nat
    PROVE  Places(from, 0) = <<>>
BY PlacesProperties, EmptySeq

\* Two chunks, one after the other, are one chunk.
LEMMA PlacesConcat ==
    ASSUME NEW from \in Nat, NEW n \in Nat, NEW m \in Nat
    PROVE  Places(from, n) \o Places(from + n, m) = Places(from, n + m)
<1> DEFINE s == Places(from, n)
           t == Places(from + n, m)
           u == Places(from, n + m)
<1>1. /\ s \in Seq(Nat) /\ Len(s) = n /\ \A i \in 1 .. n : s[i] = from + i
    BY PlacesProperties
<1>1a. t \in Seq(Nat) /\ Len(t) = m /\ \A i \in 1 .. m : t[i] = from + n + i
    <2>1. from + n \in Nat OBVIOUS
    <2> HIDE DEF s
    <2> QED BY <2>1, PlacesProperties
<1>1b. u \in Seq(Nat) /\ Len(u) = n + m /\ \A i \in 1 .. n + m : u[i] = from + i
    <2>1. n + m \in Nat OBVIOUS
    <2> HIDE DEF s, t
    <2> QED BY <2>1, PlacesProperties
<1> HIDE DEF s, t, u
<1>2. /\ s \o t \in Seq(Nat) /\ Len(s \o t) = n + m
      /\ \A i \in 1 .. n + m : (s \o t)[i] = IF i <= n THEN s[i] ELSE t[i - n]
    BY <1>1, <1>1a, ConcatProperties
<1>3. ASSUME NEW i \in 1 .. n + m PROVE (s \o t)[i] = u[i]
    <2>1. CASE i <= n
        BY <2>1, <1>1, <1>1b, <1>2
    <2>2. CASE i > n
        <3>1. i - n \in 1 .. m /\ from + n + (i - n) = from + i /\ ~(i <= n) BY <2>2
        <3>2. (s \o t)[i] = t[i - n] BY <3>1, <1>2
        <3>3. t[i - n] = from + n + (i - n) BY <3>1, <1>1a
        <3> QED BY <3>1, <3>2, <3>3, <1>1b
    <2>3. i <= n \/ i > n
        OBVIOUS
    <2> QED BY <2>1, <2>2, <2>3
<1>4. s \o t = u
    BY <1>1, <1>1b, <1>2, <1>3, SeqEqual
<1> QED BY <1>4 DEF s, t, u

\* What is left of a chunk when a reader has taken its first cell.
LEMMA PlacesTail ==
    ASSUME NEW from \in Nat, NEW n \in Nat \ {0}
    PROVE  /\ Head(Places(from, n)) = from + 1
           /\ Tail(Places(from, n)) = Places(from + 1, n - 1)
<1> DEFINE s == Places(from, n)
           u == Places(from + 1, n - 1)
<1>1. /\ s \in Seq(Nat) /\ Len(s) = n /\ \A i \in 1 .. n : s[i] = from + i
    BY PlacesProperties
<1>1a. u \in Seq(Nat) /\ Len(u) = n - 1 /\ \A i \in 1 .. n - 1 : u[i] = from + 1 + i
    <2>1. from + 1 \in Nat /\ n - 1 \in Nat OBVIOUS
    <2> HIDE DEF s
    <2> QED BY <2>1, PlacesProperties
<1> HIDE DEF s, u
<1>2. s # <<>>
    BY <1>1, EmptySeq
<1>3. /\ Tail(s) \in Seq(Nat) /\ Len(Tail(s)) = n - 1
      /\ \A i \in 1 .. n - 1 : Tail(s)[i] = s[i + 1]
    BY <1>1, <1>2, HeadTailProperties
<1>4. \A i \in 1 .. n - 1 : Tail(s)[i] = u[i]
    BY <1>1, <1>1a, <1>3
<1>5. Tail(s) = u
    BY <1>1a, <1>3, <1>4, SeqEqual
<1>6. Head(s) = s[1]
    BY <1>1, <1>2
<1> QED BY <1>1, <1>5, <1>6 DEF s, u

\* What is left of a chunk after its first e cells.
LEMMA PlacesAfter ==
    ASSUME NEW from \in Nat, NEW n \in Nat, NEW e \in 0 .. n
    PROVE  SubSeq(Places(from, n), e + 1, n) = Places(from + e, n - e)
<1> DEFINE s == Places(from, n)
           u == Places(from + e, n - e)
           v == SubSeq(s, e + 1, n)
<1>1. /\ s \in Seq(Nat) /\ Len(s) = n /\ \A i \in 1 .. n : s[i] = from + i
    BY PlacesProperties
<1>1a. u \in Seq(Nat) /\ Len(u) = n - e /\ \A i \in 1 .. n - e : u[i] = from + e + i
    <2>1. from + e \in Nat /\ n - e \in Nat OBVIOUS
    <2> HIDE DEF s
    <2> QED BY <2>1, PlacesProperties
<1> HIDE DEF s, u
<1>2. \A i \in e + 1 .. n : s[i] \in Nat
    BY <1>1
<1>3. /\ v \in Seq(Nat) /\ Len(v) = IF e + 1 <= n THEN n - (e + 1) + 1 ELSE 0
      /\ \A i \in 1 .. n - (e + 1) + 1 : v[i] = s[(e + 1) + i - 1]
    <2>1. e + 1 \in Int /\ n \in Int OBVIOUS
    <2> QED BY <2>1, <1>2, SubSeqProperties
<1> HIDE DEF v
<1>4. Len(v) = n - e
    BY <1>3
<1>5. ASSUME NEW i \in 1 .. n - e PROVE v[i] = u[i]
    <2>1. i \in 1 .. n - (e + 1) + 1 /\ (e + 1) + i - 1 = e + i /\ e + i \in 1 .. n
        OBVIOUS
    <2>2. v[i] = s[e + i] BY <1>3, <2>1
    <2> QED BY <2>1, <2>2, <1>1, <1>1a
<1>6. v = u
    BY <1>1a, <1>3, <1>4, <1>5, SeqEqual
<1> QED BY <1>6 DEF s, u, v

\* A chunk and the next place.
LEMMA PlacesAppend ==
    ASSUME NEW from \in Nat, NEW n \in Nat
    PROVE  Places(from, n + 1) = Append(Places(from, n), from + (n + 1))
<1> DEFINE s == Places(from, n)
           u == Places(from, n + 1)
<1>1. s \in Seq(Nat) /\ Len(s) = n /\ \A i \in 1 .. n : s[i] = from + i
    BY PlacesProperties
<1>2. u \in Seq(Nat) /\ Len(u) = n + 1 /\ \A i \in 1 .. n + 1 : u[i] = from + i
    <2>1. n + 1 \in Nat OBVIOUS
    <2> HIDE DEF s
    <2> QED BY <2>1, PlacesProperties
<1>3. from + (n + 1) \in Nat
    OBVIOUS
<1> DEFINE e == from + (n + 1)
<1> HIDE DEF s, u, e
<1>4. /\ Append(s, e) \in Seq(Nat) /\ Len(Append(s, e)) = n + 1
      /\ \A i \in 1 .. n : Append(s, e)[i] = s[i]
      /\ Append(s, e)[n + 1] = e
    BY <1>1, <1>3, AppendProperties DEF e
<1>5. ASSUME NEW i \in 1 .. n + 1 PROVE Append(s, e)[i] = u[i]
    <2>1. CASE i = n + 1
        BY <2>1, <1>2, <1>4 DEF e
    <2>2. CASE i # n + 1
        <3>1. i \in 1 .. n BY <2>2
        <3> QED BY <3>1, <1>1, <1>2, <1>4
    <2> QED BY <2>1, <2>2
<1>6. Append(s, e) = u
    BY <1>2, <1>4, <1>5, SeqEqual
<1> QED BY <1>6 DEF s, u, e

=============================================================================
