---------------------------- MODULE RewriteProofs ----------------------------
(***************************************************************************)
(* Filters, rules and the writing of messages, for any options.  First the *)
(* filter language: parser and grammar are tables filled by recursion, so  *)
(* that each is proved to exist before what it holds is.                   *)
(***************************************************************************)
EXTENDS Rewrite, SubsequenceProofs

-----------------------------------------------------------------------------
\* What the tokenizer makes: tokens, and whether a code waits for its argument.
Tokens == [type : {"atom"} \cup Lexemes, holds : SUBSET Views]
Gots == [tokens : Seq(Tokens), open : BOOLEAN]

\* What is read of the lexemes is a sequence of tokens.
LEMMA LexemeType ==
    ASSUME NEW got \in Gots, NEW x \in Lexemes
    PROVE  ReadLexeme(got, x) \in Gots /\ Unargued(got) \in Seq(Tokens)
<1>1. ASSUME NEW h \in SUBSET Views PROVE Atom(h) \in Tokens
    BY DEF Atom, Tokens
<1>2. Sign(x) \in Tokens
    BY DEF Sign, Tokens
<1>3. AtomPredicate(x) \in SUBSET Views /\ HasResponse \in SUBSET Views /\ InUrl \in SUBSET Views
    BY DEF AtomPredicate, HasResponse, InUrl, InBody
<1>4. Token(got, x) \in Tokens
    BY <1>1, <1>2, <1>3 DEF Token
<1>5. got.tokens \in Seq(Tokens) /\ got.open \in BOOLEAN
    BY DEF Gots
<1>6. Unargued(got) \in Seq(Tokens)
    BY <1>1, <1>5, AppendProperties DEF Unargued
<1> DEFINE before == IF Argument(x) THEN got.tokens ELSE Unargued(got)
<1>7. before \in Seq(Tokens)
    BY <1>5, <1>6
<1>8. Append(before, Token(got, x)) \in Seq(Tokens)
    <2> HIDE DEF before
    <2> QED BY <1>4, <1>7, AppendProperties
<1>9. ReadLexeme(got, x) = IF x = "~b" /\ ~got.open THEN [tokens |-> before, open |-> TRUE]
                           ELSE [tokens |-> Append(before, Token(got, x)), open |-> FALSE]
    BY DEF ReadLexeme
<1> HIDE DEF before
<1>10. ReadLexeme(got, x) \in Gots
    BY <1>7, <1>8, <1>9 DEF Gots
<1> QED BY <1>6, <1>10

Started == [tokens |-> <<>>, open |-> FALSE]

\* Tokenize gives tokens.
LEMMA TokenizeType ==
    ASSUME NEW input \in Seq(Lexemes)
    PROVE  Tokenize(input) \in Seq(Tokens) /\ (input = <<>> => Tokenize(input) = <<>>)
<1> DEFINE N == Len(input)
           G == [p \in (1 .. N) \X Gots |-> ReadLexeme(p[2], input[p[1]])]
           Rec(f) == f = [n \in 0 .. N |-> IF n = 0 THEN Started ELSE ReadLexeme(f[n - 1], input[n])]
           read == CHOOSE f : Rec(f)
<1>1. N \in Nat /\ \A n \in 1 .. N : input[n] \in Lexemes
    BY LenProperties, ElementOfSeq
<1>2. Started \in Gots
    BY EmptySeq DEF Started, Gots
<1>3. G \in Steps(N, Gots)
    <2> SUFFICES ASSUME NEW n \in 1 .. N, NEW got \in Gots PROVE ReadLexeme(got, input[n]) \in Gots
        BY DEF Steps
    <2> QED BY <1>1, LexemeType
<1>4. PICK f : Iterates(f, G, Started, N, Gots)
    <2> HIDE DEF G, N
    <2> QED BY <1>1, <1>2, <1>3, RecursionOnInterval
<1>5. Rec(f)
    <2>1. f \in [0 .. N -> Gots] /\ f[0] = Started
        BY <1>4 DEF Iterates
    <2>2. ASSUME NEW n \in 1 .. N PROVE f[n] = ReadLexeme(f[n - 1], input[n])
        <3>1. n - 1 \in 0 .. N /\ f[n - 1] \in Gots
            BY <1>1, <2>1
        <3>2. f[n] = G[<<n, f[n - 1]>>]
            BY <1>4 DEF Iterates
        <3> QED BY <3>1, <3>2
    <2> QED BY <1>1, <2>1, <2>2
<1>6. Rec(read)
    <2> HIDE DEF Rec
    <2> QED BY <1>5
<1>7. Tokenize(input) = Unargued(read[N])
    BY DEF Tokenize, Started
<1> HIDE DEF read, N
<1>8. /\ read[0] = Started
      /\ \A n \in 1 .. N : read[n] = ReadLexeme(read[n - 1], input[n])
    <2>1. \A n \in 0 .. N : read[n] = IF n = 0 THEN Started ELSE ReadLexeme(read[n - 1], input[n])
        BY <1>6
    <2> QED BY <1>1, <2>1
<1> DEFINE H == {n \in Nat : n <= N => read[n] \in Gots}
<1>9. 0 \in H
    BY <1>2, <1>8
<1>10. ASSUME NEW n \in H PROVE n + 1 \in H
    <2> SUFFICES ASSUME n + 1 <= N PROVE read[n + 1] \in Gots
        OBVIOUS
    <2>1. n + 1 \in 1 .. N /\ (n + 1) - 1 = n /\ read[n] \in Gots
        BY <1>1
    <2>2. read[n + 1] = ReadLexeme(read[n], input[n + 1])
        BY <1>8, <2>1
    <2> QED BY <1>1, <2>1, <2>2, LexemeType
<1>11. H = Nat
    <2>1. H \subseteq Nat
        OBVIOUS
    <2> HIDE DEF H
    <2> QED BY <1>9, <1>10, <2>1, NatSetInduction
<1>12. read[N] \in Gots
    BY <1>1, <1>11
<1>13. \E x : x \in Lexemes
    BY DEF Lexemes
<1>14. ASSUME input = <<>> PROVE Tokenize(input) = <<>>
    <2>1. N = 0
        BY <1>14 DEF N
    <2> QED BY <1>7, <1>8, <2>1 DEF Unargued, Started
<1> QED BY <1>7, <1>12, <1>13, <1>14, LexemeType

-----------------------------------------------------------------------------
(* The parser's functions are defined: each asks for what starts at a later *)
(* place, or at the same place on the level below.                          *)

Levels == {"or", "and", "unary"}
Spots(t) == Levels \X (1 .. Len(t) + 1)

\* A reading at place i ends after it, unless there is no token left.
Ends(t, i) == (IF i <= Len(t) THEN i + 1 ELSE i) .. Len(t) + 1
Readings(t) == [x \in Spots(t) |-> [holds : SUBSET Views, next : Ends(t, x[2])]]

Rank(level) == CASE level = "or" -> 2 [] level = "and" -> 1 [] level = "unary" -> 0
Distance(t) == [x \in Spots(t) |-> 3 * (Len(t) + 1 - x[2]) + Rank(x[1])]

ParseAt(t, parse, x) ==
    CASE x[1] = "or" -> ParseOr(t, parse, x[2])
      [] x[1] = "and" -> ParseAnd(t, parse, x[2])
      [] x[1] = "unary" -> ParseUnary(t, parse, x[2])

\* The distance is a natural number with a bound, so the recursion is well-founded.
LEMMA DistanceType ==
    ASSUME NEW t \in Seq(Tokens)
    PROVE  /\ 3 * (Len(t) + 1) + 2 \in Nat
           /\ Distance(t) \in [Spots(t) -> 0 .. 3 * (Len(t) + 1) + 2]
<1>1. Len(t) \in Nat
    BY LenProperties
<1>2. ASSUME NEW x \in Spots(t) PROVE 3 * (Len(t) + 1 - x[2]) + Rank(x[1]) \in 0 .. 3 * (Len(t) + 1) + 2
    <2>1. x[2] \in 1 .. Len(t) + 1 /\ Rank(x[1]) \in 0 .. 2
        BY DEF Spots, Levels, Rank
    <2> QED BY <1>1, <2>1
<1> QED BY <1>1, <1>2 DEF Distance

\* A later place, and the same place on a level below, are nearer to the end.
LEMMA Nearer ==
    ASSUME NEW t \in Seq(Tokens), NEW a \in Levels, NEW b \in Levels,
           NEW i \in 1 .. Len(t) + 1, NEW j \in 1 .. Len(t) + 1,
           \/ j > i
           \/ j = i /\ Rank(b) < Rank(a)
    PROVE  /\ <<a, i>> \in Spots(t) /\ <<b, j>> \in Spots(t)
           /\ Distance(t)[<<b, j>>] < Distance(t)[<<a, i>>]
<1>1. Len(t) \in Nat /\ Rank(a) \in 0 .. 2 /\ Rank(b) \in 0 .. 2
    BY LenProperties DEF Rank, Levels
<1>2. <<a, i>> \in Spots(t) /\ <<b, j>> \in Spots(t)
    BY DEF Spots
<1>3. /\ Distance(t)[<<b, j>>] = 3 * (Len(t) + 1 - j) + Rank(b)
      /\ Distance(t)[<<a, i>>] = 3 * (Len(t) + 1 - i) + Rank(a)
    BY <1>2 DEF Distance
<1> QED BY <1>1, <1>2, <1>3

\* What a function with readings for values has at a spot.
LEMMA ReadingAt ==
    ASSUME NEW t \in Seq(Tokens), NEW h \in Values(Spots(t), Readings(t)),
           NEW a \in Levels, NEW i \in 1 .. Len(t) + 1
    PROVE  /\ h[<<a, i>>] \in [holds : SUBSET Views, next : Ends(t, i)]
           /\ h[<<a, i>>].holds \subseteq Views
           /\ h[<<a, i>>].next \in 1 .. Len(t) + 1
           /\ i <= h[<<a, i>>].next
           /\ i <= Len(t) => i < h[<<a, i>>].next
<1>1. <<a, i>> \in Spots(t) /\ Len(t) \in Nat
    BY LenProperties DEF Spots
<1>2. Readings(t)[<<a, i>>] = [holds : SUBSET Views, next : Ends(t, i)]
    BY <1>1 DEF Readings
<1>3. h[<<a, i>>] \in [holds : SUBSET Views, next : Ends(t, i)]
    BY <1>1, <1>2 DEF Values
<1>4. h[<<a, i>>].next \in Ends(t, i) /\ h[<<a, i>>].holds \subseteq Views
    BY <1>3
<1>5. ASSUME NEW n \in Ends(t, i) PROVE n \in 1 .. Len(t) + 1 /\ i <= n /\ (i <= Len(t) => i < n)
    BY <1>1 DEF Ends
<1> QED BY <1>3, <1>4, <1>5

\* A token is at a place that is not past the end.
LEMMA PeekType ==
    ASSUME NEW t \in Seq(Tokens), NEW i \in 1 .. Len(t) + 1
    PROVE  /\ Peek(t, i) = "end" <=> i = Len(t) + 1
           /\ i <= Len(t) => t[i] \in Tokens /\ t[i].holds \subseteq Views /\ Peek(t, i) = t[i].type
<1>1. Len(t) \in Nat /\ (i <= Len(t) => t[i] \in Tokens)
    BY LenProperties, ElementOfSeq
<1>2. "end" \notin {"atom"} \cup Lexemes
    BY DEF Lexemes
<1> QED BY <1>1, <1>2 DEF Peek, Tokens

Agrees(t, g, h, x) == \A y \in Spots(t) : Distance(t)[y] < Distance(t)[x] => g[y] = h[y]

\* Each level reads, and asks for nothing but what is nearer to the end.
LEMMA PrimaryReads ==
    ASSUME NEW t \in Seq(Tokens), NEW h \in Values(Spots(t), Readings(t)), NEW g,
           NEW i \in 1 .. Len(t) + 1, Agrees(t, g, h, <<"unary", i>>)
    PROVE  /\ ParsePrimary(t, g, i) = ParsePrimary(t, h, i)
           /\ ParsePrimary(t, h, i) \in [holds : SUBSET Views, next : Ends(t, i)]
<1>1. Len(t) \in Nat
    BY LenProperties
<1>2. CASE i = Len(t) + 1
    <2>1. Peek(t, i) = "end"
        BY <1>2, PeekType
    <2> QED BY <1>1, <1>2, <2>1 DEF ParsePrimary, Read, Ends
<1>3. CASE i # Len(t) + 1 /\ Peek(t, i) = "("
    <2>1. i + 1 \in 1 .. Len(t) + 1
        BY <1>1, <1>3
    <2>2. g[<<"or", i + 1>>] = h[<<"or", i + 1>>]
        BY <2>1, Nearer DEF Agrees, Levels
    <2> DEFINE inner == h[<<"or", i + 1>>]
    <2>3. inner.holds \subseteq Views /\ inner.next \in 1 .. Len(t) + 1 /\ i + 1 <= inner.next
        BY <2>1, ReadingAt DEF Levels
    <2>4. /\ ParsePrimary(t, h, i) =
                Read(inner.holds, IF Peek(t, inner.next) = ")" THEN inner.next + 1 ELSE inner.next)
          /\ ParsePrimary(t, g, i) = ParsePrimary(t, h, i)
        BY <1>3, <2>2 DEF ParsePrimary
    <2> HIDE DEF inner
    <2>5. Peek(t, inner.next) = ")" => inner.next <= Len(t)
        BY <1>1, <2>3, PeekType
    <2> QED BY <1>1, <1>3, <2>3, <2>4, <2>5 DEF Read, Ends
<1>4. CASE i # Len(t) + 1 /\ Peek(t, i) # "("
    <2>1. Peek(t, i) # "end" /\ t[i].holds \subseteq Views /\ i <= Len(t)
        BY <1>1, <1>4, PeekType
    <2>2. /\ ParsePrimary(t, h, i) = Read(IF Peek(t, i) = "atom" THEN t[i].holds ELSE Views, i + 1)
          /\ ParsePrimary(t, g, i) = ParsePrimary(t, h, i)
        BY <1>4, <2>1 DEF ParsePrimary
    <2> QED BY <1>1, <2>1, <2>2 DEF Read, Ends
<1> QED BY <1>2, <1>3, <1>4

\* A factor is read from what the table has at lesser distances only, and reads on.
LEMMA UnaryReads ==
    ASSUME NEW t \in Seq(Tokens), NEW h \in Values(Spots(t), Readings(t)), NEW g,
           NEW i \in 1 .. Len(t) + 1, Agrees(t, g, h, <<"unary", i>>)
    PROVE  /\ ParseUnary(t, g, i) = ParseUnary(t, h, i)
           /\ ParseUnary(t, h, i) \in [holds : SUBSET Views, next : Ends(t, i)]
<1>1. Len(t) \in Nat
    BY LenProperties
<1>2. CASE Peek(t, i) # "!"
    BY <1>2, PrimaryReads DEF ParseUnary
<1>3. CASE Peek(t, i) = "!"
    <2>1. i <= Len(t) /\ i + 1 \in 1 .. Len(t) + 1
        BY <1>1, <1>3, PeekType
    <2>2. g[<<"unary", i + 1>>] = h[<<"unary", i + 1>>]
        BY <2>1, Nearer DEF Agrees, Levels
    <2> DEFINE inner == h[<<"unary", i + 1>>]
    <2>3. inner.holds \subseteq Views /\ inner.next \in 1 .. Len(t) + 1 /\ i + 1 <= inner.next
        BY <2>1, ReadingAt DEF Levels
    <2>4. /\ ParseUnary(t, h, i) = Read(Views \ inner.holds, inner.next)
          /\ ParseUnary(t, g, i) = ParseUnary(t, h, i)
        BY <1>3, <2>2 DEF ParseUnary
    <2> HIDE DEF inner
    <2> QED BY <1>1, <2>1, <2>3, <2>4 DEF Read, Ends
<1> QED BY <1>2, <1>3

\* So is a term.
LEMMA AndReads ==
    ASSUME NEW t \in Seq(Tokens), NEW h \in Values(Spots(t), Readings(t)), NEW g,
           NEW i \in 1 .. Len(t) + 1, Agrees(t, g, h, <<"and", i>>)
    PROVE  /\ ParseAnd(t, g, i) = ParseAnd(t, h, i)
           /\ ParseAnd(t, h, i) \in [holds : SUBSET Views, next : Ends(t, i)]
<1>1. Len(t) \in Nat
    BY LenProperties
<1> DEFINE left == h[<<"unary", i>>]
           sign == Peek(t, left.next)
           from == IF sign = "&" THEN left.next + 1 ELSE left.next
           right == h[<<"and", from>>]
<1>2. g[<<"unary", i>>] = left
    BY Nearer DEF Agrees, Levels, Rank
<1>3. /\ left \in [holds : SUBSET Views, next : Ends(t, i)]
      /\ left.holds \subseteq Views /\ left.next \in 1 .. Len(t) + 1
      /\ i <= left.next /\ (i <= Len(t) => i < left.next)
    BY ReadingAt DEF Levels
<1>4. /\ ParseAnd(t, h, i) = IF sign \in Joining THEN Read(left.holds \cap right.holds, right.next)
                             ELSE left
      /\ ParseAnd(t, g, i) = IF sign \in Joining
                             THEN Read(left.holds \cap g[<<"and", from>>].holds, g[<<"and", from>>].next)
                             ELSE left
    BY <1>2 DEF ParseAnd
<1>5. CASE sign \notin Joining
    BY <1>3, <1>4, <1>5
<1>6. CASE sign \in Joining
    <2>1. sign # "end"
        BY <1>6 DEF Joining
    <2>2. left.next <= Len(t)
        <3> HIDE DEF left
        <3> QED BY <1>1, <1>3, <2>1, PeekType
    <2>3. from \in 1 .. Len(t) + 1 /\ i < from
        <3> HIDE DEF left
        <3> QED BY <1>1, <1>3, <2>2
    <2>4. g[<<"and", from>>] = right
        <3> HIDE DEF from
        <3> QED BY <2>3, Nearer DEF Agrees, Levels
    <2>5. right.holds \subseteq Views /\ right.next \in 1 .. Len(t) + 1 /\ from <= right.next
        <3> HIDE DEF from
        <3> QED BY <2>3, ReadingAt DEF Levels
    <2>6. /\ ParseAnd(t, g, i) = ParseAnd(t, h, i)
          /\ ParseAnd(t, h, i) = Read(left.holds \cap right.holds, right.next)
        <3> HIDE DEF left, right, sign, from
        <3> QED BY <1>4, <1>6, <2>4
    <2> HIDE DEF left, right, sign, from
    <2> QED BY <1>1, <1>3, <2>3, <2>5, <2>6 DEF Read, Ends
<1> QED BY <1>5, <1>6

\* So is a sum.
LEMMA OrReads ==
    ASSUME NEW t \in Seq(Tokens), NEW h \in Values(Spots(t), Readings(t)), NEW g,
           NEW i \in 1 .. Len(t) + 1, Agrees(t, g, h, <<"or", i>>)
    PROVE  /\ ParseOr(t, g, i) = ParseOr(t, h, i)
           /\ ParseOr(t, h, i) \in [holds : SUBSET Views, next : Ends(t, i)]
<1>1. Len(t) \in Nat
    BY LenProperties
<1> DEFINE left == h[<<"and", i>>]
           from == left.next + 1
           right == h[<<"or", from>>]
<1>2. g[<<"and", i>>] = left
    BY Nearer DEF Agrees, Levels, Rank
<1>3. /\ left \in [holds : SUBSET Views, next : Ends(t, i)]
      /\ left.holds \subseteq Views /\ left.next \in 1 .. Len(t) + 1
      /\ i <= left.next
    BY ReadingAt DEF Levels
<1>4. /\ ParseOr(t, h, i) = IF Peek(t, left.next) = "|"
                            THEN Read(left.holds \cup right.holds, right.next) ELSE left
      /\ ParseOr(t, g, i) = IF Peek(t, left.next) = "|"
                            THEN Read(left.holds \cup g[<<"or", from>>].holds, g[<<"or", from>>].next)
                            ELSE left
    BY <1>2 DEF ParseOr
<1>5. CASE Peek(t, left.next) # "|"
    BY <1>3, <1>4, <1>5
<1>6. CASE Peek(t, left.next) = "|"
    <2>2. left.next <= Len(t)
        <3> HIDE DEF left
        <3> QED BY <1>1, <1>3, <1>6, PeekType
    <2>3. from \in 1 .. Len(t) + 1 /\ i < from
        <3> HIDE DEF left
        <3> QED BY <1>1, <1>3, <2>2
    <2>4. g[<<"or", from>>] = right
        <3> HIDE DEF from
        <3> QED BY <2>3, Nearer DEF Agrees, Levels
    <2>5. right.holds \subseteq Views /\ right.next \in 1 .. Len(t) + 1 /\ from <= right.next
        <3> HIDE DEF from
        <3> QED BY <2>3, ReadingAt DEF Levels
    <2>6. /\ ParseOr(t, g, i) = ParseOr(t, h, i)
          /\ ParseOr(t, h, i) = Read(left.holds \cup right.holds, right.next)
        <3> HIDE DEF left, right, from
        <3> QED BY <1>4, <1>6, <2>4
    <2> HIDE DEF left, right, from
    <2> QED BY <1>1, <1>3, <2>3, <2>5, <2>6 DEF Read, Ends
<1> QED BY <1>5, <1>6

\* So the parser's table is what its definition says, and has readings.
Parses(t, parse) ==
    \A a \in Levels, i \in 1 .. Len(t) + 1 :
        /\ parse[<<a, i>>] = ParseAt(t, parse, <<a, i>>)
        /\ parse[<<a, i>>] \in [holds : SUBSET Views, next : Ends(t, i)]

\* So is every entry of the table.
LEMMA ParseAtReads ==
    ASSUME NEW t \in Seq(Tokens), NEW h \in Values(Spots(t), Readings(t)), NEW g,
           NEW x \in Spots(t), Agrees(t, g, h, x)
    PROVE  ParseAt(t, g, x) = ParseAt(t, h, x) /\ ParseAt(t, h, x) \in Readings(t)[x]
<1>1. PICK a \in Levels, i \in 1 .. Len(t) + 1 : x = <<a, i>>
    BY DEF Spots
<1>2. x[1] = a /\ x[2] = i
    BY <1>1
<1>3. Readings(t)[x] = [holds : SUBSET Views, next : Ends(t, i)]
    BY <1>1, <1>2 DEF Readings
<1>4. CASE a = "or"
    <2>1. ParseAt(t, g, x) = ParseOr(t, g, i) /\ ParseAt(t, h, x) = ParseOr(t, h, i)
        BY <1>2, <1>4 DEF ParseAt
    <2> QED BY <1>1, <1>3, <1>4, <2>1, OrReads
<1>5. CASE a = "and"
    <2>1. ParseAt(t, g, x) = ParseAnd(t, g, i) /\ ParseAt(t, h, x) = ParseAnd(t, h, i)
        BY <1>2, <1>5 DEF ParseAt
    <2> QED BY <1>1, <1>3, <1>5, <2>1, AndReads
<1>6. CASE a = "unary"
    <2>1. ParseAt(t, g, x) = ParseUnary(t, g, i) /\ ParseAt(t, h, x) = ParseUnary(t, h, i)
        BY <1>2, <1>6 DEF ParseAt
    <2> QED BY <1>1, <1>3, <1>6, <2>1, UnaryReads
<1> QED BY <1>4, <1>5, <1>6 DEF Levels

\* The recursive definition of the parser has a solution, which CHOOSE finds.
LEMMA ParserIsComputed ==
    ASSUME NEW t \in Seq(Tokens)
    PROVE  Parses(t, Parser(t))
<1> DEFINE D == Spots(t)
           V == Readings(t)
           Rec(f) == f = [x \in D |-> ParseAt(t, f, x)]
           parse == CHOOSE f : Rec(f)
           F == Values(D, V) \cup {parse}
           Step == [p \in D \X F |-> ParseAt(t, p[2], p[1])]
           N == 3 * (Len(t) + 1) + 2
<1>1. N \in Nat /\ Distance(t) \in [D -> 0 .. N]
    BY DistanceType
<1>2. Parser(t) = parse
    BY DEF Parser, ParseAt, Spots, Levels
<1>3. ASSUME NEW x \in D PROVE V[x] # {}
    <2>1. Len(t) \in Nat /\ x[2] \in 1 .. Len(t) + 1
        BY LenProperties DEF Spots
    <2>2. V[x] = [holds : SUBSET Views, next : Ends(t, x[2])]
        BY DEF Readings
    <2>3. Len(t) + 1 \in Ends(t, x[2])
        BY <2>1 DEF Ends
    <2>4. [holds |-> {}, next |-> Len(t) + 1] \in V[x]
        BY <2>2, <2>3
    <2> QED BY <2>4
<1> HIDE DEF parse, N
<1>4. ASSUME NEW x \in D, NEW g \in F PROVE Step[<<x, g>>] = ParseAt(t, g, x)
    BY <1>4
<1>5. ASSUME NEW x \in D, NEW h \in Values(D, V), NEW g,
             \A y \in D : Distance(t)[y] < Distance(t)[x] => g[y] = h[y]
      PROVE  ParseAt(t, g, x) = ParseAt(t, h, x) /\ ParseAt(t, h, x) \in V[x]
    <2>1. Agrees(t, g, h, x)
        BY <1>5 DEF Agrees
    <2> QED BY <2>1, ParseAtReads
<1>6. Values(D, V) \subseteq F /\ parse \in F
    OBVIOUS
<1> HIDE DEF Step, F, D, V
<1>7. Descends(D, V, Distance(t), F, Step)
    <2>1. ASSUME NEW x \in D, NEW h \in Values(D, V) PROVE Step[<<x, h>>] \in V[x]
        BY <1>4, <1>5, <1>6
    <2>2. ASSUME NEW x \in D, NEW g \in F, NEW h \in Values(D, V),
                 \A y \in D : Distance(t)[y] < Distance(t)[x] => g[y] = h[y]
          PROVE  Step[<<x, g>>] = Step[<<x, h>>]
        BY <1>4, <1>5, <1>6, <2>2
    <2> QED BY <1>3, <2>1, <2>2 DEF Descends
<1>8. Descends(D, V, Distance(t), Values(D, V), Step)
    BY <1>6, <1>7 DEF Descends
<1>9. PICK f \in Values(D, V) : Solves(D, Step, f)
    BY <1>1, <1>8, RecursionExists
<1>10. Rec(f)
    <2>1. \A x \in D : f[x] = ParseAt(t, f, x)
        BY <1>4, <1>6, <1>9 DEF Solves
    <2>2. f = [x \in D |-> f[x]]
        BY DEF Values
    <2> QED BY <2>1, <2>2
<1>11. Rec(parse)
    <2> HIDE DEF Rec
    <2> QED BY <1>10 DEF parse
<1>12. \A x \in D : parse[x] = ParseAt(t, parse, x)
    BY <1>11
<1> HIDE DEF Rec
<1>13. Solves(D, Step, parse)
    BY <1>4, <1>6, <1>12 DEF Solves
<1>14. \A x \in D : parse[x] \in V[x]
    BY <1>1, <1>6, <1>7, <1>13, RecursionTyped
<1>15. ASSUME NEW a \in Levels, NEW i \in 1 .. Len(t) + 1
       PROVE  /\ parse[<<a, i>>] = ParseAt(t, parse, <<a, i>>)
              /\ parse[<<a, i>>] \in [holds : SUBSET Views, next : Ends(t, i)]
    <2>1. <<a, i>> \in D
        BY DEF D, Spots
    <2>2. V[<<a, i>>] = [holds : SUBSET Views, next : Ends(t, i)]
        BY <2>1 DEF V, D, Readings
    <2> QED BY <1>12, <1>14, <2>1, <2>2
<1> QED BY <1>2, <1>15 DEF Parses

-----------------------------------------------------------------------------
(* So are the grammar's: a part's meaning is that of shorter parts, or of   *)
(* the same part on the level below.                                        *)

Kinds == {"sum", "term", "factor"}
Parts(t) == Kinds \X (1 .. Len(t) + 1) \X (0 .. Len(t))
Sense == SUBSET (SUBSET Views)
Senses(t) == [x \in Parts(t) |-> Sense]

Grade(kind) == CASE kind = "sum" -> 2 [] kind = "term" -> 1 [] kind = "factor" -> 0
Extent(i, j) == IF i <= j THEN j + 1 - i ELSE 0
Weight(t) == [x \in Parts(t) |-> 3 * Extent(x[2], x[3]) + Grade(x[1])]

MeansAt(t, means, x) ==
    CASE x[1] = "sum" -> SumOf(t, means, x[2], x[3])
      [] x[1] = "term" -> Term(t, means, x[2], x[3])
      [] x[1] = "factor" -> Factor(t, means, x[2], x[3])

\* The weight of a part is a natural number with a bound.
LEMMA WeightType ==
    ASSUME NEW t \in Seq(Tokens)
    PROVE  /\ 3 * (Len(t) + 1) + 2 \in Nat
           /\ Weight(t) \in [Parts(t) -> 0 .. 3 * (Len(t) + 1) + 2]
<1>1. Len(t) \in Nat
    BY LenProperties
<1>2. ASSUME NEW x \in Parts(t)
      PROVE  3 * Extent(x[2], x[3]) + Grade(x[1]) \in 0 .. 3 * (Len(t) + 1) + 2
    <2>1. x[2] \in 1 .. Len(t) + 1 /\ x[3] \in 0 .. Len(t) /\ Grade(x[1]) \in 0 .. 2
        BY DEF Parts, Kinds, Grade
    <2>2. Extent(x[2], x[3]) \in 0 .. Len(t)
        BY <1>1, <2>1 DEF Extent
    <2> QED BY <1>1, <2>1, <2>2
<1> QED BY <1>1, <1>2 DEF Weight

\* A shorter part, and the same on a level below, weigh less.
LEMMA Lighter ==
    ASSUME NEW t \in Seq(Tokens), NEW a \in Kinds, NEW b \in Kinds,
           NEW i \in 1 .. Len(t) + 1, NEW j \in 0 .. Len(t),
           NEW k \in 1 .. Len(t) + 1, NEW l \in 0 .. Len(t),
           \/ Extent(k, l) < Extent(i, j)
           \/ Extent(k, l) = Extent(i, j) /\ Grade(b) < Grade(a)
    PROVE  /\ <<a, i, j>> \in Parts(t) /\ <<b, k, l>> \in Parts(t)
           /\ Weight(t)[<<b, k, l>>] < Weight(t)[<<a, i, j>>]
<1>1. Len(t) \in Nat /\ Grade(a) \in 0 .. 2 /\ Grade(b) \in 0 .. 2
    BY LenProperties DEF Grade, Kinds
<1>2. Extent(i, j) \in Nat /\ Extent(k, l) \in Nat
    BY <1>1 DEF Extent
<1>3. <<a, i, j>> \in Parts(t) /\ <<b, k, l>> \in Parts(t)
    BY DEF Parts
<1>4. /\ Weight(t)[<<b, k, l>>] = 3 * Extent(k, l) + Grade(b)
      /\ Weight(t)[<<a, i, j>>] = 3 * Extent(i, j) + Grade(a)
    BY <1>3 DEF Weight
<1> QED BY <1>1, <1>2, <1>3, <1>4

Concurs(t, g, h, x) == \A y \in Parts(t) : Weight(t)[y] < Weight(t)[x] => g[y] = h[y]

\* What a function with senses for values has at a part.
LEMMA SenseAt ==
    ASSUME NEW t \in Seq(Tokens), NEW h \in Values(Parts(t), Senses(t)),
           NEW a \in Kinds, NEW i \in 1 .. Len(t) + 1, NEW j \in 0 .. Len(t)
    PROVE  h[<<a, i, j>>] \in Sense
<1>1. <<a, i, j>> \in Parts(t)
    BY DEF Parts
<1>2. Senses(t)[<<a, i, j>>] = Sense
    BY <1>1 DEF Senses
<1> QED BY <1>1, <1>2 DEF Values

\* The meanings of a factor come from lighter parts only.
LEMMA FactorMeans ==
    ASSUME NEW t \in Seq(Tokens), NEW h \in Values(Parts(t), Senses(t)), NEW g,
           NEW i \in 1 .. Len(t) + 1, NEW j \in 0 .. Len(t), Concurs(t, g, h, <<"factor", i, j>>)
    PROVE  Factor(t, g, i, j) = Factor(t, h, i, j) /\ Factor(t, h, i, j) \in Sense
<1>1. Len(t) \in Nat
    BY LenProperties
<1>2. CASE i > j
    BY <1>2 DEF Factor, Sense
<1>3. CASE ~(i > j)
    <2>1. /\ i <= j /\ i \in 1 .. Len(t) /\ i + 1 \in 1 .. Len(t) + 1 /\ j - 1 \in 0 .. Len(t)
          /\ t[i] \in Tokens
        BY <1>1, <1>3, ElementOfSeq
    <2>2. Extent(i + 1, j) < Extent(i, j) /\ Extent(i + 1, j - 1) < Extent(i, j)
        BY <1>1, <2>1 DEF Extent
    <2>3. /\ g[<<"factor", i + 1, j>>] = h[<<"factor", i + 1, j>>]
          /\ h[<<"factor", i + 1, j>>] \in Sense
        BY <2>1, <2>2, Lighter, SenseAt DEF Concurs, Kinds
    <2>4. /\ g[<<"sum", i + 1, j - 1>>] = h[<<"sum", i + 1, j - 1>>]
          /\ h[<<"sum", i + 1, j - 1>>] \in Sense
        BY <2>1, <2>2, Lighter, SenseAt DEF Concurs, Kinds
    <2>5. t[i].holds \subseteq Views
        BY <2>1 DEF Tokens
    <2>6. CASE t[i].type = "atom"
        BY <1>3, <2>1, <2>5, <2>6 DEF Factor, Sense
    <2>7. CASE t[i].type = "!"
        <3>1. /\ Factor(t, g, i, j) = {Views \ m : m \in g[<<"factor", i + 1, j>>]}
              /\ Factor(t, h, i, j) = {Views \ m : m \in h[<<"factor", i + 1, j>>]}
            BY <1>3, <2>1, <2>7 DEF Factor
        <3> QED BY <2>3, <3>1 DEF Sense
    <2>8. CASE t[i].type = "("
        BY <1>3, <2>1, <2>4, <2>8 DEF Factor, Sense
    <2>9. CASE t[i].type \notin {"atom", "!", "("}
        BY <1>3, <2>1, <2>9 DEF Factor, Sense
    <2> QED BY <2>6, <2>7, <2>8, <2>9
<1> QED BY <1>2, <1>3

\* Where the operand after the sign at k starts.
From(t, k) == IF t[k].type = "&" THEN k + 1 ELSE k

Ands(A, B) == {m \cap n : m \in A, n \in B}
Ors(A, B) == {m \cup n : m \in A, n \in B}

\* What two sets of meanings make together is a set of meanings.
LEMMA PairsOfMeanings ==
    ASSUME NEW A \in Sense, NEW B \in Sense
    PROVE  Ands(A, B) \in Sense /\ Ors(A, B) \in Sense
<1>1. ASSUME NEW x \in Ands(A, B) PROVE x \in SUBSET Views
    <2>1. PICK m \in A, n \in B : x = m \cap n
        BY DEF Ands
    <2> QED BY <2>1 DEF Sense
<1>2. ASSUME NEW x \in Ors(A, B) PROVE x \in SUBSET Views
    <2>1. PICK m \in A, n \in B : x = m \cup n
        BY DEF Ors
    <2> QED BY <2>1 DEF Sense
<1> QED BY <1>1, <1>2 DEF Sense

\* A term asks for parts that are lighter.
LEMMA TermMeans ==
    ASSUME NEW t \in Seq(Tokens), NEW h \in Values(Parts(t), Senses(t)), NEW g,
           NEW i \in 1 .. Len(t) + 1, NEW j \in 0 .. Len(t), Concurs(t, g, h, <<"term", i, j>>)
    PROVE  Term(t, g, i, j) = Term(t, h, i, j) /\ Term(t, h, i, j) \in Sense
<1>1. Len(t) \in Nat
    BY LenProperties
<1>2. g[<<"factor", i, j>>] = h[<<"factor", i, j>>] /\ h[<<"factor", i, j>>] \in Sense
    BY Lighter, SenseAt DEF Concurs, Kinds, Grade
<1> DEFINE joined(f, k) == Ands(f[<<"term", i, k - 1>>], f[<<"factor", From(t, k), j>>])
<1>3. ASSUME NEW k \in i + 1 .. j
      PROVE  joined(g, k) = joined(h, k) /\ joined(h, k) \in Sense
    <2>1. /\ k - 1 \in 0 .. Len(t) /\ From(t, k) \in 1 .. Len(t) + 1
          /\ Extent(i, k - 1) < Extent(i, j) /\ Extent(From(t, k), j) < Extent(i, j)
        <3>1. From(t, k) \in {k, k + 1}
            BY DEF From
        <3> QED BY <1>1, <3>1 DEF Extent
    <2>2. /\ g[<<"term", i, k - 1>>] = h[<<"term", i, k - 1>>]
          /\ h[<<"term", i, k - 1>>] \in Sense
        BY <2>1, Lighter, SenseAt DEF Concurs, Kinds
    <2>3. /\ g[<<"factor", From(t, k), j>>] = h[<<"factor", From(t, k), j>>]
          /\ h[<<"factor", From(t, k), j>>] \in Sense
        BY <2>1, Lighter, SenseAt DEF Concurs, Kinds
    <2>4. joined(g, k) = joined(h, k)
        BY <2>2, <2>3
    <2> QED BY <2>2, <2>3, <2>4, PairsOfMeanings
<1>4. \A f : Term(t, f, i, j) = f[<<"factor", i, j>>] \cup UNION {joined(f, k) : k \in i + 1 .. j}
    BY DEF Term, From, Ands
<1>5. {joined(g, k) : k \in i + 1 .. j} = {joined(h, k) : k \in i + 1 .. j}
    <2> HIDE DEF joined
    <2> QED BY <1>3
<1>6. UNION {joined(h, k) : k \in i + 1 .. j} \in Sense
    <2> HIDE DEF joined
    <2> QED BY <1>3 DEF Sense
<1>7. Term(t, g, i, j) = Term(t, h, i, j)
    <2> HIDE DEF joined
    <2> QED BY <1>2, <1>4, <1>5
<1> HIDE DEF joined
<1> QED BY <1>2, <1>4, <1>6, <1>7 DEF Sense

\* So do those of a sum.
LEMMA SumMeans ==
    ASSUME NEW t \in Seq(Tokens), NEW h \in Values(Parts(t), Senses(t)), NEW g,
           NEW i \in 1 .. Len(t) + 1, NEW j \in 0 .. Len(t), Concurs(t, g, h, <<"sum", i, j>>)
    PROVE  SumOf(t, g, i, j) = SumOf(t, h, i, j) /\ SumOf(t, h, i, j) \in Sense
<1>1. Len(t) \in Nat
    BY LenProperties
<1>2. g[<<"term", i, j>>] = h[<<"term", i, j>>] /\ h[<<"term", i, j>>] \in Sense
    BY Lighter, SenseAt DEF Concurs, Kinds, Grade
<1> DEFINE ors == {k \in i .. j : t[k].type = "|"}
           joined(f, k) == Ors(f[<<"sum", i, k - 1>>], f[<<"term", k + 1, j>>])
<1>3. ASSUME NEW k \in ors
      PROVE  joined(g, k) = joined(h, k) /\ joined(h, k) \in Sense
    <2>1. /\ k - 1 \in 0 .. Len(t) /\ k + 1 \in 1 .. Len(t) + 1
          /\ Extent(i, k - 1) < Extent(i, j) /\ Extent(k + 1, j) < Extent(i, j)
        BY <1>1 DEF Extent
    <2>2. /\ g[<<"sum", i, k - 1>>] = h[<<"sum", i, k - 1>>]
          /\ h[<<"sum", i, k - 1>>] \in Sense
        BY <2>1, Lighter, SenseAt DEF Concurs, Kinds
    <2>3. /\ g[<<"term", k + 1, j>>] = h[<<"term", k + 1, j>>]
          /\ h[<<"term", k + 1, j>>] \in Sense
        BY <2>1, Lighter, SenseAt DEF Concurs, Kinds
    <2>4. joined(g, k) = joined(h, k)
        BY <2>2, <2>3
    <2> QED BY <2>2, <2>3, <2>4, PairsOfMeanings
<1>4. \A f : SumOf(t, f, i, j) = f[<<"term", i, j>>] \cup UNION {joined(f, k) : k \in ors}
    BY DEF SumOf, Ors
<1> HIDE DEF ors, joined
<1>5. {joined(g, k) : k \in ors} = {joined(h, k) : k \in ors}
    BY <1>3
<1>6. UNION {joined(h, k) : k \in ors} \in Sense
    BY <1>3 DEF Sense
<1>7. SumOf(t, g, i, j) = SumOf(t, h, i, j)
    BY <1>2, <1>4, <1>5
<1> QED BY <1>2, <1>4, <1>6, <1>7 DEF Sense

\* So the grammar's table is what its definition says.
Explains(t, means) ==
    \A a \in Kinds, i \in 1 .. Len(t) + 1, j \in 0 .. Len(t) :
        means[<<a, i, j>>] = MeansAt(t, means, <<a, i, j>>)

\* A part's senses are made of those of lighter parts.
LEMMA MeansAtMeans ==
    ASSUME NEW t \in Seq(Tokens), NEW h \in Values(Parts(t), Senses(t)), NEW g,
           NEW x \in Parts(t), Concurs(t, g, h, x)
    PROVE  MeansAt(t, g, x) = MeansAt(t, h, x) /\ MeansAt(t, h, x) \in Senses(t)[x]
<1>1. PICK a \in Kinds, i \in 1 .. Len(t) + 1, j \in 0 .. Len(t) : x = <<a, i, j>>
    BY DEF Parts
<1>2. x[1] = a /\ x[2] = i /\ x[3] = j
    BY <1>1
<1>3. Senses(t)[x] = Sense
    BY DEF Senses
<1>4. CASE a = "sum"
    <2>1. MeansAt(t, g, x) = SumOf(t, g, i, j) /\ MeansAt(t, h, x) = SumOf(t, h, i, j)
        BY <1>2, <1>4 DEF MeansAt
    <2> QED BY <1>1, <1>3, <1>4, <2>1, SumMeans
<1>5. CASE a = "term"
    <2>1. MeansAt(t, g, x) = Term(t, g, i, j) /\ MeansAt(t, h, x) = Term(t, h, i, j)
        BY <1>2, <1>5 DEF MeansAt
    <2> QED BY <1>1, <1>3, <1>5, <2>1, TermMeans
<1>6. CASE a = "factor"
    <2>1. MeansAt(t, g, x) = Factor(t, g, i, j) /\ MeansAt(t, h, x) = Factor(t, h, i, j)
        BY <1>2, <1>6 DEF MeansAt
    <2> QED BY <1>1, <1>3, <1>6, <2>1, FactorMeans
<1> QED BY <1>4, <1>5, <1>6 DEF Kinds

\* The grammar's table exists.
LEMMA GrammarIsComputed ==
    ASSUME NEW t \in Seq(Tokens)
    PROVE  Explains(t, Grammar(t))
<1> DEFINE D == Parts(t)
           V == Senses(t)
           Rec(f) == f = [x \in D |-> MeansAt(t, f, x)]
           means == CHOOSE f : Rec(f)
           F == Values(D, V)
           Step == [p \in D \X F |-> MeansAt(t, p[2], p[1])]
           N == 3 * (Len(t) + 1) + 2
<1>1. N \in Nat /\ Weight(t) \in [D -> 0 .. N]
    BY WeightType
<1>2. Grammar(t) = means
    BY DEF Grammar, MeansAt, Parts, Kinds
<1>3. ASSUME NEW x \in D PROVE V[x] # {}
    BY DEF Senses, Sense
<1> HIDE DEF means, N
<1>4. ASSUME NEW x \in D, NEW g \in F PROVE Step[<<x, g>>] = MeansAt(t, g, x)
    BY <1>4
<1>5. ASSUME NEW x \in D, NEW h \in F, NEW g,
             \A y \in D : Weight(t)[y] < Weight(t)[x] => g[y] = h[y]
      PROVE  MeansAt(t, g, x) = MeansAt(t, h, x) /\ MeansAt(t, h, x) \in V[x]
    <2>1. Concurs(t, g, h, x)
        BY <1>5 DEF Concurs
    <2> QED BY <2>1, MeansAtMeans
<1> HIDE DEF Step, D, V
<1>6. Descends(D, V, Weight(t), F, Step)
    <2> HIDE DEF F
    <2>1. ASSUME NEW x \in D, NEW h \in F PROVE Step[<<x, h>>] \in V[x]
        BY <1>4, <1>5
    <2>2. ASSUME NEW x \in D, NEW g \in F, NEW h \in F,
                 \A y \in D : Weight(t)[y] < Weight(t)[x] => g[y] = h[y]
          PROVE  Step[<<x, g>>] = Step[<<x, h>>]
        BY <1>4, <1>5, <2>2
    <2> QED BY <1>3, <2>1, <2>2 DEF Descends, F
<1>7. PICK f \in F : Solves(D, Step, f)
    BY <1>1, <1>6, RecursionExists
<1>8. Rec(f)
    <2>1. \A x \in D : f[x] = MeansAt(t, f, x)
        BY <1>4, <1>7 DEF Solves
    <2>2. f = [x \in D |-> f[x]]
        BY DEF Values
    <2> QED BY <2>1, <2>2
<1>9. Rec(means)
    <2> HIDE DEF Rec
    <2> QED BY <1>8 DEF means
<1>10. \A x \in D : means[x] = MeansAt(t, means, x)
    BY <1>9
<1>11. ASSUME NEW a \in Kinds, NEW i \in 1 .. Len(t) + 1, NEW j \in 0 .. Len(t)
       PROVE  <<a, i, j>> \in D
    BY DEF D, Parts
<1> QED BY <1>2, <1>10, <1>11 DEF Explains

-----------------------------------------------------------------------------
(* The parser reads what the grammar means.                                 *)

Means(t, kind, i, j) == Grammar(t)[<<kind, i, j>>]
Parse(t, level, i) == Parser(t)[<<level, i>>]

\* After a term the loop of parseAnd goes on, after a sum that of parseOr.
AndThen(t, m, next) ==
    LET r == Parse(t, "and", IF Peek(t, next) = "&" THEN next + 1 ELSE next)
    IN  IF Peek(t, next) \in Joining THEN Read(m \cap r.holds, r.next) ELSE Read(m, next)

OrThen(t, m, next) ==
    LET r == Parse(t, "or", next + 1)
    IN  IF Peek(t, next) = "|" THEN Read(m \cup r.holds, r.next) ELSE Read(m, next)

FactorRead(t, i, j) == \A m \in Means(t, "factor", i, j) : Parse(t, "unary", i) = Read(m, j + 1)
TermRead(t, i, j) == \A m \in Means(t, "term", i, j) : Parse(t, "and", i) = AndThen(t, m, j + 1)
SumRead(t, i, j) ==
    \A m \in Means(t, "sum", i, j) :
        Peek(t, j + 1) \notin Joining => Parse(t, "or", i) = OrThen(t, m, j + 1)

AllRead(t, s) ==
    \A i \in 1 .. Len(t) + 1, j \in 0 .. Len(t) :
        Extent(i, j) < s => FactorRead(t, i, j) /\ TermRead(t, i, j) /\ SumRead(t, i, j)

\* The equations of both tables.
LEMMA TableEquations ==
    ASSUME NEW t \in Seq(Tokens), NEW i \in 1 .. Len(t) + 1, NEW j \in 0 .. Len(t)
    PROVE  /\ Means(t, "factor", i, j) = Factor(t, Grammar(t), i, j)
           /\ Means(t, "term", i, j) = Term(t, Grammar(t), i, j)
           /\ Means(t, "sum", i, j) = SumOf(t, Grammar(t), i, j)
           /\ Parse(t, "unary", i) = ParseUnary(t, Parser(t), i)
           /\ Parse(t, "and", i) = ParseAnd(t, Parser(t), i)
           /\ Parse(t, "or", i) = ParseOr(t, Parser(t), i)
<1> DEFINE G == Grammar(t)
           P == Parser(t)
<1>1. Explains(t, G) /\ Parses(t, P)
    BY GrammarIsComputed, ParserIsComputed
<1> HIDE DEF G, P
<1>2. \A a \in Kinds : G[<<a, i, j>>] = MeansAt(t, G, <<a, i, j>>)
    BY <1>1 DEF Explains
<1>3. \A a \in Levels : P[<<a, i>>] = ParseAt(t, P, <<a, i>>)
    BY <1>1 DEF Parses
<1>4. /\ G[<<"factor", i, j>>] = Factor(t, G, i, j)
      /\ G[<<"term", i, j>>] = Term(t, G, i, j)
      /\ G[<<"sum", i, j>>] = SumOf(t, G, i, j)
    BY <1>2 DEF Kinds, MeansAt
<1>5. /\ P[<<"unary", i>>] = ParseUnary(t, P, i)
      /\ P[<<"and", i>>] = ParseAnd(t, P, i)
      /\ P[<<"or", i>>] = ParseOr(t, P, i)
    BY <1>3 DEF Levels, ParseAt
<1> QED BY <1>4, <1>5 DEF Means, Parse, G, P

\* A factor that means something is not empty, and starts with an atom, "!" or "(".
LEMMA FactorStarts ==
    ASSUME NEW t \in Seq(Tokens), NEW i \in 1 .. Len(t) + 1, NEW j \in 0 .. Len(t),
           NEW m \in Means(t, "factor", i, j)
    PROVE  i <= j /\ Peek(t, i) = t[i].type /\ t[i].type \in {"atom", "!", "("}
<1>1. Len(t) \in Nat
    BY LenProperties
<1>2. Factor(t, Grammar(t), i, j) # {}
    BY TableEquations
<1>3. i <= j /\ t[i].type \in {"atom", "!", "("}
    BY <1>1, <1>2 DEF Factor
<1> QED BY <1>1, <1>3, PeekType

\* If lighter parts are read as the grammar has them, so is a factor.
LEMMA FactorIsRead ==
    ASSUME NEW t \in Seq(Tokens), NEW i \in 1 .. Len(t) + 1, NEW j \in 0 .. Len(t),
           AllRead(t, Extent(i, j))
    PROVE  FactorRead(t, i, j)
<1> SUFFICES ASSUME NEW m \in Means(t, "factor", i, j) PROVE Parse(t, "unary", i) = Read(m, j + 1)
    BY DEF FactorRead
<1>1. Len(t) \in Nat
    BY LenProperties
<1>2. i <= j /\ Peek(t, i) = t[i].type /\ t[i].type \in {"atom", "!", "("}
    BY FactorStarts
<1>3. /\ i + 1 \in 1 .. Len(t) + 1 /\ j - 1 \in 0 .. Len(t)
      /\ Extent(i + 1, j) < Extent(i, j) /\ Extent(i + 1, j - 1) < Extent(i, j)
    BY <1>1, <1>2 DEF Extent
<1>4. m \in Factor(t, Grammar(t), i, j)
    BY TableEquations
<1>5. CASE t[i].type = "atom"
    <2>1. i = j /\ m = t[i].holds
        BY <1>2, <1>4, <1>5 DEF Factor
    <2>2. ParseUnary(t, Parser(t), i) = Read(t[i].holds, i + 1)
        BY <1>2, <1>5 DEF ParseUnary, ParsePrimary
    <2> QED BY <2>1, <2>2, TableEquations
<1>6. CASE t[i].type = "!"
    <2>1. PICK n \in Means(t, "factor", i + 1, j) : m = Views \ n
        BY <1>2, <1>4, <1>6 DEF Factor, Means
    <2>2. Parse(t, "unary", i + 1) = Read(n, j + 1)
        BY <1>3, <2>1 DEF AllRead, FactorRead
    <2>3. ParseUnary(t, Parser(t), i) =
            Read(Views \ Parse(t, "unary", i + 1).holds, Parse(t, "unary", i + 1).next)
        BY <1>2, <1>6 DEF ParseUnary, Parse
    <2>4. Parse(t, "unary", i + 1).holds = n /\ Parse(t, "unary", i + 1).next = j + 1
        BY <2>2 DEF Read
    <2>5. ParseUnary(t, Parser(t), i) = Read(m, j + 1)
        BY <2>1, <2>3, <2>4
    <2> QED BY <2>5, TableEquations
<1>7. CASE t[i].type = "("
    <2>1. t[j].type = ")" /\ m \in Means(t, "sum", i + 1, j - 1)
        BY <1>2, <1>4, <1>7 DEF Factor, Means
    <2>2. Peek(t, j) = ")" /\ (j - 1) + 1 = j
        BY <1>1, <1>2, <2>1, PeekType
    <2>3. Parse(t, "or", i + 1) = OrThen(t, m, j)
        <3>1. SumRead(t, i + 1, j - 1)
            BY <1>3 DEF AllRead
        <3>2. Peek(t, (j - 1) + 1) \notin Joining
            BY <2>2 DEF Joining
        <3> QED BY <2>1, <2>2, <3>1, <3>2 DEF SumRead
    <2>4. Parse(t, "or", i + 1) = Read(m, j)
        BY <2>2, <2>3 DEF OrThen
    <2>5. ParseUnary(t, Parser(t), i) =
            Read(Parse(t, "or", i + 1).holds,
                 IF Peek(t, Parse(t, "or", i + 1).next) = ")" THEN Parse(t, "or", i + 1).next + 1
                 ELSE Parse(t, "or", i + 1).next)
        BY <1>2, <1>7 DEF ParseUnary, ParsePrimary, Parse
    <2>6. ParseUnary(t, Parser(t), i) = Read(m, j + 1)
        BY <2>2, <2>4, <2>5 DEF Read
    <2> QED BY <2>6, TableEquations
<1> QED BY <1>2, <1>5, <1>6, <1>7

\* So is a term, up to the sign that goes on with it.
LEMMA TermIsRead ==
    ASSUME NEW t \in Seq(Tokens), NEW i \in 1 .. Len(t) + 1, NEW j \in 0 .. Len(t),
           AllRead(t, Extent(i, j)), FactorRead(t, i, j)
    PROVE  TermRead(t, i, j)
<1>1. Len(t) \in Nat
    BY LenProperties
\* An operand that is read is followed by the loop.
<1>2. ASSUME NEW k \in 1 .. Len(t) + 1, NEW m, Parse(t, "unary", k) = Read(m, j + 1)
      PROVE  Parse(t, "and", k) = AndThen(t, m, j + 1)
    <2>1. Parse(t, "and", k) = ParseAnd(t, Parser(t), k)
        BY TableEquations
    <2>2. Parser(t)[<<"unary", k>>] = Read(m, j + 1)
        BY <1>2 DEF Parse
    <2>3. Read(m, j + 1).holds = m /\ Read(m, j + 1).next = j + 1
        BY DEF Read
    <2>4. ParseAnd(t, Parser(t), k) = AndThen(t, m, j + 1)
        BY <2>2, <2>3 DEF ParseAnd, AndThen, Parse
    <2> QED BY <2>1, <2>4
<1> SUFFICES ASSUME NEW m \in Means(t, "term", i, j) PROVE Parse(t, "and", i) = AndThen(t, m, j + 1)
    BY DEF TermRead
<1>3. m \in Term(t, Grammar(t), i, j)
    BY TableEquations
<1>4. CASE m \in Means(t, "factor", i, j)
    BY <1>2, <1>4 DEF FactorRead
<1>5. CASE m \notin Means(t, "factor", i, j)
    <2>1. m \in UNION {Ands(Means(t, "term", i, k - 1), Means(t, "factor", From(t, k), j)) :
                        k \in i + 1 .. j}
        <3>1. Term(t, Grammar(t), i, j) = Means(t, "factor", i, j) \cup
                UNION {Ands(Means(t, "term", i, k - 1), Means(t, "factor", From(t, k), j)) :
                        k \in i + 1 .. j}
            BY DEF Term, Means, From, Ands
        <3> QED BY <1>3, <1>5, <3>1
    <2>2. PICK k \in i + 1 .. j :
                m \in Ands(Means(t, "term", i, k - 1), Means(t, "factor", From(t, k), j))
        BY <2>1
    <2>3. PICK a \in Means(t, "term", i, k - 1), b \in Means(t, "factor", From(t, k), j) :
                m = a \cap b
        BY <2>2 DEF Ands
    <2>4. From(t, k) \in {k, k + 1}
        BY DEF From
    <2>5. /\ k - 1 \in 0 .. Len(t) /\ From(t, k) \in 1 .. Len(t) + 1 /\ (k - 1) + 1 = k
          /\ k \in 1 .. Len(t) + 1 /\ k <= Len(t)
          /\ Extent(i, k - 1) < Extent(i, j) /\ Extent(From(t, k), j) < Extent(i, j)
        BY <1>1, <2>4 DEF Extent
    <2>6. Peek(t, k) = t[k].type
        BY <2>5, PeekType
    <2>7. Peek(t, k) \in Joining
        <3>1. CASE t[k].type = "&"
            BY <2>6, <3>1 DEF Joining
        <3>2. CASE t[k].type # "&"
            <4>1. From(t, k) = k
                BY <3>2 DEF From
            <4>2. t[k].type \in {"atom", "!", "("}
                BY <2>3, <2>5, <4>1, FactorStarts
            <4> QED BY <2>6, <4>2 DEF Joining
        <3> QED BY <3>1, <3>2
    <2>8. Parse(t, "and", i) = AndThen(t, a, k)
        <3>1. TermRead(t, i, k - 1)
            BY <2>5 DEF AllRead
        <3> QED BY <2>3, <2>5, <3>1 DEF TermRead
    <2> DEFINE r == Parse(t, "and", From(t, k))
    <2>9. Parse(t, "and", i) = Read(a \cap r.holds, r.next)
        BY <2>6, <2>7, <2>8 DEF AndThen, From
    <2>10. r = AndThen(t, b, j + 1)
        <3>1. FactorRead(t, From(t, k), j)
            BY <2>5 DEF AllRead
        <3>2. Parse(t, "unary", From(t, k)) = Read(b, j + 1)
            BY <2>3, <3>1 DEF FactorRead
        <3> QED BY <1>2, <2>5, <3>2
    <2> HIDE DEF r
    <2> DEFINE q == Parse(t, "and", IF Peek(t, j + 1) = "&" THEN j + 1 + 1 ELSE j + 1)
    <2>11. CASE Peek(t, j + 1) \in Joining
        <3>1. r = Read(b \cap q.holds, q.next) /\ AndThen(t, m, j + 1) = Read(m \cap q.holds, q.next)
            BY <2>10, <2>11 DEF AndThen
        <3> HIDE DEF q
        <3>2. r.holds = b \cap q.holds /\ r.next = q.next
            BY <3>1 DEF Read
        <3>3. a \cap (b \cap q.holds) = m \cap q.holds
            BY <2>3
        <3> QED BY <2>9, <3>1, <3>2, <3>3
    <2>12. CASE Peek(t, j + 1) \notin Joining
        <3>1. r = Read(b, j + 1) /\ AndThen(t, m, j + 1) = Read(m, j + 1)
            BY <2>10, <2>12 DEF AndThen
        <3>2. r.holds = b /\ r.next = j + 1
            BY <3>1 DEF Read
        <3> QED BY <2>3, <2>9, <3>1, <3>2
    <2> QED BY <2>11, <2>12
<1> QED BY <1>4, <1>5

\* So is a sum.
LEMMA SumIsRead ==
    ASSUME NEW t \in Seq(Tokens), NEW i \in 1 .. Len(t) + 1, NEW j \in 0 .. Len(t),
           AllRead(t, Extent(i, j)), TermRead(t, i, j)
    PROVE  SumRead(t, i, j)
<1>1. Len(t) \in Nat
    BY LenProperties
<1> SUFFICES ASSUME NEW m \in Means(t, "sum", i, j), Peek(t, j + 1) \notin Joining
             PROVE  Parse(t, "or", i) = OrThen(t, m, j + 1)
    BY DEF SumRead
\* A term that nothing joins is followed by the loop.
<1>2. ASSUME NEW k \in 1 .. Len(t) + 1, NEW n, Parse(t, "and", k) = AndThen(t, n, j + 1)
      PROVE  Parse(t, "or", k) = OrThen(t, n, j + 1)
    <2>1. Parse(t, "or", k) = ParseOr(t, Parser(t), k)
        BY TableEquations
    <2>2. Parser(t)[<<"and", k>>] = Read(n, j + 1)
        BY <1>2 DEF Parse, AndThen
    <2>3. Read(n, j + 1).holds = n /\ Read(n, j + 1).next = j + 1
        BY DEF Read
    <2>4. ParseOr(t, Parser(t), k) = OrThen(t, n, j + 1)
        BY <2>2, <2>3 DEF ParseOr, OrThen, Parse
    <2> QED BY <2>1, <2>4
<1>3. m \in SumOf(t, Grammar(t), i, j)
    BY TableEquations
<1>4. CASE m \in Means(t, "term", i, j)
    BY <1>2, <1>4 DEF TermRead
<1>5. CASE m \notin Means(t, "term", i, j)
    <2>1. m \in UNION {Ors(Means(t, "sum", i, k - 1), Means(t, "term", k + 1, j)) :
                        k \in {k \in i .. j : t[k].type = "|"}}
        <3>1. SumOf(t, Grammar(t), i, j) = Means(t, "term", i, j) \cup
                UNION {Ors(Means(t, "sum", i, k - 1), Means(t, "term", k + 1, j)) :
                        k \in {k \in i .. j : t[k].type = "|"}}
            BY DEF SumOf, Means, Ors
        <3> QED BY <1>3, <1>5, <3>1
    <2>2. PICK k \in {k \in i .. j : t[k].type = "|"} :
                m \in Ors(Means(t, "sum", i, k - 1), Means(t, "term", k + 1, j))
        BY <2>1
    <2>3. PICK a \in Means(t, "sum", i, k - 1), b \in Means(t, "term", k + 1, j) : m = a \cup b
        BY <2>2 DEF Ors
    <2>4. /\ k - 1 \in 0 .. Len(t) /\ k + 1 \in 1 .. Len(t) + 1 /\ (k - 1) + 1 = k
          /\ k \in 1 .. Len(t) + 1 /\ k <= Len(t) /\ t[k].type = "|"
          /\ Extent(i, k - 1) < Extent(i, j) /\ Extent(k + 1, j) < Extent(i, j)
        BY <1>1, <2>2 DEF Extent
    <2>5. Peek(t, k) = "|"
        BY <2>4, PeekType
    <2>6. Parse(t, "or", i) = OrThen(t, a, k)
        <3>1. SumRead(t, i, k - 1)
            BY <2>4 DEF AllRead
        <3>2. Peek(t, (k - 1) + 1) \notin Joining
            BY <2>4, <2>5 DEF Joining
        <3> QED BY <2>3, <2>4, <3>1, <3>2 DEF SumRead
    <2> DEFINE r == Parse(t, "or", k + 1)
    <2>7. Parse(t, "or", i) = Read(a \cup r.holds, r.next)
        BY <2>5, <2>6 DEF OrThen
    <2>8. r = OrThen(t, b, j + 1)
        <3>1. TermRead(t, k + 1, j)
            BY <2>4 DEF AllRead
        <3>2. Parse(t, "and", k + 1) = AndThen(t, b, j + 1)
            BY <2>3, <3>1 DEF TermRead
        <3> QED BY <1>2, <2>4, <3>2
    <2> HIDE DEF r
    <2> DEFINE q == Parse(t, "or", j + 1 + 1)
    <2>9. CASE Peek(t, j + 1) = "|"
        <3>1. r = Read(b \cup q.holds, q.next) /\ OrThen(t, m, j + 1) = Read(m \cup q.holds, q.next)
            BY <2>8, <2>9 DEF OrThen
        <3> HIDE DEF q
        <3>2. r.holds = b \cup q.holds /\ r.next = q.next
            BY <3>1 DEF Read
        <3>3. a \cup (b \cup q.holds) = m \cup q.holds
            BY <2>3
        <3> QED BY <2>7, <3>1, <3>2, <3>3
    <2>10. CASE Peek(t, j + 1) # "|"
        <3>1. r = Read(b, j + 1) /\ OrThen(t, m, j + 1) = Read(m, j + 1)
            BY <2>8, <2>10 DEF OrThen
        <3>2. r.holds = b /\ r.next = j + 1
            BY <3>1 DEF Read
        <3> QED BY <2>3, <2>7, <3>1, <3>2
    <2> QED BY <2>9, <2>10
<1> QED BY <1>4, <1>5

\* Every part that means something is read as what it means, whatever follows.
LEMMA AllIsRead ==
    ASSUME NEW t \in Seq(Tokens), NEW s \in Nat
    PROVE  AllRead(t, s)
<1> DEFINE H == {n \in Nat : AllRead(t, n)}
<1>1. \A i \in 1 .. Len(t) + 1, j \in 0 .. Len(t) : Extent(i, j) \in Nat
    BY LenProperties DEF Extent
<1>2. 0 \in H
    BY <1>1 DEF AllRead
<1>3. ASSUME NEW n \in H PROVE n + 1 \in H
    <2>1. ASSUME NEW i \in 1 .. Len(t) + 1, NEW j \in 0 .. Len(t), Extent(i, j) < n + 1
          PROVE  FactorRead(t, i, j) /\ TermRead(t, i, j) /\ SumRead(t, i, j)
        <3>1. AllRead(t, Extent(i, j))
            BY <1>1, <2>1 DEF AllRead
        <3>2. FactorRead(t, i, j)
            BY <3>1, FactorIsRead
        <3>3. TermRead(t, i, j)
            BY <3>1, <3>2, TermIsRead
        <3>4. SumRead(t, i, j)
            BY <3>1, <3>3, SumIsRead
        <3> QED BY <3>2, <3>3, <3>4
    <2> QED BY <2>1 DEF AllRead
<1>4. H = Nat
    <2>1. H \subseteq Nat
        OBVIOUS
    <2> HIDE DEF H
    <2> QED BY <1>2, <1>3, <2>1, NatSetInduction
<1> QED BY <1>4

\* A part without a token means nothing.
LEMMA EmptyPart ==
    ASSUME NEW t \in Seq(Tokens), NEW i \in 1 .. Len(t) + 1, NEW j \in 0 .. Len(t), i > j
    PROVE  Means(t, "sum", i, j) = {}
<1>1. Len(t) \in Nat
    BY LenProperties
<1>2. Factor(t, Grammar(t), i, j) = {}
    BY DEF Factor
<1>3. i + 1 .. j = {} /\ {k \in i .. j : t[k].type = "|"} = {}
    BY <1>1
<1>4. Term(t, Grammar(t), i, j) = Means(t, "factor", i, j)
    <2> DEFINE joined(k) == Ands(Means(t, "term", i, k - 1), Means(t, "factor", From(t, k), j))
    <2>1. Term(t, Grammar(t), i, j) = Means(t, "factor", i, j) \cup UNION {joined(k) : k \in i + 1 .. j}
        BY DEF Term, Means, From, Ands
    <2> HIDE DEF joined
    <2>2. UNION {joined(k) : k \in i + 1 .. j} = {}
        BY <1>3
    <2> QED BY <2>1, <2>2
<1>5. SumOf(t, Grammar(t), i, j) = Means(t, "term", i, j)
    <2> DEFINE ors == {k \in i .. j : t[k].type = "|"}
               joined(k) == Ors(Means(t, "sum", i, k - 1), Means(t, "term", k + 1, j))
    <2>1. SumOf(t, Grammar(t), i, j) = Means(t, "term", i, j) \cup UNION {joined(k) : k \in ors}
        BY DEF SumOf, Means, Ors
    <2>2. ors = {}
        BY <1>3
    <2> HIDE DEF joined, ors
    <2>3. UNION {joined(k) : k \in ors} = {}
        BY <2>2
    <2> QED BY <2>1, <2>3
<1> QED BY <1>2, <1>4, <1>5, TableEquations

\* An expression of the filter language, of any length and depth, that has a
\* meaning is compiled to it, and so has no other (filter.ts:160-232).
THEOREM FilterCompilesMeaning ==
    ASSUME NEW input \in Seq(Lexemes)
    PROVE  Meanings(input) \subseteq {CompileFilter(input)}
<1> DEFINE t == Tokenize(input)
           n == Len(t)
<1>1. t \in Seq(Tokens) /\ n \in Nat
    BY TokenizeType, LenProperties
<1>2. Meanings(input) = Means(t, "sum", 1, n)
    BY DEF Meanings, Means
<1> SUFFICES ASSUME NEW m \in Meanings(input) PROVE m = CompileFilter(input)
    OBVIOUS
<1>3. n # 0
    <2> SUFFICES ASSUME n = 0 PROVE FALSE
        OBVIOUS
    <2>1. 1 \in 1 .. Len(t) + 1 /\ 0 \in 0 .. Len(t) /\ 1 > 0
        BY <1>1
    <2> HIDE DEF t
    <2>2. Means(t, "sum", 1, 0) = {}
        BY <1>1, <2>1, EmptyPart
    <2> QED BY <1>2, <2>2
<1>4. input # <<>>
    <2> SUFFICES ASSUME input = <<>> PROVE n = 0
        BY <1>3
    <2>1. t = <<>>
        BY TokenizeType
    <2> HIDE DEF t
    <2> QED BY <2>1
<1> HIDE DEF t, n
<1>5. SumRead(t, 1, n)
    <2>1. Extent(1, n) \in Nat /\ 1 \in 1 .. n + 1 /\ n \in 0 .. n
        BY <1>1 DEF Extent
    <2>2. AllRead(t, Extent(1, n) + 1)
        BY <1>1, <2>1, AllIsRead
    <2> QED BY <2>1, <2>2 DEF AllRead, n
<1>6. Peek(t, n + 1) = "end"
    BY <1>1 DEF Peek, n
<1>7. Parse(t, "or", 1) = Read(m, n + 1)
    BY <1>2, <1>5, <1>6 DEF SumRead, OrThen, Joining
<1> QED BY <1>4, <1>7 DEF CompileFilter, Parse, Read, t

-----------------------------------------------------------------------------
(***************************************************************************)
(* The rules: what each part of the engine makes of request, directive and *)
(* response, by induction over the list of rules.                          *)
(***************************************************************************)

Statuses == {0, 200, 302, 404, 418}
Asks == [req : Requests, directive : Directives, applied : Seq(1 .. Len(rules))]
Asked(r) == [req |-> r, directive |-> NoDirective, applied |-> <<>>]

\* Bodies and messages stay what they are.
LEMMA ReplacedBody ==
    ASSUME NEW body \in Bytes
    PROVE  /\ ReplaceBody(body) \in Bytes
           /\ ReplaceBody(body) = body \/ ReplaceBody(body).coding = "-"
           /\ ReplaceBody(body).text # "word"
           /\ ReplaceBody(body).text = "mangled" => body.text = "mangled" \/ body.coding # "-"
BY DEF ReplaceBody, Bytes, Plain, Nothing

\* Bodies without a coding.
LEMMA PlainType == \A text \in {"none", "word", "swapped", "junk", "mangled", "edited"} :
                        Plain(text) \in Bytes /\ Plain(text).coding = "-" /\ Plain(text).text = text
BY DEF Plain, Bytes

\* A rule keeps what the request came as and its header.
LEMMA RedoKeeps ==
    ASSUME NEW r \in Requests, NEW op \in Ops
    PROVE  /\ Redo(op, r) \in Requests
           /\ Redo(op, r).came = r.came
           /\ Redo(op, r).msg.enc = r.msg.enc
           /\ Redo(op, r).msg.body = r.msg.body \/ Redo(op, r).msg.body.coding = "-"
<1>1. r.msg \in Messages /\ r.came \in Messages /\ r.to \in {"asked", "other"}
    BY DEF Requests
<1>2. r.msg.body \in Bytes
    BY <1>1 DEF Messages
<1>3. CASE op = "host"
    BY <1>1, <1>3 DEF Redo, Requests
<1>4. CASE op = "reqReplace"
    <2> DEFINE b == ReplaceBody(r.msg.body)
               m == [r.msg EXCEPT !.body = b]
    <2>1. b \in Bytes /\ (b = r.msg.body \/ b.coding = "-")
        BY <1>2, ReplacedBody
    <2>2. Redo(op, r) = [r EXCEPT !.msg = m]
        BY <1>4 DEF Redo
    <2> HIDE DEF b
    <2>3. m \in Messages /\ m.enc = r.msg.enc /\ m.body = b
        BY <1>1, <2>1 DEF Messages
    <2> HIDE DEF m
    <2>4. [r EXCEPT !.msg = m] \in Requests
        BY <2>3 DEF Requests
    <2>5. [r EXCEPT !.msg = m].came = r.came /\ [r EXCEPT !.msg = m].msg = m
        BY DEF Requests
    <2> QED BY <2>1, <2>2, <2>3, <2>4, <2>5
<1>5. CASE op \notin {"host", "reqReplace"}
    BY <1>5 DEF Redo
<1> QED BY <1>3, <1>4, <1>5

\* What each part of a rule's effect leaves of the directive.
LEMMA Mocks ==
    ASSUME NEW d \in Directives
    PROVE  /\ Mocking(d) \in Directives
           /\ Mocking(d).status = d.status /\ Mocking(d).body = d.body
BY DEF Mocking, Directives

\* One that sets a field keeps both.
LEMMA SetsField ==
    ASSUME NEW d \in Directives, NEW name \in Fields
    PROVE  /\ SetField(d, name) \in Directives
           /\ SetField(d, name).status = d.status /\ SetField(d, name).body = d.body
BY DEF SetField, Directives

\* One that gives a status keeps the body.
LEMMA GivesStatus ==
    ASSUME NEW d \in Directives, NEW status \in Statuses
    PROVE  /\ GiveStatus(d, status) \in Directives
           /\ GiveStatus(d, status).status = status /\ GiveStatus(d, status).body = d.body
BY DEF GiveStatus, Directives, Statuses

\* One that gives a body keeps the status.
LEMMA SetsBody ==
    ASSUME NEW d \in Directives, NEW body \in Bytes
    PROVE  /\ SetBody(d, body) \in Directives
           /\ SetBody(d, body).status = d.status /\ SetBody(d, body).body = body
BY DEF SetBody, Directives

\* The status and the body a rule's operator leaves.
StatusAfter(op, status) ==
    CASE op = "redirect" -> 302
      [] op = "noDir" -> 404
      [] op = "status" -> 418
      [] op \in {"mock", "file", "dir"} -> IF status = 0 THEN 200 ELSE status
      [] OTHER -> status
BodyAfter(op, body) ==
    CASE op = "redirect" -> Nothing
      [] op = "noDir" -> Plain("junk")
      [] op \in {"mock", "file", "dir"} -> Plain("word")
      [] OTHER -> body

\* A rule's operator changes a directive as these two say.
LEMMA DirectDoes ==
    ASSUME NEW d \in Directives, NEW op \in Ops
    PROVE  /\ Direct(op, d) \in Directives
           /\ Direct(op, d).status = StatusAfter(op, d.status)
           /\ Direct(op, d).body = BodyAfter(op, d.body)
<1> DEFINE Done(e) == /\ e \in Directives
                      /\ e.status = StatusAfter(op, d.status)
                      /\ e.body = BodyAfter(op, d.body)
<1>1. /\ Plain("word") \in Bytes /\ Plain("junk") \in Bytes /\ Nothing \in Bytes
    BY PlainType DEF Nothing
<1> DEFINE m == Mocking(d)
<1>2. m \in Directives /\ m.status = d.status /\ m.body = d.body
    BY Mocks
<1>3. {200, 302, 404, 418} \subseteq Statuses
    BY DEF Statuses
<1>4. /\ "content-encoding" \in Fields /\ "content-type" \in Fields
      /\ "location" \in Fields /\ "note" \in Fields
    BY DEF Fields
<1> HIDE DEF m
<1>7. CASE op = "block"
    <2>1. Direct(op, d) = [d EXCEPT !.does = @ \cup {"block"}]
        BY <1>7 DEF Direct
    <2>2. StatusAfter(op, d.status) = d.status /\ BodyAfter(op, d.body) = d.body
        BY <1>7 DEF StatusAfter, BodyAfter
    <2> QED BY <2>1, <2>2 DEF Directives
<1>8. CASE op = "redirect"
    <2> DEFINE e == GiveStatus(m, 302)
               f == SetBody(e, Nothing)
    <2>1. e \in Directives /\ e.status = 302
        BY <1>2, <1>3, GivesStatus
    <2> HIDE DEF e
    <2>2. f \in Directives /\ f.status = 302 /\ f.body = Nothing
        BY <1>1, <2>1, SetsField, SetsBody, GivesStatus, Mocks
    <2>3. Direct(op, d) = SetField(f, "location")
        BY <1>8 DEF Direct, e, m
    <2> HIDE DEF f
    <2>4. /\ SetField(f, "location") \in Directives
          /\ SetField(f, "location").status = 302 /\ SetField(f, "location").body = Nothing
        <3> DEFINE n == "location"
        <3>1. n \in Fields
            BY <1>4
        <3> HIDE DEF n
        <3>2. /\ SetField(f, n) \in Directives
              /\ SetField(f, n).status = f.status /\ SetField(f, n).body = f.body
            BY <2>2, <3>1, SetsField
        <3> QED BY <2>2, <3>2 DEF n
    <2>5. StatusAfter(op, d.status) = 302 /\ BodyAfter(op, d.body) = Nothing
        BY <1>8 DEF StatusAfter, BodyAfter
    <2> QED BY <2>3, <2>4, <2>5
<1>9. CASE op \in {"mock", "file", "dir"}
    <2> DEFINE s == IF d.status = 0 THEN 200 ELSE d.status
               e == StatusOr200(m)
               f == SetBody(e, Plain("word"))
    <2>1. e \in Directives /\ e.status = s
        <3>1. GiveStatus(m, 200) \in Directives /\ GiveStatus(m, 200).status = 200
            BY <1>2, <1>3, GivesStatus
        <3>2. CASE d.status = 0
            BY <1>2, <3>1, <3>2 DEF StatusOr200
        <3>3. CASE d.status # 0
            BY <1>2, <3>3 DEF StatusOr200
        <3> QED BY <3>2, <3>3
    <2>2. Direct(op, d) = SetField(f, "content-type")
        BY <1>9 DEF Direct, GiveBody, m
    <2>3. StatusAfter(op, d.status) = s /\ BodyAfter(op, d.body) = Plain("word")
        BY <1>9 DEF StatusAfter, BodyAfter
    <2> HIDE DEF e, s
    <2>4. f \in Directives /\ f.status = s /\ f.body = Plain("word")
        BY <1>1, <2>1, SetsField, SetsBody, GivesStatus, Mocks
    <2> HIDE DEF f
    <2>5. /\ SetField(f, "content-type") \in Directives
          /\ SetField(f, "content-type").status = s
          /\ SetField(f, "content-type").body = Plain("word")
        BY <1>4, <2>4, SetsField
    <2> QED BY <2>2, <2>3, <2>5
<1>10. CASE op = "noDir"
    <2> DEFINE e == GiveStatus(m, 404)
    <2>1. e \in Directives /\ e.status = 404
        BY <1>2, <1>3, SetsField, SetsBody, GivesStatus, Mocks
    <2>2. Direct(op, d) = SetBody(e, Plain("junk"))
        BY <1>10 DEF Direct, m
    <2> HIDE DEF e
    <2>3. /\ SetBody(e, Plain("junk")) \in Directives
          /\ SetBody(e, Plain("junk")).status = 404 /\ SetBody(e, Plain("junk")).body = Plain("junk")
        BY <1>1, <2>1, SetsField, SetsBody, GivesStatus, Mocks
    <2>4. StatusAfter(op, d.status) = 404 /\ BodyAfter(op, d.body) = Plain("junk")
        BY <1>10 DEF StatusAfter, BodyAfter
    <2> QED BY <2>2, <2>3, <2>4
<1>11. CASE op = "status"
    <2>1. Direct(op, d) = GiveStatus(m, 418)
        BY <1>11 DEF Direct, m
    <2>2. StatusAfter(op, d.status) = 418 /\ BodyAfter(op, d.body) = d.body
        BY <1>11 DEF StatusAfter, BodyAfter
    <2>3. Done(GiveStatus(m, 418))
        BY <1>2, <1>3, <2>2, SetsField, SetsBody, GivesStatus, Mocks
    <2> QED BY <2>1, <2>3
<1>12. CASE op \in {"resHeaders", "resEncoding", "resType"}
    <2>1. \/ Direct(op, d) = SetField(m, "note")
          \/ Direct(op, d) = SetField(m, "content-encoding")
          \/ Direct(op, d) = SetField(d, "content-type")
        BY <1>12 DEF Direct, m
    <2>2. PICK name \in Fields, e \in {d, m} : Direct(op, d) = SetField(e, name)
        BY <1>4, <2>1
    <2>3. e \in Directives /\ e.status = d.status /\ e.body = d.body
        BY <1>2, <2>2
    <2>4. /\ SetField(e, name) \in Directives
          /\ SetField(e, name).status = e.status /\ SetField(e, name).body = e.body
        BY <2>3, SetsField, SetsBody, GivesStatus, Mocks
    <2>5. StatusAfter(op, d.status) = d.status /\ BodyAfter(op, d.body) = d.body
        BY <1>12 DEF StatusAfter, BodyAfter
    <2> QED BY <2>2, <2>3, <2>4, <2>5
<1>13. CASE op = "resDrop"
    <2> DEFINE e == [d EXCEPT !.fields = @ \ {"note"}]
    <2>1. e \in Directives /\ e.status = d.status /\ e.body = d.body
        BY DEF Directives
    <2>2. Direct(op, d) = IF e.fields = {} THEN e ELSE Mocking(e)
        BY <1>13 DEF Direct, DropField
    <2>3. StatusAfter(op, d.status) = d.status /\ BodyAfter(op, d.body) = d.body
        BY <1>13 DEF StatusAfter, BodyAfter
    <2> HIDE DEF e
    <2>4. /\ Mocking(e) \in Directives
          /\ Mocking(e).status = e.status /\ Mocking(e).body = e.body
        BY <2>1, SetsField, SetsBody, GivesStatus, Mocks
    <2> QED BY <2>1, <2>2, <2>3, <2>4
<1>14. CASE op \in {"host", "reqReplace", "noFile", "resReplace", "other"}
    <2>1. Direct(op, d) = d
        BY <1>14 DEF Direct
    <2>2. StatusAfter(op, d.status) = d.status /\ BodyAfter(op, d.body) = d.body
        BY <1>14 DEF StatusAfter, BodyAfter
    <2> QED BY <2>1, <2>2
<1> QED BY <1>7, <1>8, <1>9, <1>10, <1>11, <1>12, <1>13, <1>14 DEF Ops

-----------------------------------------------------------------------------
(* The request phase of the rules.                                         *)

\* A rule of the request phase takes what is typed to what is typed.
LEMMA RequestType ==
    ASSUME rules \in Seq(Rules), NEW got \in Asks, NEW i \in 1 .. Len(rules)
    PROVE  Request(got, i) \in Asks
<1>1. rules[i].op \in Ops
    <2>1. rules[i] \in Rules
        BY ElementOfSeq
    <2> QED BY <2>1 DEF Rules
<1>2. got.req \in Requests /\ got.directive \in Directives /\ got.applied \in Seq(1 .. Len(rules))
    BY DEF Asks
<1> DEFINE op == rules[i].op
           q == Redo(op, got.req)
           d == Direct(op, got.directive)
           a == Append(got.applied, i)
<1>3. Request(got, i) = got \/ Request(got, i) = [req |-> q, directive |-> d, applied |-> a]
    BY DEF Request
<1>4. q \in Requests /\ d \in Directives /\ a \in Seq(1 .. Len(rules))
    <2>1. a \in Seq(1 .. Len(rules))
        BY <1>2, AppendProperties
    <2> HIDE DEF op
    <2>2. q \in Requests
        BY <1>1, <1>2, RedoKeeps DEF op
    <2>3. d \in Directives
        BY <1>1, <1>2, DirectDoes DEF op
    <2> QED BY <2>1, <2>2, <2>3
<1> HIDE DEF q, d, a
<1> QED BY <1>3, <1>4 DEF Asks

\* applyRequest applies one rule after the other.
LEMMA ApplyRequestSteps ==
    ASSUME rules \in Seq(Rules), NEW r \in Requests
    PROVE  \E got : /\ got[0] = Asked(r) /\ ApplyRequest(r) = got[Len(rules)]
                    /\ \A n \in 1 .. Len(rules) : got[n] = Request(got[n - 1], n)
<1> DEFINE N == Len(rules)
           G == [p \in (1 .. N) \X Asks |-> Request(p[2], p[1])]
           Rec(f) == f = [n \in 0 .. N |-> IF n = 0 THEN Asked(r) ELSE Request(f[n - 1], n)]
           got == CHOOSE f : Rec(f)
<1>1. N \in Nat
    BY LenProperties
<1>2. Asked(r) \in Asks
    BY EmptySeq, PlainType DEF Asked, Asks, NoDirective, Directives, Nothing
<1>3. G \in Steps(N, Asks)
    <2> SUFFICES ASSUME NEW n \in 1 .. N, NEW x \in Asks PROVE Request(x, n) \in Asks
        BY DEF Steps
    <2> QED BY RequestType
<1>4. PICK f : Iterates(f, G, Asked(r), N, Asks)
    <2> HIDE DEF G, N
    <2> QED BY <1>1, <1>2, <1>3, RecursionOnInterval
<1>5. Rec(f)
    <2>1. f \in [0 .. N -> Asks] /\ f[0] = Asked(r)
        BY <1>4 DEF Iterates
    <2>2. ASSUME NEW n \in 1 .. N PROVE f[n] = Request(f[n - 1], n)
        <3>1. n - 1 \in 0 .. N /\ f[n - 1] \in Asks
            BY <1>1, <2>1
        <3>2. f[n] = G[<<n, f[n - 1]>>]
            BY <1>4 DEF Iterates
        <3> QED BY <3>1, <3>2
    <2> QED BY <1>1, <2>1, <2>2
<1>6. Rec(got)
    <2> HIDE DEF Rec
    <2> QED BY <1>5
<1>7. ApplyRequest(r) = got[N]
    BY DEF ApplyRequest, Asked
<1> HIDE DEF got, N
<1>8. \A n \in 0 .. N : got[n] = IF n = 0 THEN Asked(r) ELSE Request(got[n - 1], n)
    BY <1>6
<1>9. /\ got[0] = Asked(r)
      /\ \A n \in 1 .. N : got[n] = Request(got[n - 1], n)
    BY <1>1, <1>8
<1> QED BY <1>7, <1>9 DEF N

\* The operator of the last rule of a list of places that is one of these.
LastOf(a, ops) ==
    LET places == {a[k] : k \in {k \in 1 .. Len(a) : rules[a[k]].op \in ops}}
    IN  IF places = {} THEN "none" ELSE rules[Max(places)].op

\* The greatest element of a set that has one.
LEMMA MaxIs ==
    ASSUME NEW S \in SUBSET Nat, NEW m \in S, \A y \in S : y <= m
    PROVE  Max(S) = m
<1>1. \E x \in S : \A y \in S : x >= y
    OBVIOUS
<1>2. Max(S) \in S /\ \A y \in S : Max(S) >= y
    BY <1>1 DEF Max
<1> DEFINE x == Max(S)
<1>3. x \in Nat /\ m \in Nat /\ x <= m /\ x >= m
    BY <1>2
<1> HIDE DEF x
<1>4. x = m
    BY <1>3
<1> QED BY <1>4 DEF x

\* Where the places increase, a new one comes last.
LEMMA LastOfAppend ==
    ASSUME rules \in Seq(Rules), NEW a \in Seq(1 .. Len(rules)), NEW i \in 1 .. Len(rules),
           \A k \in 1 .. Len(a) : a[k] < i, NEW ops
    PROVE  LastOf(Append(a, i), ops) = IF rules[i].op \in ops THEN rules[i].op ELSE LastOf(a, ops)
<1> DEFINE b == Append(a, i)
           N == Len(a)
           P(s) == {s[k] : k \in {k \in 1 .. Len(s) : rules[s[k]].op \in ops}}
<1>1. /\ N \in Nat /\ Len(b) = N + 1 /\ b[N + 1] = i
      /\ \A k \in 1 .. N : b[k] = a[k] /\ a[k] \in 1 .. Len(rules)
    BY AppendProperties, LenProperties, ElementOfSeq
<1>2. Len(rules) \in Nat
    BY LenProperties
<1>3. LastOf(b, ops) = (IF P(b) = {} THEN "none" ELSE rules[Max(P(b))].op)
    BY DEF LastOf
<1>4. LastOf(a, ops) = (IF P(a) = {} THEN "none" ELSE rules[Max(P(a))].op)
    BY DEF LastOf
<1> HIDE DEF b
<1>5. 1 .. N + 1 = (1 .. N) \cup {N + 1}
    BY <1>1
<1>6. CASE rules[i].op \in ops
    <2>1. P(b) = P(a) \cup {i}
        BY <1>1, <1>5, <1>6
    <2>2. ASSUME NEW y \in P(b) PROVE y \in Nat /\ y <= i
        <3>1. CASE y = i
            BY <1>2, <3>1
        <3>2. CASE y \in P(a)
            <4>1. PICK k \in 1 .. N : y = a[k]
                BY <3>2
            <4> QED BY <1>1, <1>2, <4>1
        <3> QED BY <2>1, <2>2, <3>1, <3>2
    <2>4. i \in P(b)
        BY <2>1
    <2> HIDE DEF P
    <2>3. Max(P(b)) = i
        BY <2>2, <2>4, MaxIs
    <2> QED BY <1>3, <1>6, <2>4, <2>3 DEF b
<1>7. CASE rules[i].op \notin ops
    <2>1. P(b) = P(a)
        BY <1>1, <1>5, <1>7
    <2> QED BY <1>3, <1>4, <1>7, <2>1 DEF b
<1> QED BY <1>6, <1>7

\* What the rules up to n have made of the request: its header and what it
\* came as are kept, its body is the one it had or is not encoded; and the
\* directive is layered from the rules applied.
StatusOps == {"status", "redirect", "noDir"}
AnswerOps == {"redirect", "mock", "file", "dir", "noDir"}
StatusIs(op, status) ==
    \/ op = "none" /\ status \in {0, 200}
    \/ op = "redirect" /\ status = 302
    \/ op = "noDir" /\ status = 404
    \/ op = "status" /\ status = 418
BodyIs(op, body) ==
    body = CASE op \in {"none", "redirect"} -> Nothing
             [] op = "noDir" -> Plain("junk")
             [] OTHER -> Plain("word")
Layered(a, d) ==
    /\ StatusIs(LastOf(a, StatusOps), d.status)
    /\ BodyIs(LastOf(a, AnswerOps), d.body)
Kept(r, q) ==
    /\ q.came = r.came /\ q.msg.enc = r.msg.enc
    /\ q.msg.body = r.msg.body \/ q.msg.body.coding = "-"
Upto(r, n, got) ==
    /\ got \in Asks
    /\ \A k \in 1 .. Len(got.applied) : got.applied[k] <= n
    /\ Kept(r, got.req)
    /\ Layered(got.applied, got.directive)

\* One more rule leaves the directive layered.
LEMMA StaysLayered ==
    ASSUME rules \in Seq(Rules), NEW a \in Seq(1 .. Len(rules)), NEW i \in 1 .. Len(rules),
           \A k \in 1 .. Len(a) : a[k] < i, NEW d \in Directives, Layered(a, d)
    PROVE  Layered(Append(a, i), Direct(rules[i].op, d))
<1> DEFINE op == rules[i].op
           e == Direct(op, d)
           s == LastOf(a, StatusOps)
           t == LastOf(a, AnswerOps)
<1>1. op \in Ops
    <2>1. rules[i] \in Rules
        BY ElementOfSeq
    <2> QED BY <2>1 DEF Rules
<1>2. /\ LastOf(Append(a, i), StatusOps) = IF op \in StatusOps THEN op ELSE s
      /\ LastOf(Append(a, i), AnswerOps) = IF op \in AnswerOps THEN op ELSE t
    BY LastOfAppend
<1>3. StatusIs(s, d.status) /\ BodyIs(t, d.body)
    BY DEF Layered
<1> HIDE DEF op
<1>4. e.status = StatusAfter(op, d.status) /\ e.body = BodyAfter(op, d.body)
    BY <1>1, DirectDoes
<1> HIDE DEF e, s, t
<1>5. StatusIs(IF op \in StatusOps THEN op ELSE s, e.status)
    <2>1. CASE op \in StatusOps
        <3>1. StatusIs(op, StatusAfter(op, d.status))
            BY <2>1 DEF StatusIs, StatusAfter, StatusOps
        <3> QED BY <1>4, <2>1, <3>1
    <2>2. CASE op \in {"mock", "file", "dir"}
        <3>1. op \notin StatusOps
            BY <2>2 DEF StatusOps
        <3>2. StatusAfter(op, d.status) = IF d.status = 0 THEN 200 ELSE d.status
            BY <2>2 DEF StatusAfter
        <3>3. StatusIs(s, IF d.status = 0 THEN 200 ELSE d.status)
            <4>1. CASE d.status = 0
                <5>1. s = "none"
                    BY <1>3, <4>1 DEF StatusIs, StatusOps
                <5> QED BY <4>1, <5>1 DEF StatusIs
            <4>2. CASE d.status # 0
                BY <1>3, <4>2
            <4> QED BY <4>1, <4>2
        <3> QED BY <1>4, <3>1, <3>2, <3>3
    <2>3. CASE op \notin StatusOps \cup {"mock", "file", "dir"}
        <3>1. StatusAfter(op, d.status) = d.status
            BY <2>3 DEF StatusAfter, StatusOps
        <3> QED BY <1>3, <1>4, <2>3, <3>1
    <2> QED BY <2>1, <2>2, <2>3
<1>6. BodyIs(IF op \in AnswerOps THEN op ELSE t, e.body)
    BY <1>1, <1>3, <1>4 DEF BodyIs, BodyAfter, AnswerOps, Ops
<1> QED BY <1>2, <1>5, <1>6 DEF Layered, e, op

\* A rule takes what is so up to the place before its own to what is so up to
\* its place.
LEMMA RequestGoesOn ==
    ASSUME rules \in Seq(Rules), NEW r \in Requests, NEW n \in Nat, n + 1 <= Len(rules),
           NEW got, Upto(r, n, got)
    PROVE  Upto(r, n + 1, Request(got, n + 1))
<1> DEFINE i == n + 1
           op == rules[i].op
           q == Redo(op, got.req)
           d == Direct(op, got.directive)
           a == Append(got.applied, i)
           new == Request(got, i)
<1>1. /\ got \in Asks /\ Kept(r, got.req) /\ Layered(got.applied, got.directive)
      /\ \A k \in 1 .. Len(got.applied) : got.applied[k] <= n
    BY DEF Upto
<1>2. got.req \in Requests /\ got.directive \in Directives /\ got.applied \in Seq(1 .. Len(rules))
    BY <1>1 DEF Asks
<1>3. i \in 1 .. Len(rules) /\ Len(rules) \in Nat
    BY LenProperties
<1>4. op \in Ops
    <2>1. rules[i] \in Rules
        BY <1>3, ElementOfSeq
    <2> QED BY <2>1 DEF Rules
<1>5. Len(got.applied) \in Nat /\ \A k \in 1 .. Len(got.applied) : got.applied[k] \in Nat
    BY <1>2, <1>3, LenProperties, ElementOfSeq
<1>6. new \in Asks
    <2> HIDE DEF i, new
    <2> QED BY <1>1, <1>3, RequestType DEF new
<1>7. new = got \/ new = [req |-> q, directive |-> d, applied |-> a]
    BY DEF Request
<1>8. CASE new = got
    <2>1. \A k \in 1 .. Len(got.applied) : got.applied[k] <= i
        BY <1>1, <1>5
    <2> HIDE DEF new, i
    <2>2. Upto(r, i, new)
        BY <1>1, <1>8, <2>1 DEF Upto
    <2> QED BY <2>2 DEF new, i
<1>9. CASE new = [req |-> q, directive |-> d, applied |-> a]
    <2>1. Kept(got.req, q)
        <3> HIDE DEF op
        <3> QED BY <1>2, <1>4, RedoKeeps DEF Kept
    <2>2. Layered(a, d)
        <3>1. \A k \in 1 .. Len(got.applied) : got.applied[k] < i
            BY <1>1, <1>5
        <3> DEFINE b == got.applied
                   e == got.directive
        <3> HIDE DEF i, b, e
        <3>2. b \in Seq(1 .. Len(rules)) /\ e \in Directives /\ Layered(b, e)
              /\ \A k \in 1 .. Len(b) : b[k] < i
            BY <1>1, <1>2, <3>1 DEF b, e
        <3>3. Layered(Append(b, i), Direct(rules[i].op, e))
            BY <1>3, <3>2, StaysLayered
        <3> QED BY <3>3 DEF b, e
    <2>3. \A k \in 1 .. Len(a) : a[k] <= i
        <3>1. /\ Len(a) = Len(got.applied) + 1 /\ a[Len(got.applied) + 1] = i
              /\ \A k \in 1 .. Len(got.applied) : a[k] = got.applied[k]
            BY <1>2, <1>3, AppendProperties
        <3>2. ASSUME NEW k \in 1 .. Len(a) PROVE a[k] <= i
            BY <1>1, <1>5, <3>1
        <3> QED BY <3>2
    <2>4. new.req = q /\ new.directive = d /\ new.applied = a
        BY <1>9
    <2> HIDE DEF new, q, d, a, i
    <2>5. Kept(r, q)
        BY <1>1, <2>1 DEF Kept
    <2>6. Upto(r, i, new)
        BY <1>6, <2>2, <2>3, <2>4, <2>5 DEF Upto
    <2> QED BY <2>6 DEF new, i
<1> QED BY <1>7, <1>8, <1>9

\* What all the rules have made of the request.
LEMMA ApplyRequestDoes ==
    ASSUME rules \in Seq(Rules), NEW r \in Requests
    PROVE  Upto(r, Len(rules), ApplyRequest(r))
<1>1. PICK got : /\ got[0] = Asked(r) /\ ApplyRequest(r) = got[Len(rules)]
                 /\ \A n \in 1 .. Len(rules) : got[n] = Request(got[n - 1], n)
    BY ApplyRequestSteps
<1> DEFINE H == {n \in Nat : n <= Len(rules) => Upto(r, n, got[n])}
<1>2. Len(rules) \in Nat
    BY LenProperties
<1>3. 0 \in H
    <2>1. Asked(r) \in Asks
        BY EmptySeq, PlainType DEF Asked, Asks, NoDirective, Directives, Nothing
    <2>2. Kept(r, Asked(r).req) /\ Asked(r).applied = <<>> /\ Asked(r).directive = NoDirective
        BY DEF Asked, Kept
    <2>3. \A ops : LastOf(<<>>, ops) = "none"
        BY EmptySeq DEF LastOf
    <2>4. Layered(<<>>, NoDirective)
        BY <2>3 DEF Layered, StatusIs, BodyIs, NoDirective
    <2>5. Upto(r, 0, Asked(r))
        BY <2>1, <2>2, <2>4, EmptySeq DEF Upto
    <2> QED BY <1>1, <2>5
<1>4. ASSUME NEW n \in H PROVE n + 1 \in H
    <2> SUFFICES ASSUME n + 1 <= Len(rules) PROVE Upto(r, n + 1, got[n + 1])
        OBVIOUS
    <2> DEFINE g == got[n]
    <2>1. n \in Nat /\ Upto(r, n, g)
        BY <1>2
    <2>2. got[n + 1] = Request(g, n + 1)
        <3>1. n + 1 \in 1 .. Len(rules) /\ (n + 1) - 1 = n
            BY <1>2, <2>1
        <3> QED BY <1>1, <3>1
    <2> HIDE DEF g
    <2>3. Upto(r, n + 1, Request(g, n + 1))
        BY <2>1, RequestGoesOn
    <2> QED BY <2>2, <2>3
<1>5. H = Nat
    <2>1. H \subseteq Nat
        OBVIOUS
    <2> HIDE DEF H
    <2> QED BY <1>3, <1>4, <2>1, NatSetInduction
<1>6. Upto(r, Len(rules), got[Len(rules)])
    BY <1>2, <1>5
<1> QED BY <1>1, <1>6

-----------------------------------------------------------------------------
(* The response phase of the rules.                                        *)

\* What a rule may make of a body, and of a response.
Rebodied(b, c) ==
    /\ c \in Bytes
    /\ c = b \/ c.coding = "-"
    /\ c.text = "mangled" => b.text = "mangled" \/ b.coding # "-"
    /\ c.text = "word" => b.text = "word"
Remade(r, q) ==
    /\ q \in Responses
    /\ q.msg.len = r.msg.len
    /\ q.msg.enc \in {r.msg.enc, "set"}
    /\ Rebodied(r.msg.body, q.msg.body)
Replacing == [pattern |-> Always, op |-> "resReplace"]
Replaced(n, q) == (\E i \in 1 .. n : rules[i] = Replacing) => q.msg.body.text # "word"

\* The parts of a response, and a response nobody touched.
LEMMA ResponseParts ==
    ASSUME NEW r \in Responses
    PROVE  r.msg \in Messages /\ r.msg.body \in Bytes /\ Remade(r, r)
<1>1. r.msg \in Messages
    BY DEF Responses
<1>2. r.msg.body \in Bytes
    BY <1>1 DEF Messages
<1> QED BY <1>1, <1>2 DEF Remade, Rebodied

\* What rules make of what rules have made.
LEMMA RemadeAgain ==
    ASSUME NEW r, NEW q, NEW p, Remade(r, q), Remade(q, p)
    PROVE  Remade(r, p)
<1>1. Rebodied(r.msg.body, p.msg.body)
    BY DEF Remade, Rebodied
<1> QED BY <1>1 DEF Remade

\* One rule of the response phase; a replacement leaves no text it is for.
LEMMA ResponseDoes ==
    ASSUME rules \in Seq(Rules), NEW got \in Responses, NEW i \in 1 .. Len(rules)
    PROVE  /\ Remade(got, Response(got, i))
           /\ rules[i] = Replacing => Response(got, i).msg.body.text # "word"
<1> DEFINE view == View(req.to, TRUE, {req.msg.body, got.msg.body})
           op == rules[i].op
           b == ReplaceBody(got.msg.body)
           coded == [got.msg EXCEPT !.enc = "set"]
           replaced == [got.msg EXCEPT !.body = b]
           new == Response(got, i)
<1>1. got.msg \in Messages /\ got.msg.body \in Bytes /\ Remade(got, got)
    BY ResponseParts
<1>2. /\ b \in Bytes /\ Rebodied(got.msg.body, b) /\ b.text # "word"
    BY <1>1, ReplacedBody DEF Rebodied
<1> HIDE DEF b
<1>3. /\ coded \in Messages /\ coded.len = got.msg.len /\ coded.enc = "set"
      /\ coded.body = got.msg.body
    BY <1>1 DEF Messages
<1>4. /\ replaced \in Messages /\ replaced.len = got.msg.len /\ replaced.enc = got.msg.enc
      /\ replaced.body = b
    BY <1>1, <1>2 DEF Messages
<1>5. rules[i] = Replacing => Matches(i, view) /\ op = "resReplace"
    <2>1. view \in Views
        BY DEF View, Views
    <2> HIDE DEF view
    <2> QED BY <2>1, RewriteAssumption DEF Matches, Replacing
<1>6. \/ new = got /\ ~(Matches(i, view) /\ op = "resReplace")
      \/ new = [got EXCEPT !.msg = coded] /\ op = "resEncoding"
      \/ new = [got EXCEPT !.status = 418] /\ op = "status"
      \/ new = [got EXCEPT !.msg = replaced] /\ op = "resReplace"
    <2>1. CASE ~Matches(i, view)
        <3>1. new = got
            BY <2>1 DEF Response
        <3> HIDE DEF view, op, coded, replaced, new
        <3> QED BY <2>1, <3>1
    <2>2. CASE Matches(i, view) /\ op = "resEncoding"
        BY <2>2 DEF Response
    <2>3. CASE Matches(i, view) /\ op = "status"
        BY <2>3 DEF Response
    <2>4. CASE Matches(i, view) /\ op = "resReplace"
        <3>1. new = [got EXCEPT !.msg.body = ReplaceBody(@)]
            BY <2>4 DEF Response
        <3> QED BY <2>4, <3>1 DEF b
    <2>5. CASE Matches(i, view) /\ op \notin {"resEncoding", "status", "resReplace"}
        BY <2>5 DEF Response
    <2> QED BY <2>1, <2>2, <2>3, <2>4, <2>5
<1> HIDE DEF view, op, coded, replaced, new
<1>7. CASE new = got /\ ~(Matches(i, view) /\ op = "resReplace")
    BY <1>1, <1>5, <1>7 DEF new
<1>8. CASE new = [got EXCEPT !.msg = coded] /\ op = "resEncoding"
    <2>1. new \in Responses /\ new.msg = coded
        BY <1>3, <1>8 DEF Responses
    <2>2. Remade(got, new)
        BY <1>1, <1>3, <2>1 DEF Remade
    <2> QED BY <1>5, <1>8, <2>2 DEF new
<1>9. CASE new = [got EXCEPT !.status = 418] /\ op = "status"
    <2>1. new \in Responses /\ new.msg = got.msg
        BY <1>9 DEF Responses
    <2>2. Remade(got, new)
        BY <1>1, <2>1 DEF Remade
    <2> QED BY <1>5, <1>9, <2>2 DEF new
<1>10. CASE new = [got EXCEPT !.msg = replaced] /\ op = "resReplace"
    <2>1. new \in Responses /\ new.msg = replaced
        BY <1>4, <1>10 DEF Responses
    <2>2. Remade(got, new) /\ new.msg.body.text # "word"
        BY <1>1, <1>2, <1>4, <2>1 DEF Remade
    <2> QED BY <2>2 DEF new
<1> QED BY <1>6, <1>7, <1>8, <1>9, <1>10

\* applyResponse applies one rule after the other.
LEMMA ApplyResponseSteps ==
    ASSUME rules \in Seq(Rules), NEW r \in Responses
    PROVE  \E got : /\ got[0] = r /\ ApplyResponse(r) = got[Len(rules)]
                    /\ \A n \in 1 .. Len(rules) : got[n] = Response(got[n - 1], n)
<1> DEFINE N == Len(rules)
           G == [p \in (1 .. N) \X Responses |-> Response(p[2], p[1])]
           Rec(f) == f = [n \in 0 .. N |-> IF n = 0 THEN r ELSE Response(f[n - 1], n)]
           got == CHOOSE f : Rec(f)
<1>1. N \in Nat
    BY LenProperties
<1>2. G \in Steps(N, Responses)
    <2> SUFFICES ASSUME NEW n \in 1 .. N, NEW x \in Responses PROVE Response(x, n) \in Responses
        BY DEF Steps
    <2> QED BY ResponseDoes DEF Remade
<1>3. PICK f : Iterates(f, G, r, N, Responses)
    <2> HIDE DEF G, N
    <2> QED BY <1>1, <1>2, RecursionOnInterval
<1>4. Rec(f)
    <2>1. f \in [0 .. N -> Responses] /\ f[0] = r
        BY <1>3 DEF Iterates
    <2>2. ASSUME NEW n \in 1 .. N PROVE f[n] = Response(f[n - 1], n)
        <3>1. n - 1 \in 0 .. N /\ f[n - 1] \in Responses
            BY <1>1, <2>1
        <3>2. f[n] = G[<<n, f[n - 1]>>]
            BY <1>3 DEF Iterates
        <3> QED BY <3>1, <3>2
    <2> QED BY <1>1, <2>1, <2>2
<1>5. Rec(got)
    <2> HIDE DEF Rec
    <2> QED BY <1>4
<1>6. ApplyResponse(r) = got[N]
    BY DEF ApplyResponse
<1> HIDE DEF got, N
<1>7. \A n \in 0 .. N : got[n] = IF n = 0 THEN r ELSE Response(got[n - 1], n)
    BY <1>5
<1>8. got[0] = r /\ \A n \in 1 .. N : got[n] = Response(got[n - 1], n)
    BY <1>1, <1>7
<1> QED BY <1>6, <1>8 DEF N

\* What all the rules have made of the response.
LEMMA ApplyResponseDoes ==
    ASSUME rules \in Seq(Rules), NEW r \in Responses
    PROVE  Remade(r, ApplyResponse(r)) /\ Replaced(Len(rules), ApplyResponse(r))
<1>1. PICK got : /\ got[0] = r /\ ApplyResponse(r) = got[Len(rules)]
                 /\ \A n \in 1 .. Len(rules) : got[n] = Response(got[n - 1], n)
    BY ApplyResponseSteps
<1> DEFINE H == {n \in Nat : n <= Len(rules) => Remade(r, got[n]) /\ Replaced(n, got[n])}
<1>2. Len(rules) \in Nat
    BY LenProperties
<1>3. 0 \in H
    BY <1>1, ResponseParts DEF Replaced
<1>4. ASSUME NEW n \in H PROVE n + 1 \in H
    <2> SUFFICES ASSUME n + 1 <= Len(rules)
                 PROVE  Remade(r, got[n + 1]) /\ Replaced(n + 1, got[n + 1])
        OBVIOUS
    <2> DEFINE i == n + 1
               g == got[n]
               h == got[i]
    <2>1. Remade(r, g) /\ Replaced(n, g)
        BY <1>2
    <2>2. i \in 1 .. Len(rules) /\ i - 1 = n
        BY <1>2
    <2>3. h = Response(g, i)
        <3> HIDE DEF i
        <3> QED BY <1>1, <2>2
    <2>4. g \in Responses
        BY <2>1 DEF Remade
    <2>5. 1 .. i = (1 .. n) \cup {i}
        OBVIOUS
    <2> HIDE DEF i, g, h
    <2>6. Remade(g, h) /\ (rules[i] = Replacing => h.msg.body.text # "word")
        BY <2>2, <2>3, <2>4, ResponseDoes
    <2>7. Remade(r, h)
        BY <2>1, <2>6, RemadeAgain
    <2>8. Replaced(i, h)
        BY <2>1, <2>5, <2>6 DEF Replaced, Remade, Rebodied
    <2> QED BY <2>7, <2>8 DEF h, i
<1>5. H = Nat
    <2>1. H \subseteq Nat
        OBVIOUS
    <2> HIDE DEF H
    <2> QED BY <1>3, <1>4, <2>1, NatSetInduction
<1>6. Remade(r, got[Len(rules)]) /\ Replaced(Len(rules), got[Len(rules)])
    BY <1>2, <1>5
<1> QED BY <1>1, <1>6

\* A body replaced once has nothing left to replace.
LEMMA ReplacedTwice ==
    ASSUME NEW b \in Bytes
    PROVE  ReplaceBody(ReplaceBody(b)) = ReplaceBody(b)
BY DEF ReplaceBody, Bytes, Plain, Nothing

\* What the first n rules have made of the body and the status of a response.
LayersUpto(r, n, q) ==
    /\ q.msg.body = Left(n + 1, r.msg.body)
    /\ q.status = IF StatusSet(n, r.msg.body) THEN 418 ELSE r.status

\* One more rule; only the first replacement that matches changes the body.
LEMMA LayersGoOn ==
    ASSUME rules \in Seq(Rules), NEW r \in Responses, NEW n \in Nat, n + 1 <= Len(rules),
           NEW got \in Responses, LayersUpto(r, n, got)
    PROVE  LayersUpto(r, n + 1, Response(got, n + 1))
<1> DEFINE i == n + 1
           op == rules[i].op
           b == r.msg.body
           c == got.msg.body
           new == Response(got, i)
           match == Matches(i, Seen(c))
           Earlier(m) == \E j \in 1 .. m : rules[j].op = "resReplace" /\ Matches(j, Seen(b))
<1>1. b \in Bytes /\ got.msg \in Messages /\ c \in Bytes
    BY ResponseParts
<1>2. /\ c = IF Earlier(n) THEN ReplaceBody(b) ELSE b
      /\ got.status = IF StatusSet(n, b) THEN 418 ELSE r.status
    <2>1. i - 1 = n
        OBVIOUS
    <2>2. Left(i, b) = IF Earlier(i - 1) THEN ReplaceBody(b) ELSE b
        BY DEF Left
    <2> HIDE DEF Earlier
    <2> QED BY <2>1, <2>2 DEF LayersUpto
<1>3. Left(i, b) = c
    BY DEF LayersUpto
<1>4. Left(i + 1, b) = IF Earlier(i) THEN ReplaceBody(b) ELSE b
    <2>1. (i + 1) - 1 = i
        OBVIOUS
    <2>2. Left(i + 1, b) = IF Earlier((i + 1) - 1) THEN ReplaceBody(b) ELSE b
        BY DEF Left
    <2> HIDE DEF Earlier, i
    <2> QED BY <2>1, <2>2
<1>5. /\ Earlier(i) <=> Earlier(n) \/ (op = "resReplace" /\ Matches(i, Seen(b)))
      /\ StatusSet(i, b) <=> StatusSet(n, b) \/ (op = "status" /\ match)
    <2>1. 1 .. i = (1 .. n) \cup {i}
        OBVIOUS
    <2> QED BY <1>3, <2>1 DEF StatusSet
<1>6. \/ ~match /\ new = got
      \/ match /\ op = "resReplace" /\ new = [got EXCEPT !.msg.body = ReplaceBody(@)]
      \/ match /\ op = "status" /\ new = [got EXCEPT !.status = 418]
      \/ match /\ op \notin {"resReplace", "status"}
         /\ (new = got \/ new = [got EXCEPT !.msg.enc = "set"])
    <2>1. CASE ~Matches(i, View(req.to, TRUE, {req.msg.body, got.msg.body}))
        <3>1. new = got
            BY <2>1 DEF Response
        <3> HIDE DEF new, op
        <3> QED BY <2>1, <3>1 DEF Seen
    <2>2. CASE Matches(i, View(req.to, TRUE, {req.msg.body, got.msg.body}))
        <3>1. match
            BY <2>2 DEF Seen
        <3>2. new = CASE op = "resEncoding" -> [got EXCEPT !.msg.enc = "set"]
                      [] op = "status" -> [got EXCEPT !.status = 418]
                      [] op = "resReplace" -> [got EXCEPT !.msg.body = ReplaceBody(@)]
                      [] OTHER -> got
            BY <2>2 DEF Response
        <3> HIDE DEF new, op, match
        <3> QED BY <3>1, <3>2
    <2> QED BY <2>1, <2>2
<1>7. /\ new.msg.body = IF match /\ op = "resReplace" THEN ReplaceBody(c) ELSE c
      /\ new.status = IF match /\ op = "status" THEN 418 ELSE got.status
    <2>1. got = [status |-> got.status, msg |-> got.msg]
        BY DEF Responses
    <2>2. got.msg = [enc |-> got.msg.enc, len |-> got.msg.len, body |-> got.msg.body]
        BY <1>1 DEF Messages
    <2> HIDE DEF new, match, op
    <2> QED BY <1>6, <2>1, <2>2
<1>8. ReplaceBody(ReplaceBody(b)) = ReplaceBody(b)
    BY <1>1, ReplacedTwice
<1> HIDE DEF new, op, match, b, Earlier
<1>9. new.msg.body = IF Earlier(i) THEN ReplaceBody(b) ELSE b
    <2>1. CASE Earlier(n)
        BY <1>2, <1>5, <1>7, <1>8, <2>1
    <2>2. CASE ~Earlier(n)
        <3>1. c = b /\ (match <=> Matches(i, Seen(b)))
            BY <1>2, <2>2 DEF match
        <3> QED BY <1>5, <1>7, <2>2, <3>1
    <2> QED BY <2>1, <2>2
<1>10. new.status = IF StatusSet(i, b) THEN 418 ELSE r.status
    BY <1>2, <1>5, <1>7
<1> HIDE DEF i
<1>11. LayersUpto(r, i, new)
    BY <1>4, <1>9, <1>10 DEF LayersUpto, b
<1> QED BY <1>11 DEF new, i

\* Replacements and status rules are all that changes body and status.
LEMMA ApplyResponseLayers ==
    ASSUME rules \in Seq(Rules), NEW r \in Responses
    PROVE  LayersUpto(r, Len(rules), ApplyResponse(r))
<1>1. PICK got : /\ got[0] = r /\ ApplyResponse(r) = got[Len(rules)]
                 /\ \A n \in 1 .. Len(rules) : got[n] = Response(got[n - 1], n)
    BY ApplyResponseSteps
<1> DEFINE H == {n \in Nat : n <= Len(rules) => got[n] \in Responses /\ LayersUpto(r, n, got[n])}
<1>2. Len(rules) \in Nat
    BY LenProperties
<1>3. 0 \in H
    <2>1. 1 .. 0 = {}
        OBVIOUS
    <2>2. Left(0 + 1, r.msg.body) = r.msg.body /\ ~StatusSet(0, r.msg.body)
        BY <2>1 DEF Left, StatusSet
    <2> QED BY <1>1, <2>2 DEF LayersUpto
<1>4. ASSUME NEW n \in H PROVE n + 1 \in H
    <2> SUFFICES ASSUME n + 1 <= Len(rules)
                 PROVE  got[n + 1] \in Responses /\ LayersUpto(r, n + 1, got[n + 1])
        OBVIOUS
    <2> DEFINE g == got[n]
    <2>1. n \in Nat /\ g \in Responses /\ LayersUpto(r, n, g)
        BY <1>2
    <2>2. n + 1 \in 1 .. Len(rules) /\ (n + 1) - 1 = n
        BY <1>2, <2>1
    <2>3. got[n + 1] = Response(g, n + 1)
        BY <1>1, <2>2
    <2> HIDE DEF g
    <2>4. LayersUpto(r, n + 1, Response(g, n + 1))
        BY <2>1, LayersGoOn
    <2>5. Response(g, n + 1) \in Responses
        BY <2>1, <2>2, ResponseDoes DEF Remade
    <2> QED BY <2>3, <2>4, <2>5
<1>5. H = Nat
    <2>1. H \subseteq Nat
        OBVIOUS
    <2> HIDE DEF H
    <2> QED BY <1>3, <1>4, <2>1, NatSetInduction
<1>6. LayersUpto(r, Len(rules), got[Len(rules)])
    BY <1>2, <1>5
<1> QED BY <1>1, <1>6

-----------------------------------------------------------------------------
(* Types.                                                                  *)

\* What client and origin may send.
LEMMA TrafficType ==
    ASSUME NEW m \in Traffic
    PROVE  /\ m.enc \in {"-", "gzip", "zstd"} /\ m.body \in Bytes
           /\ m.body.text \in {"none", "word", "junk"}
           /\ m.body.coding = "-" \/ m.body.coding = m.enc
<1>1. CASE m \in {[enc |-> c, body |-> [text |-> "word", coding |-> c]] : c \in {"-", "gzip", "zstd"}}
    BY <1>1 DEF Bytes
<1>2. CASE m \in [enc : {"-", "gzip"}, body : {Nothing, Plain("junk")}]
    <2>1. m.enc \in {"-", "gzip"} /\ m.body \in {Nothing, Plain("junk")}
        BY <1>2
    <2>2. \A b \in {Nothing, Plain("junk")} :
            b \in Bytes /\ b.text \in {"none", "junk"} /\ b.coding = "-"
        BY PlainType DEF Nothing
    <2> HIDE DEF Traffic
    <2> QED BY <2>1, <2>2
<1> QED BY <1>1, <1>2 DEF Traffic

\* Decoding takes an encoding off that the header names, and no text.
LEMMA Decoded ==
    ASSUME NEW body \in Bytes, NEW enc
    PROVE  /\ DecodeBody(body, enc) \in Bytes
           /\ DecodeBody(body, enc).text = body.text
           /\ DecodeBody(body, enc).coding \in {"-", body.coding}
           /\ DecodeBody(body, enc).coding = "gzip" => enc # "gzip"
BY DEF DecodeBody, IsDecodable, Bytes, Plain

\* Message makes messages.
LEMMA MessageType ==
    ASSUME NEW enc \in {"-", "gzip", "zstd", "set"}, NEW len \in {{}} \cup {{b} : b \in Bytes},
           NEW body \in Bytes
    PROVE  /\ Message(enc, len, body) \in Messages
           /\ Message(enc, len, body).enc = enc
           /\ Message(enc, len, body).len = len
           /\ Message(enc, len, body).body = body
BY DEF Message, Messages

\* The empty message is one.
LEMMA EmptyType == Empty \in Messages /\ Empty.enc = "-" /\ Empty.body = Nothing /\ Nothing \in Bytes
<1>1. Nothing \in Bytes
    BY PlainType DEF Nothing
<1> QED BY <1>1, MessageType DEF Empty

\* The request as rules and breakpoints get it.
Incoming(m) == Message(m.enc, {m.body}, m.body)
Unpacked(m) ==
    IF IsDecodable(m.enc)
    THEN [Incoming(m) EXCEPT !.enc = "-", !.body = DecodeBody(@, m.enc)]
    ELSE Incoming(m)
Arrived(m) == [came |-> Incoming(m), msg |-> Unpacked(m), to |-> "asked"]

\* An encoding that can be decoded is off before the rules see the request.
LEMMA ArrivedType ==
    ASSUME NEW m \in Traffic
    PROVE  /\ Arrived(m) \in Requests
           /\ Arrived(m).came.enc = m.enc
           /\ m.enc # "zstd" => Arrived(m).msg.enc = "-" /\ Arrived(m).msg.body.coding = "-"
<1> DEFINE i == Incoming(m)
           b == DecodeBody(m.body, m.enc)
           u == Unpacked(m)
<1>1. /\ m.enc \in {"-", "gzip", "zstd"} /\ m.body \in Bytes
      /\ m.body.coding = "-" \/ m.body.coding = m.enc
    BY TrafficType
<1>2. i \in Messages /\ i.enc = m.enc /\ i.len = {m.body} /\ i.body = m.body
    BY <1>1, MessageType DEF Incoming
<1>3. b \in Bytes /\ b.coding \in {"-", m.body.coding} /\ (b.coding = "gzip" => m.enc # "gzip")
    BY <1>1, Decoded
<1>4. CASE m.enc = "gzip"
    <2> DEFINE v == [i EXCEPT !.enc = "-"]
    <2>1. u = [i EXCEPT !.enc = "-", !.body = b]
        BY <1>2, <1>4 DEF Unpacked, IsDecodable
    <2>2. u = [enc |-> "-", len |-> i.len, body |-> b]
        <3> HIDE DEF u, b, i
        <3> QED BY <1>2, <2>1 DEF Messages
    <2>3. b.coding = "-"
        <3> HIDE DEF b
        <3> QED BY <1>1, <1>3, <1>4
    <2> HIDE DEF u, b, i
    <2>4. u \in Messages /\ u.enc = "-" /\ u.body = b
        BY <1>2, <1>3, <2>2 DEF Messages
    <2>5. Arrived(m).came = i /\ Arrived(m).msg = u /\ Arrived(m) \in Requests
        BY <1>2, <2>4 DEF Arrived, Requests, i, u
    <2> QED BY <1>2, <2>3, <2>4, <2>5
<1>5. CASE m.enc # "gzip"
    <2>1. u = i
        BY <1>5 DEF Unpacked, IsDecodable
    <2> HIDE DEF u, i
    <2>2. Arrived(m).came = i /\ Arrived(m).msg = u /\ Arrived(m) \in Requests
        BY <1>2, <2>1 DEF Arrived, Requests, i, u
    <2> QED BY <1>1, <1>2, <1>5, <2>1, <2>2
<1> QED BY <1>4, <1>5

\* The arrival of a request, in the terms of the lemmas above.
Took(m, got) ==
    /\ m \in Traffic
    /\ Upto(Arrived(m), Len(rules), got)
    /\ req' = got.req /\ applied' = got.applied
    /\ directive' = IF "mock" \in got.directive.does THEN StatusOr200(got.directive)
                    ELSE got.directive
    /\ phase' \in {"pausedRequest", "ready"}

\* Every arrival is one of these.
LEMMA ArrivalDoes ==
    ASSUME TypeOK, RequestArrives
    PROVE  \E m, got : Took(m, got)
<1>1. PICK m \in Traffic :
            LET got == ApplyRequest(Arrived(m))
            IN  /\ req' = got.req /\ applied' = got.applied
                /\ directive' = IF "mock" \in got.directive.does THEN StatusOr200(got.directive)
                                ELSE got.directive
                /\ phase' = IF Breaks(View(got.req.to, FALSE, {got.req.msg.body}))
                            THEN "pausedRequest" ELSE "ready"
    BY DEF RequestArrives, Arrived, Incoming, Unpacked
<1> DEFINE r == Arrived(m)
           got == ApplyRequest(r)
<1>2. rules \in Seq(Rules) /\ r \in Requests
    BY ArrivedType DEF TypeOK
<1> HIDE DEF r
<1>3. Upto(r, Len(rules), got)
    BY <1>2, ApplyRequestDoes
<1>4. /\ req' = got.req /\ applied' = got.applied
      /\ directive' = IF "mock" \in got.directive.does THEN StatusOr200(got.directive)
                      ELSE got.directive
      /\ phase' \in {"pausedRequest", "ready"}
    BY <1>1 DEF r
<1> HIDE DEF got
<1>5. Took(m, got)
    BY <1>3, <1>4 DEF Took, r
<1> QED BY <1>5

\* The final directive is typed, and layered if the rules left it so.
LEMMA FinalDirective ==
    ASSUME NEW a, NEW d \in Directives, Layered(a, d),
           NEW e, e = IF "mock" \in d.does THEN StatusOr200(d) ELSE d
    PROVE  /\ e \in Directives /\ Layered(a, e)
           /\ "mock" \in e.does => e.status # 0
<1>1. CASE d.status = 0
    <2> DEFINE f == GiveStatus(d, 200)
    <2>1. 200 \in Statuses
        BY DEF Statuses
    <2>2. f \in Directives /\ f.status = 200 /\ f.body = d.body
        BY <2>1, GivesStatus
    <2>3. e = f \/ (e = d /\ "mock" \notin d.does)
        BY <1>1 DEF StatusOr200
    <2> HIDE DEF f
    <2>4. Layered(a, f)
        BY <1>1, <2>2 DEF Layered, StatusIs
    <2> QED BY <2>2, <2>3, <2>4
<1>2. CASE d.status # 0
    <2>1. e = d
        BY <1>2 DEF StatusOr200
    <2> QED BY <1>2, <2>1
<1> QED BY <1>1, <1>2

\* A mock, in the terms of the lemmas above.
Mocked(r, made, written) ==
    /\ r \in Responses /\ r.msg.enc \in {"-", "set"} /\ r.msg.body = directive.body
    /\ r.status = directive.status /\ LayersUpto(r, Len(rules), made)
    /\ Remade(r, made) /\ Replaced(Len(rules), made)
    /\ res' = made
    /\ written \in {made.msg.enc, "-"}
    /\ reply' = Message(written, {made.msg.body}, made.msg.body)
    /\ ~reworked' => ~reworked /\ made.msg.enc # "set"

\* Every mock is one of these.
LEMMA MockDoes ==
    ASSUME TypeOK, Mock
    PROVE  \E r, made, written : Mocked(r, made, written)
<1> DEFINE enc == IF "content-encoding" \in directive.fields THEN "set" ELSE "-"
           msg == Message(enc, {}, directive.body)
           r == [status |-> directive.status, msg |-> msg]
           made == ApplyResponse(r)
<1>1. directive.body \in Bytes /\ directive.status \in Statuses /\ enc \in {"-", "set"}
    BY DEF TypeOK, Directives, Statuses
<1>2. /\ res' = made
      /\ \E written \in {made.msg.enc, "-"} : reply' = Message(written, {made.msg.body}, made.msg.body)
      /\ ~reworked' => ~reworked /\ made.msg.enc # "set"
    <2>1. res' = made /\ reworked' = (reworked \/ made.msg.enc = "set")
        BY DEF Mock
    <2>2. \E written \in {made.msg.enc, "-"} : reply' = Message(written, {made.msg.body}, made.msg.body)
        BY DEF Mock
    <2> HIDE DEF made
    <2> QED BY <2>1, <2>2
<1> HIDE DEF enc
<1>3. msg \in Messages /\ msg.enc = enc /\ msg.body = directive.body
    BY <1>1, MessageType
<1> HIDE DEF msg
<1>4. r \in Responses /\ r.msg = msg /\ r.status = directive.status
    BY <1>1, <1>3 DEF Responses, Statuses
<1> HIDE DEF r
<1>5. Remade(r, made) /\ Replaced(Len(rules), made) /\ LayersUpto(r, Len(rules), made)
    BY <1>4, ApplyResponseDoes, ApplyResponseLayers DEF TypeOK
<1>6. PICK written \in {made.msg.enc, "-"} :
            reply' = Message(written, {made.msg.body}, made.msg.body)
    BY <1>2
<1> HIDE DEF made
<1>7. Mocked(r, made, written)
    BY <1>1, <1>2, <1>3, <1>4, <1>5, <1>6 DEF Mocked
<1> QED BY <1>7

\* An answer of the origin, in the terms of the lemmas above.
Answered(m, r, made) ==
    /\ m \in Traffic
    /\ r \in Responses /\ r.msg.enc = m.enc
    /\ raw' \in Messages /\ raw'.enc = m.enc /\ raw'.body = m.body
    /\ Remade(r, made) /\ Replaced(Len(rules), made)
    /\ res' = made
    /\ ~reworked' => ~reworked /\ made.msg.enc # "set"
    /\ \/ /\ phase' = "done"
          /\ ~HasResponseBodyRule(View(req.to, TRUE, {req.msg.body}))
          /\ r.msg.len = {}
          /\ reply' = [made.msg EXCEPT !.body = m.body]
       \/ /\ phase' \in {"pausedResponse", "complete"}
          /\ r.msg.body = DecodeBody(m.body, m.enc)
          /\ reply' = reply

\* Every answer is one of these.
LEMMA AnswerDoes ==
    ASSUME TypeOK, OriginAnswers
    PROVE  \E m, r, made : Answered(m, r, made)
<1> DEFINE Buffered(m, streams) == IF streams THEN Nothing ELSE DecodeBody(m.body, m.enc)
           Came(m, large) == Message(m.enc, IF large THEN {} ELSE {m.body}, m.body)
           Streams(m, large) == CanStream(Came(m, large), large, View(req.to, TRUE, {req.msg.body}))
           Given(m, large) ==
                [status |-> 200, msg |-> [Came(m, large) EXCEPT !.body = Buffered(m, Streams(m, large))]]
<1>1. PICK m \in Traffic, large \in BOOLEAN :
            LET made == ApplyResponse(Given(m, large))
            IN  /\ raw' = Came(m, large)
                /\ res' = made
                /\ reworked' = (reworked \/ made.msg.enc = "set")
                /\ reply' = IF Streams(m, large) THEN [made.msg EXCEPT !.body = m.body] ELSE reply
                /\ phase' = CASE Streams(m, large) -> "done"
                              [] /\ ~Streams(m, large)
                                 /\ Breaks(View(req.to, TRUE, {req.msg.body, made.msg.body}))
                                     -> "pausedResponse"
                              [] OTHER -> "complete"
    BY DEF OriginAnswers
<1> DEFINE streams == Streams(m, large)
           came == Came(m, large)
           kept == Buffered(m, streams)
           msg == [came EXCEPT !.body = kept]
           r == [status |-> 200, msg |-> msg]
           made == ApplyResponse(r)
<1>2. /\ m.enc \in {"-", "gzip", "zstd"} /\ m.body \in Bytes
      /\ DecodeBody(m.body, m.enc) \in Bytes /\ Nothing \in Bytes
    BY TrafficType, EmptyType, Decoded
<1>3. /\ came \in Messages /\ came.enc = m.enc /\ came.body = m.body
      /\ large => came.len = {}
    <2> DEFINE len == IF large THEN {} ELSE {m.body}
    <2>1. len \in {{}} \cup {{b} : b \in Bytes} /\ (large => len = {})
        BY <1>2
    <2> HIDE DEF len
    <2>2. came = Message(m.enc, len, m.body)
        BY DEF len
    <2> HIDE DEF came
    <2> QED BY <1>2, <2>1, <2>2, MessageType
<1>4. streams => large /\ ~HasResponseBodyRule(View(req.to, TRUE, {req.msg.body}))
    BY DEF CanStream
<1>5. kept \in Bytes /\ (~streams => kept = DecodeBody(m.body, m.enc))
    <2> HIDE DEF streams
    <2> QED BY <1>2
<1>6. /\ raw' = came /\ res' = made
      /\ ~reworked' => ~reworked /\ made.msg.enc # "set"
    <2>1. raw' = came /\ res' = made /\ reworked' = (reworked \/ made.msg.enc = "set")
        BY <1>1
    <2> HIDE DEF made, came
    <2> QED BY <2>1
<1>7. \/ streams /\ reply' = [made.msg EXCEPT !.body = m.body] /\ phase' = "done"
      \/ ~streams /\ reply' = reply /\ phase' \in {"pausedResponse", "complete"}
    <2>1. CASE streams
        BY <1>1, <2>1
    <2>2. CASE ~streams
        <3>1. reply' = reply /\ phase' \in {"pausedResponse", "complete"}
            BY <1>1, <2>2
        <3> QED BY <2>2, <3>1
    <2> QED BY <2>1, <2>2
<1> HIDE DEF streams, came, kept
<1>8. msg \in Messages /\ msg.enc = m.enc /\ msg.len = came.len /\ msg.body = kept
    BY <1>3, <1>5 DEF Messages
<1> HIDE DEF msg
<1>9. r \in Responses /\ r.msg = msg
    BY <1>8 DEF Responses
<1> HIDE DEF r
<1>10. Remade(r, made) /\ Replaced(Len(rules), made)
    BY <1>9, ApplyResponseDoes DEF TypeOK
<1> HIDE DEF made
<1>11. \/ /\ phase' = "done"
          /\ ~HasResponseBodyRule(View(req.to, TRUE, {req.msg.body}))
          /\ r.msg.len = {}
          /\ reply' = [made.msg EXCEPT !.body = m.body]
       \/ /\ phase' \in {"pausedResponse", "complete"}
          /\ r.msg.body = DecodeBody(m.body, m.enc)
          /\ reply' = reply
    BY <1>3, <1>4, <1>5, <1>7, <1>8, <1>9
<1>12. Answered(m, r, made)
    BY <1>3, <1>6, <1>8, <1>9, <1>10, <1>11 DEF Answered
<1> QED BY <1>12

-----------------------------------------------------------------------------
(* Type correctness.                                                       *)

\* The initial state is typed.
LEMMA InitType == Init => TypeOK
<1> SUFFICES ASSUME Init PROVE TypeOK
    OBVIOUS
<1>1. rules \in Seq(Rules) /\ filter \in Seq(Lexemes)
    BY RewriteAssumption DEF Init
<1>2. Empty \in Messages /\ Nothing \in Bytes
    BY EmptyType
<1>3. req \in Requests
    BY <1>2 DEF Init, Requests
<1>4. res \in Responses
    BY <1>2 DEF Init, Responses
<1>5. directive \in Directives
    BY <1>2 DEF Init, NoDirective, Directives
<1>6. applied \in Seq(1 .. Len(rules))
    BY EmptySeq DEF Init
<1> QED BY <1>1, <1>2, <1>3, <1>4, <1>5, <1>6 DEF Init, TypeOK

\* Every step keeps the types.
LEMMA NextType == TypeOK /\ [Next]_vars => TypeOK'
<1> SUFFICES ASSUME TypeOK, [Next]_vars PROVE TypeOK'
    OBVIOUS
<1>1. /\ rules \in Seq(Rules) /\ filter \in Seq(Lexemes) /\ req \in Requests
      /\ directive \in Directives /\ applied \in Seq(1 .. Len(rules)) /\ res \in Responses
      /\ raw \in Messages /\ sent \in Messages /\ reply \in Messages /\ reworked \in BOOLEAN
    BY DEF TypeOK
<1>2. /\ req.msg \in Messages /\ res.msg \in Messages
      /\ req.msg.body \in Bytes /\ res.msg.body \in Bytes /\ raw.body \in Bytes
    <2>1. req.msg \in Messages /\ res.msg \in Messages
        BY <1>1 DEF Requests, Responses
    <2> QED BY <1>1, <2>1 DEF Messages
<1>3. ASSUME RequestArrives PROVE TypeOK'
    <2>1. PICK m, got : Took(m, got)
        BY <1>3, ArrivalDoes
    <2>2. got \in Asks /\ Layered(got.applied, got.directive)
        BY <2>1 DEF Took, Upto
    <2>3. got.req \in Requests /\ got.directive \in Directives /\ got.applied \in Seq(1 .. Len(rules))
        BY <2>2 DEF Asks
    <2>4. directive' \in Directives
        BY <2>1, <2>2, <2>3, FinalDirective DEF Took
    <2> QED BY <1>1, <1>3, <2>1, <2>3, <2>4 DEF TypeOK, RequestArrives, Took
<1>4. ASSUME EditRequest PROVE TypeOK'
    <2> DEFINE a == [req.msg EXCEPT !.body = Plain("edited")]
               b == [req.msg EXCEPT !.enc = "set"]
    <2>1. a \in Messages /\ b \in Messages
        BY <1>2, PlainType DEF Messages
    <2>2. \/ req' = [req EXCEPT !.msg = a] /\ reworked' = reworked
          \/ req' = [req EXCEPT !.msg = b] /\ reworked' = TRUE
        BY <1>4 DEF EditRequest
    <2> HIDE DEF a, b
    <2>3. req' \in Requests /\ reworked' \in BOOLEAN
        BY <1>1, <2>1, <2>2 DEF Requests
    <2> QED BY <1>1, <1>4, <2>3 DEF TypeOK, EditRequest
<1>5. ASSUME Resume PROVE TypeOK'
    BY <1>1, <1>5 DEF TypeOK, Resume
<1>6. ASSUME Block PROVE TypeOK'
    BY <1>1, <1>6 DEF TypeOK, Block
<1>7. ASSUME Mock PROVE TypeOK'
    <2>1. PICK r, made, written : Mocked(r, made, written)
        BY <1>7, MockDoes
    <2>2. r \in Responses /\ made \in Responses /\ res' = made /\ written \in {made.msg.enc, "-"}
          /\ reply' = Message(written, {made.msg.body}, made.msg.body)
        BY <2>1 DEF Mocked, Remade
    <2>3. made.msg \in Messages /\ made.msg.body \in Bytes
        BY <2>2, ResponseParts
    <2>4. written \in {"-", "gzip", "zstd", "set"}
        BY <2>2, <2>3 DEF Messages
    <2>5. reply' \in Messages
        <3> DEFINE body == made.msg.body
                   len == {body}
        <3>1. len \in {{}} \cup {{b} : b \in Bytes}
            BY <2>3
        <3>2. reply' = Message(written, len, body) /\ body \in Bytes
            BY <2>2, <2>3
        <3> HIDE DEF len, body
        <3> QED BY <2>4, <3>1, <3>2, MessageType
    <2>6. reworked' \in BOOLEAN
        BY <1>7 DEF Mock
    <2> QED BY <1>1, <1>7, <2>2, <2>5, <2>6 DEF TypeOK, Mock
<1>8. ASSUME Send PROVE TypeOK'
    BY <1>1, <1>2, <1>8 DEF TypeOK, Send
<1>9. ASSUME OriginAnswers PROVE TypeOK'
    <2>1. PICK m, r, made : Answered(m, r, made)
        BY <1>9, AnswerDoes
    <2>2. /\ raw' \in Messages /\ made \in Responses /\ res' = made
          /\ \/ phase' = "done" /\ reply' = [made.msg EXCEPT !.body = m.body]
             \/ phase' \in {"pausedResponse", "complete"} /\ reply' = reply
        BY <2>1 DEF Answered, Remade
    <2>3. made.msg \in Messages /\ m.body \in Bytes
        <3>1. m \in Traffic
            BY <2>1 DEF Answered
        <3> QED BY <2>2, <3>1, ResponseParts, TrafficType
    <2>4. reply' \in Messages
        BY <1>1, <2>2, <2>3 DEF Messages
    <2>5. reworked' \in BOOLEAN
        BY <1>9 DEF OriginAnswers
    <2> QED BY <1>1, <1>9, <2>2, <2>4, <2>5 DEF TypeOK, OriginAnswers
<1>10. ASSUME EditResponse PROVE TypeOK'
    <2> DEFINE a == [res.msg EXCEPT !.body = Plain("edited")]
               b == [res.msg EXCEPT !.enc = "set"]
    <2>1. a \in Messages /\ b \in Messages
        BY <1>2, PlainType DEF Messages
    <2>2. \/ res' = [res EXCEPT !.msg = a] /\ reworked' = reworked
          \/ res' = [res EXCEPT !.msg = b] /\ reworked' = TRUE
        BY <1>10 DEF EditResponse
    <2> HIDE DEF a, b
    <2>3. [res EXCEPT !.msg = a] \in Responses /\ [res EXCEPT !.msg = b] \in Responses
        BY <1>1, <2>1 DEF Responses
    <2>4. res' \in Responses /\ reworked' \in BOOLEAN
        BY <1>1, <2>2, <2>3
    <2> QED BY <1>1, <1>10, <2>4 DEF TypeOK, EditResponse
<1>11. ASSUME Write PROVE TypeOK'
    <2> DEFINE modified == res.msg.body # DecodeBody(raw.body, raw.enc)
               body == IF modified THEN res.msg.body ELSE raw.body
               enc == IF modified THEN "-" ELSE res.msg.enc
               len == {body}
    <2>1. body \in Bytes /\ len \in {{}} \cup {{b} : b \in Bytes}
        BY <1>2
    <2>2. enc \in {"-", "gzip", "zstd", "set"}
        BY <1>2 DEF Messages
    <2>3. reply' = Message(enc, len, body)
        BY <1>11 DEF Write
    <2> HIDE DEF body, enc, len
    <2>4. reply' \in Messages
        BY <2>1, <2>2, <2>3, MessageType
    <2> QED BY <1>1, <1>11, <2>4 DEF TypeOK, Write
<1>12. ASSUME UNCHANGED vars PROVE TypeOK'
    BY <1>1, <1>12 DEF TypeOK, vars
<1> QED BY <1>3, <1>4, <1>5, <1>6, <1>7, <1>8, <1>9, <1>10, <1>11, <1>12 DEF Next

\* Every variable stays in its type, whatever the rules, the filter and the
\* bodies: what a rule or an edit makes of a message is a message.
THEOREM RewriteTypeCorrect == Spec => []TypeOK
BY InitType, NextType, PTL DEF Spec

-----------------------------------------------------------------------------
(* The invariants.                                                         *)

\* The request: nothing is sent, and no response there, before its time; what
\* goes to the origin bears no encoding that could be taken off.
RequestInv ==
    /\ phase = "asked" => sent = Empty
    /\ phase \in {"asked", "pausedRequest", "ready", "waiting"} => raw = Empty
    /\ phase # "asked" /\ ~reworked /\ req.came.enc # "zstd" =>
            req.msg.enc = "-" /\ req.msg.body.coding = "-"
    /\ sent # Empty /\ ~reworked /\ req.came.enc # "zstd" => Describes(sent)

\* The directive: layered, and a mock has a status.
DirectiveInv ==
    /\ Layered(applied, directive)
    /\ "mock" \in directive.does => directive.status # 0

\* What a mock has been made of.
MockInv ==
    "mock" \in directive.does =>
        /\ phase \in {"asked", "pausedRequest", "ready", "done", "destroyed"}
        /\ phase = "done" =>
              /\ reply.body = Left(Len(rules) + 1, directive.body)
              /\ res.status = IF StatusSet(Len(rules), directive.body) THEN 418
                              ELSE directive.status

\* A buffered response: its body is the decoded one or not encoded, illegible
\* only for an encoding nobody decodes, and replaced if it is to be.
ResponseInv ==
    phase \in {"pausedResponse", "complete"} =>
        /\ raw.body.text \in {"none", "word", "junk"}
        /\ res.msg.body = DecodeBody(raw.body, raw.enc) \/ res.msg.body.coding = "-"
        /\ res.msg.body.text = "mangled" => raw.body.coding = "zstd"
        /\ ~reworked => res.msg.enc = raw.enc
        /\ Replaced(Len(rules), res)

\* Steps that leave what the invariants of request and directive speak of.
LEMMA RequestKept == TypeOK /\ RequestInv /\ [Next]_vars => RequestInv'
<1> SUFFICES ASSUME TypeOK, RequestInv, [Next]_vars PROVE RequestInv'
    OBVIOUS
<1>1. /\ phase = "asked" => sent = Empty
      /\ phase \in {"asked", "pausedRequest", "ready", "waiting"} => raw = Empty
      /\ phase # "asked" /\ ~reworked /\ req.came.enc # "zstd" =>
              req.msg.enc = "-" /\ req.msg.body.coding = "-"
      /\ sent # Empty /\ ~reworked /\ req.came.enc # "zstd" => Describes(sent)
    BY DEF RequestInv
<1>2. req \in Requests /\ req.msg \in Messages /\ reworked \in BOOLEAN
    BY DEF TypeOK, Requests
<1>3. ASSUME RequestArrives PROVE RequestInv'
    <2>1. PICK m, got : Took(m, got)
        BY <1>3, ArrivalDoes
    <2>2. Kept(Arrived(m), req') /\ phase' \in {"pausedRequest", "ready"}
        BY <2>1 DEF Took, Upto
    <2>3. /\ req'.came.enc = m.enc
          /\ m.enc # "zstd" => req'.msg.enc = "-" /\ req'.msg.body.coding = "-"
        <3>1. m \in Traffic
            BY <2>1 DEF Took
        <3> QED BY <2>2, <3>1, ArrivedType DEF Kept
    <2>4. phase = "asked" /\ UNCHANGED <<sent, raw, reworked>>
        BY <1>3 DEF RequestArrives
    <2> QED BY <1>1, <2>2, <2>3, <2>4 DEF RequestInv
<1>4. ASSUME EditRequest PROVE RequestInv'
    <2> DEFINE a == [req.msg EXCEPT !.body = Plain("edited")]
               b == [req.msg EXCEPT !.enc = "set"]
    <2>1. a.enc = req.msg.enc /\ a.body.coding = "-"
        BY <1>2, PlainType DEF Messages
    <2>2. /\ phase = "pausedRequest" /\ UNCHANGED <<phase, sent, raw>>
          /\ \/ req' = [req EXCEPT !.msg = a] /\ reworked' = reworked
             \/ req' = [req EXCEPT !.msg = b] /\ reworked' = TRUE
        BY <1>4 DEF EditRequest
    <2> HIDE DEF a, b
    <2>3. /\ req'.came = req.came
          /\ ~reworked' => ~reworked /\ req'.msg = a
        BY <1>2, <2>2 DEF Requests
    <2> QED BY <1>1, <2>1, <2>2, <2>3 DEF RequestInv, Describes
<1>5. ASSUME Resume PROVE RequestInv'
    BY <1>1, <1>5 DEF RequestInv, Resume, Describes
<1>6. ASSUME Block PROVE RequestInv'
    BY <1>1, <1>6 DEF RequestInv, Block, Describes
<1>7. ASSUME Mock PROVE RequestInv'
    <2>1. \E r, made, written : Mocked(r, made, written)
        BY <1>7, MockDoes
    <2>2. ~reworked' => ~reworked
        BY <2>1 DEF Mocked
    <2>3. phase = "ready" /\ phase' = "done" /\ UNCHANGED <<req, sent, raw>>
        BY <1>7 DEF Mock
    <2> QED BY <1>1, <2>2, <2>3 DEF RequestInv, Describes
<1>8. ASSUME Send PROVE RequestInv'
    BY <1>1, <1>8 DEF RequestInv, Send, Describes
<1>9. ASSUME OriginAnswers PROVE RequestInv'
    <2>1. \E m, r, made : Answered(m, r, made)
        BY <1>9, AnswerDoes
    <2>2. (~reworked' => ~reworked) /\ phase' \in {"done", "pausedResponse", "complete"}
        BY <2>1 DEF Answered
    <2>3. phase = "waiting" /\ UNCHANGED <<req, sent>>
        BY <1>9 DEF OriginAnswers
    <2> QED BY <1>1, <2>2, <2>3 DEF RequestInv, Describes
<1>10. ASSUME EditResponse PROVE RequestInv'
    <2>1. phase = "pausedResponse" /\ UNCHANGED <<phase, req, sent, raw>>
          /\ (reworked' = reworked \/ reworked' = TRUE)
        BY <1>10 DEF EditResponse
    <2>2. ~reworked' => ~reworked
        BY <1>2, <2>1
    <2> QED BY <1>1, <2>1, <2>2 DEF RequestInv, Describes
<1>11. ASSUME Write PROVE RequestInv'
    BY <1>1, <1>11 DEF RequestInv, Write, Describes
<1>12. ASSUME UNCHANGED vars PROVE RequestInv'
    BY <1>1, <1>12 DEF RequestInv, vars, Describes
<1> QED BY <1>3, <1>4, <1>5, <1>6, <1>7, <1>8, <1>9, <1>10, <1>11, <1>12 DEF Next

\* After the request arrived nothing changes rules, directive and places.
LEMMA OnlyArrivalDirects ==
    ASSUME [Next]_vars, ~RequestArrives
    PROVE  UNCHANGED <<rules, filter, directive, applied>>
BY DEF Next, vars, EditRequest, Resume, Block, Mock, Send, OriginAnswers, EditResponse, Write

\* Nothing changes the options.
LEMMA OptionsStay == [Next]_vars => UNCHANGED <<rules, filter>>
<1>1. RequestArrives => UNCHANGED <<rules, filter>>
    BY DEF RequestArrives
<1> QED BY <1>1, OnlyArrivalDirects

\* Places, directive and rules are all the layers depend on.
LEMMA DirectiveKept == TypeOK /\ DirectiveInv /\ [Next]_vars => DirectiveInv'
<1> SUFFICES ASSUME TypeOK, DirectiveInv, [Next]_vars PROVE DirectiveInv'
    OBVIOUS
<1>1. rules' = rules
    BY OptionsStay
<1>2. \A a, d : Layered(a, d) <=> Layered(a, d)'
    BY <1>1 DEF Layered, LastOf
<1>3. CASE RequestArrives
    <2>1. PICK m, got : Took(m, got)
        BY <1>3, ArrivalDoes
    <2>2. got \in Asks /\ Layered(got.applied, got.directive)
        BY <2>1 DEF Took, Upto
    <2>3. got.directive \in Directives
        BY <2>2 DEF Asks
    <2>4. /\ Layered(got.applied, directive')
          /\ "mock" \in directive'.does => directive'.status # 0
        BY <2>1, <2>2, <2>3, FinalDirective DEF Took
    <2>5. applied' = got.applied
        BY <2>1 DEF Took
    <2> QED BY <1>2, <2>4, <2>5 DEF DirectiveInv
<1>4. CASE ~RequestArrives
    <2>1. directive' = directive /\ applied' = applied
        BY <1>4, OnlyArrivalDirects
    <2> QED BY <1>1, <2>1 DEF DirectiveInv, Layered, LastOf
<1> QED BY <1>3, <1>4

\* What the client has got stays got.
LEMMA DoneStays ==
    ASSUME [Next]_vars, phase = "done"
    PROVE  UNCHANGED vars
BY DEF Next, vars, RequestArrives, EditRequest, Resume, Block, Mock, Send, OriginAnswers,
       EditResponse, Write

\* Every step keeps MockInv.
LEMMA MockKept == TypeOK /\ MockInv /\ [Next]_vars => MockInv'
<1> SUFFICES ASSUME TypeOK, MockInv, [Next]_vars PROVE MockInv'
    OBVIOUS
<1>1. CASE RequestArrives
    <2>1. PICK m, got : Took(m, got)
        BY <1>1, ArrivalDoes
    <2> QED BY <2>1 DEF MockInv, Took
<1>2. CASE Mock
    <2>1. PICK r, made, written : Mocked(r, made, written)
        BY <1>2, MockDoes
    <2>2. /\ res' = made /\ reply'.body = made.msg.body
          /\ made.msg.body = Left(Len(rules) + 1, directive.body)
          /\ made.status = IF StatusSet(Len(rules), directive.body) THEN 418 ELSE directive.status
        BY <2>1 DEF Mocked, LayersUpto, Message
    <2>3. phase' = "done" /\ UNCHANGED <<rules, req, directive>>
        BY <1>2 DEF Mock
    <2>4. /\ Left(Len(rules) + 1, directive.body)' = Left(Len(rules) + 1, directive.body)
          /\ StatusSet(Len(rules), directive.body)' <=> StatusSet(Len(rules), directive.body)
        BY <2>3 DEF Left, StatusSet, Seen, Matches
    <2> QED BY <2>2, <2>3, <2>4 DEF MockInv
<1>3. CASE phase = "done" \/ UNCHANGED vars
    <2>1. UNCHANGED vars
        BY <1>3, DoneStays
    <2>2. UNCHANGED <<rules, req, directive, phase, res, reply>>
        BY <2>1 DEF vars
    <2>3. /\ Left(Len(rules) + 1, directive.body)' = Left(Len(rules) + 1, directive.body)
          /\ StatusSet(Len(rules), directive.body)' <=> StatusSet(Len(rules), directive.body)
        BY <2>2 DEF Left, StatusSet, Seen, Matches
    <2> QED BY <2>2, <2>3 DEF MockInv
<1>4. CASE EditRequest \/ Resume \/ Block
    <2>1. /\ directive' = directive
          /\ \/ phase' = phase /\ phase = "pausedRequest"
             \/ phase' = "ready" /\ phase = "pausedRequest"
             \/ phase' = "complete" /\ phase = "pausedResponse"
             \/ phase' = "destroyed"
        BY <1>4 DEF EditRequest, Resume, Block
    <2> QED BY <2>1 DEF MockInv
<1>5. CASE Send
    BY <1>5 DEF Send, MockInv
<1>6. CASE OriginAnswers \/ EditResponse \/ Write
    <2>1. directive' = directive /\ phase \in {"waiting", "pausedResponse", "complete"}
        BY <1>6 DEF OriginAnswers, EditResponse, Write
    <2> QED BY <2>1 DEF MockInv
<1> QED BY <1>1, <1>2, <1>3, <1>4, <1>5, <1>6 DEF Next

\* Layers decide what the mock is made of, and what becomes of it.
LEMMA LayersDecide == DirectiveInv /\ MockInv => MockIsLayered
<1> DEFINE s == Latest(StatusOps)
           t == Latest(AnswerOps)
           body == CASE t \in {"none", "redirect"} -> Nothing
                     [] t = "noDir" -> Plain("junk")
                     [] OTHER -> Plain("word")
           set == StatusSet(Len(rules), body)
<1> SUFFICES ASSUME DirectiveInv, MockInv, phase = "done", "mock" \in directive.does
             PROVE  /\ reply.body = Left(Len(rules) + 1, body)
                    /\ res.status = CASE set \/ s = "status" -> 418
                                      [] ~set /\ s = "redirect" -> 302
                                      [] ~set /\ s = "noDir" -> 404
                                      [] ~set /\ s = "none" -> 200
    BY DEF MockIsLayered, StatusOps, AnswerOps
<1>1. s = LastOf(applied, StatusOps) /\ t = LastOf(applied, AnswerOps)
    BY DEF Latest, LastOf
<1>2. StatusIs(s, directive.status) /\ BodyIs(t, directive.body) /\ directive.status # 0
    BY <1>1 DEF DirectiveInv, Layered
<1> HIDE DEF s, t
<1>3. directive.body = body
    BY <1>2 DEF BodyIs
<1> HIDE DEF body
<1>4. /\ reply.body = Left(Len(rules) + 1, body)
      /\ res.status = IF set THEN 418 ELSE directive.status
    BY <1>3 DEF MockInv
<1> HIDE DEF set
<1> QED BY <1>2, <1>4 DEF StatusIs

\* Only an answer begins, and only an edit changes, a buffered response.
LEMMA ResponseKept == TypeOK /\ ResponseInv /\ [Next]_vars => ResponseInv'
<1> SUFFICES ASSUME TypeOK, ResponseInv, [Next]_vars, phase' \in {"pausedResponse", "complete"}
             PROVE  /\ raw'.body.text \in {"none", "word", "junk"}
                    /\ res'.msg.body = DecodeBody(raw'.body, raw'.enc) \/ res'.msg.body.coding = "-"
                    /\ res'.msg.body.text = "mangled" => raw'.body.coding = "zstd"
                    /\ ~reworked' => res'.msg.enc = raw'.enc
                    /\ Replaced(Len(rules), res)'
    BY DEF ResponseInv, DecodeBody, Plain, IsDecodable
<1> DEFINE Good(p, q, changed) ==
               /\ p.body.text \in {"none", "word", "junk"}
               /\ q.msg.body = DecodeBody(p.body, p.enc) \/ q.msg.body.coding = "-"
               /\ q.msg.body.text = "mangled" => p.body.coding = "zstd"
               /\ ~changed => q.msg.enc = p.enc
               /\ Replaced(Len(rules), q)
<1>1. rules' = rules
    BY OptionsStay
<1>2. Replaced(Len(rules), res') => Replaced(Len(rules), res)'
    BY <1>1 DEF Replaced, Replacing
<1> SUFFICES Good(raw', res', reworked')
    BY <1>2
<1>3. phase \in {"pausedResponse", "complete"} => Good(raw, res, reworked)
    BY DEF ResponseInv
<1>4. res \in Responses /\ res.msg \in Messages /\ reworked \in BOOLEAN
    BY DEF TypeOK, Responses
<1>5. CASE OriginAnswers
    <2>1. PICK m, r, made : Answered(m, r, made)
        BY <1>5, AnswerDoes
    <2> DEFINE b == DecodeBody(m.body, m.enc)
    <2>2. /\ r \in Responses /\ r.msg.enc = m.enc /\ r.msg.body = b
          /\ raw'.enc = m.enc /\ raw'.body = m.body /\ res' = made
          /\ Remade(r, made) /\ Replaced(Len(rules), made)
          /\ ~reworked' => made.msg.enc # "set"
        BY <2>1 DEF Answered
    <2>3. /\ m.enc \in {"-", "gzip", "zstd"} /\ m.body \in Bytes
          /\ m.body.text \in {"none", "word", "junk"}
          /\ m.body.coding = "-" \/ m.body.coding = m.enc
        <3>1. m \in Traffic
            BY <2>1 DEF Answered
        <3> QED BY <3>1, TrafficType
    <2>4. /\ b \in Bytes /\ b.text = m.body.text /\ b.coding \in {"-", m.body.coding}
          /\ b.coding = "gzip" => m.enc # "gzip"
        BY <2>3, Decoded
    <2>5. made.msg.enc \in {m.enc, "set"} /\ Rebodied(b, made.msg.body)
        BY <2>2 DEF Remade
    <2> HIDE DEF b
    <2>6. made.msg.body = b \/ made.msg.body.coding = "-"
        BY <2>5 DEF Rebodied
    <2>7. made.msg.body.text = "mangled" => m.body.coding = "zstd"
        <3>1. made.msg.body.text = "mangled" => b.coding # "-"
            BY <2>3, <2>4, <2>5 DEF Rebodied
        <3>2. b.coding # "-" => m.body.coding = "zstd"
            BY <2>3, <2>4 DEF Bytes
        <3> QED BY <3>1, <3>2
    <2>8. ~reworked' => made.msg.enc = m.enc
        BY <2>2, <2>5
    <2> QED BY <2>2, <2>3, <2>6, <2>7, <2>8 DEF b
<1>6. CASE EditResponse
    <2> DEFINE e == Plain("edited")
               a == [res.msg EXCEPT !.body = e]
               b == [res.msg EXCEPT !.enc = "set"]
    <2>1. e.coding = "-" /\ e.text = "edited"
        BY PlainType
    <2>2. /\ phase = "pausedResponse" /\ raw' = raw
          /\ \/ res' = [res EXCEPT !.msg = a] /\ reworked' = reworked
             \/ res' = [res EXCEPT !.msg = b] /\ reworked' = TRUE
        BY <1>6 DEF EditResponse
    <2> HIDE DEF e
    <2>3. /\ a.enc = res.msg.enc /\ a.body = e
          /\ b.body = res.msg.body
        BY <1>4 DEF Messages
    <2> HIDE DEF a, b
    <2>4. \/ res'.msg = a /\ reworked' = reworked
          \/ res'.msg = b /\ reworked' = TRUE
        BY <1>4, <2>2 DEF Responses
    <2>5. Good(raw, res, reworked)
        BY <1>3, <2>2
    <2>6. CASE res'.msg = a /\ reworked' = reworked
        <3>1. Replaced(Len(rules), res')
            BY <2>1, <2>3, <2>6 DEF Replaced
        <3> QED BY <2>1, <2>2, <2>3, <2>5, <2>6, <3>1
    <2>7. CASE res'.msg = b /\ reworked' = TRUE
        <3>1. Replaced(Len(rules), res')
            BY <2>3, <2>5, <2>7 DEF Replaced
        <3> QED BY <2>2, <2>3, <2>5, <2>7, <3>1
    <2> QED BY <2>4, <2>6, <2>7
<1>7. CASE ~OriginAnswers /\ ~EditResponse
    <2>1. phase \in {"pausedResponse", "complete"} /\ UNCHANGED <<raw, res, reworked>>
        BY <1>7 DEF Next, vars, RequestArrives, EditRequest, Resume, Block, Mock, Send, Write
    <2> QED BY <1>3, <2>1
<1> QED BY <1>5, <1>6, <1>7

\* The bodies a directive has.
LEMMA DirectiveBody ==
    ASSUME DirectiveInv
    PROVE  directive.body.coding = "-" /\ directive.body.text # "mangled"
<1>1. directive.body \in {Nothing, Plain("junk"), Plain("word")}
    BY DEF DirectiveInv, Layered, BodyIs
<1> QED BY <1>1 DEF Nothing, Plain

\* NeverHalfEncoded holds of each of the three ways a reply is made.
Honest(msg) ==
    /\ Describes(msg) /\ msg.len \subseteq {msg.body}
    /\ msg.body.text = "mangled" => raw'.body.coding = "zstd"

\* A mock is sent as its head says: ApplyResponse left its body without a coding.
LEMMA MockIsHonest ==
    ASSUME TypeOK, RequestInv, DirectiveInv, Mock, ~reworked'
    PROVE  Honest(reply')
<1>1. PICK r, made, written : Mocked(r, made, written)
    BY MockDoes
<1>2. /\ r.msg.enc \in {"-", "set"} /\ r.msg.body = directive.body
      /\ Remade(r, made) /\ made.msg.enc # "set" /\ written \in {made.msg.enc, "-"}
      /\ reply' = Message(written, {made.msg.body}, made.msg.body)
    BY <1>1 DEF Mocked
<1>3. made.msg.enc = "-" /\ Rebodied(directive.body, made.msg.body)
    BY <1>2 DEF Remade
<1>4. made.msg.body.coding = "-" /\ made.msg.body.text # "mangled"
    BY <1>3, DirectiveBody DEF Rebodied
<1>5. /\ reply'.enc = "-" /\ reply'.len = {reply'.body} /\ reply'.body = made.msg.body
    BY <1>2, <1>3 DEF Message
<1> QED BY <1>4, <1>5 DEF Honest, Describes

\* A streamed response goes out as it came.
LEMMA StreamIsHonest ==
    ASSUME TypeOK, OriginAnswers, phase' = "done", ~reworked', Describes(raw')
    PROVE  Honest(reply')
<1>1. PICK m, r, made : Answered(m, r, made)
    BY AnswerDoes
<1>2. /\ r \in Responses /\ r.msg.enc = m.enc /\ r.msg.len = {} /\ Remade(r, made)
      /\ raw'.enc = m.enc /\ raw'.body = m.body
      /\ made.msg.enc # "set"
      /\ reply' = [made.msg EXCEPT !.body = m.body]
    BY <1>1 DEF Answered
<1>3. made \in Responses /\ made.msg.enc = m.enc /\ made.msg.len = {}
    BY <1>2 DEF Remade
<1>4. made.msg \in Messages
    BY <1>3, ResponseParts
<1>5. reply'.enc = m.enc /\ reply'.len = {} /\ reply'.body = m.body
    BY <1>2, <1>3, <1>4 DEF Messages
<1>6. m.body.text # "mangled"
    <2>1. m \in Traffic
        BY <1>1 DEF Answered
    <2> QED BY <2>1, TrafficType
<1> QED BY <1>2, <1>5, <1>6 DEF Honest, Describes

\* A buffered one goes out as it came, or decoded without its encoding.
LEMMA WriteIsHonest ==
    ASSUME TypeOK, ResponseInv, Write, ~reworked', Describes(raw')
    PROVE  Honest(reply')
<1> DEFINE d == DecodeBody(raw.body, raw.enc)
           modified == res.msg.body # d
           body == IF modified THEN res.msg.body ELSE raw.body
           enc == IF modified THEN "-" ELSE res.msg.enc
<1>1. /\ phase = "complete" /\ raw' = raw /\ reworked' = reworked
      /\ reply' = Message(enc, {body}, body)
    BY DEF Write
<1>2. /\ raw.body.text \in {"none", "word", "junk"}
      /\ res.msg.body = d \/ res.msg.body.coding = "-"
      /\ res.msg.body.text = "mangled" => raw.body.coding = "zstd"
      /\ res.msg.enc = raw.enc
    BY <1>1 DEF ResponseInv
<1> HIDE DEF d
<1>3. reply'.enc = enc /\ reply'.len = {body} /\ reply'.body = body
    BY <1>1 DEF Message
<1>4. CASE modified
    BY <1>1, <1>2, <1>3, <1>4 DEF Honest, Describes
<1>5. CASE ~modified
    BY <1>1, <1>2, <1>3, <1>5 DEF Honest, Describes
<1> QED BY <1>4, <1>5

\* Every step keeps NeverHalfEncoded.
LEMMA HonestyKept ==
    TypeOK /\ RequestInv /\ DirectiveInv /\ ResponseInv /\ NeverHalfEncoded
        /\ [Next]_vars /\ RequestInv'
    => NeverHalfEncoded'
<1> SUFFICES ASSUME TypeOK, RequestInv, DirectiveInv, ResponseInv, NeverHalfEncoded, [Next]_vars,
                    RequestInv'
             PROVE  NeverHalfEncoded'
    OBVIOUS
<1>1. (sent # Empty /\ ~reworked /\ req.came.enc # "zstd" => Describes(sent))'
    BY DEF RequestInv
<1>2. ASSUME phase' = "done", ~reworked', Describes(raw')
      PROVE  Honest(reply')
    <2>1. CASE phase = "done"
        <3>1. UNCHANGED vars
            BY <2>1, DoneStays
        <3>2. ~reworked /\ Describes(raw)
            BY <1>2, <3>1 DEF vars, Describes
        <3> QED BY <2>1, <3>1, <3>2 DEF NeverHalfEncoded, Honest, vars, Describes
    <2>2. CASE phase # "done"
        <3>1. Mock \/ OriginAnswers \/ Write
            BY <1>2, <2>2 DEF Next, vars, RequestArrives, EditRequest, Resume, Block, Send, EditResponse
        <3> QED BY <1>2, <3>1, MockIsHonest, StreamIsHonest, WriteIsHonest
    <2> QED BY <2>1, <2>2
<1>3. Describes(raw)' <=> Describes(raw')
    BY DEF Describes
<1> QED BY <1>1, <1>2, <1>3 DEF NeverHalfEncoded, Honest, Describes

\* A rule that is there for every flow is there for this one.
LEMMA AlwaysMatches ==
    ASSUME NEW i \in 1 .. Len(rules), rules[i] = Replacing, NEW view \in Views
    PROVE  HasResponseBodyRule(view)
<1>1. Matches(i, view) /\ rules[i].op \in BodyOps
    BY RewriteAssumption DEF Matches, Replacing, BodyOps
<1> QED BY <1>1 DEF HasResponseBodyRule

\* Every step keeps ReplaceAlwaysApplies.
LEMMA ReplacementKept ==
    TypeOK /\ ResponseInv /\ ReplaceAlwaysApplies /\ [Next]_vars => ReplaceAlwaysApplies'
<1> SUFFICES ASSUME TypeOK, ResponseInv, ReplaceAlwaysApplies, [Next]_vars
             PROVE  ReplaceAlwaysApplies'
    OBVIOUS
<1> SUFFICES ASSUME phase' = "done", NEW i \in 1 .. Len(rules), rules[i] = Replacing
             PROVE  reply'.body.text # "word"
    <2>1. rules' = rules
        BY OptionsStay
    <2> QED BY <2>1 DEF ReplaceAlwaysApplies, Replacing
<1>1. CASE phase = "done"
    <2>1. UNCHANGED vars
        BY <1>1, DoneStays
    <2>2. reply.body.text # "word"
        BY <1>1 DEF ReplaceAlwaysApplies, Replacing
    <2> QED BY <2>1, <2>2 DEF vars
<1>2. CASE Mock
    <2>1. PICK r, made, written : Mocked(r, made, written)
        BY <1>2, MockDoes
    <2>2. made.msg.body.text # "word" /\ reply' = Message(written, {made.msg.body}, made.msg.body)
        BY <2>1 DEF Mocked, Replaced
    <2>3. reply'.body = made.msg.body
        BY <2>2 DEF Message
    <2> QED BY <2>2, <2>3
<1>3. CASE OriginAnswers
    <2>1. PICK m, r, made : Answered(m, r, made)
        BY <1>3, AnswerDoes
    <2> DEFINE view == View(req.to, TRUE, {req.msg.body})
    <2>2. ~HasResponseBodyRule(view)
        BY <2>1 DEF Answered
    <2>3. view \in Views
        BY DEF View, Views
    <2> HIDE DEF view
    <2> QED BY <2>2, <2>3, AlwaysMatches
<1>4. CASE Write
    <2> DEFINE d == DecodeBody(raw.body, raw.enc)
               modified == res.msg.body # d
               body == IF modified THEN res.msg.body ELSE raw.body
    <2>1. phase = "complete" /\ \E enc : reply' = Message(enc, {body}, body)
        BY <1>4 DEF Write
    <2>2. reply'.body = body
        BY <2>1 DEF Message
    <2>3. res.msg.body.text # "word"
        BY <2>1 DEF ResponseInv, Replaced
    <2>4. d.text = raw.body.text
        <3>1. raw.body \in Bytes
            BY DEF TypeOK, Messages
        <3> QED BY <3>1, Decoded
    <2> HIDE DEF d
    <2> QED BY <2>2, <2>3, <2>4
<1>5. phase = "done" \/ Mock \/ OriginAnswers \/ Write
    BY DEF Next, vars, RequestArrives, EditRequest, Resume, Block, Send, EditResponse
<1> QED BY <1>1, <1>2, <1>3, <1>4, <1>5

-----------------------------------------------------------------------------
(* The theorems.                                                           *)

RewriteInv ==
    /\ TypeOK /\ RequestInv /\ DirectiveInv /\ MockInv /\ ResponseInv
    /\ NeverHalfEncoded /\ ReplaceAlwaysApplies

\* The invariants hold together in every state.
LEMMA RewriteInvariant == Spec => []RewriteInv
<1>1. Init => RewriteInv
    <2> SUFFICES ASSUME Init PROVE RewriteInv
        OBVIOUS
    <2>1. TypeOK
        BY InitType
    <2>5. MockInv
        BY DEF Init, MockInv, NoDirective
    <2>2. RequestInv /\ ResponseInv /\ NeverHalfEncoded /\ ReplaceAlwaysApplies
        BY DEF Init, RequestInv, ResponseInv, NeverHalfEncoded, ReplaceAlwaysApplies
    <2>3. \A ops : LastOf(<<>>, ops) = "none"
        BY EmptySeq DEF LastOf
    <2>4. DirectiveInv
        BY <2>3 DEF Init, DirectiveInv, Layered, StatusIs, BodyIs, NoDirective
    <2> QED BY <2>1, <2>2, <2>4, <2>5 DEF RewriteInv
<1>2. RewriteInv /\ [Next]_vars => RewriteInv'
    <2> SUFFICES ASSUME RewriteInv, [Next]_vars PROVE RewriteInv'
        OBVIOUS
    <2>1. TypeOK' /\ RequestInv' /\ DirectiveInv' /\ MockInv' /\ ResponseInv'
        BY NextType, RequestKept, DirectiveKept, MockKept, ResponseKept DEF RewriteInv
    <2>2. NeverHalfEncoded' /\ ReplaceAlwaysApplies'
        BY <2>1, HonestyKept, ReplacementKept DEF RewriteInv
    <2> QED BY <2>1, <2>2 DEF RewriteInv
<1> QED BY <1>1, <1>2, PTL DEF Spec

\* Whatever the filter, an expression the grammar gives a meaning is compiled
\* to that meaning.
THEOREM RewriteFilterReadsAsWritten == Spec => []FilterReadsAsWritten
<1>1. TypeOK => FilterReadsAsWritten
    <2> SUFFICES ASSUME TypeOK, Meanings(filter) # {}
                 PROVE  Meanings(filter) = {CompileFilter(filter)}
        BY DEF FilterReadsAsWritten
    <2>1. Meanings(filter) \subseteq {CompileFilter(filter)}
        BY FilterCompilesMeaning DEF TypeOK
    <2> QED BY <2>1
<1> QED BY <1>1, RewriteTypeCorrect, PTL

\* Whatever the rules, no message goes out encoded or framed otherwise than its
\* head says, unless someone set the head by hand.
THEOREM RewriteNeverHalfEncoded == Spec => []NeverHalfEncoded
<1>1. RewriteInv => NeverHalfEncoded
    BY DEF RewriteInv
<1> QED BY <1>1, RewriteInvariant, PTL

\* Whatever the other rules, no text escapes a replacement for every flow.
THEOREM RewriteReplaceAlwaysApplies == Spec => []ReplaceAlwaysApplies
<1>1. RewriteInv => ReplaceAlwaysApplies
    BY DEF RewriteInv
<1> QED BY <1>1, RewriteInvariant, PTL

\* Whatever the rules and their number, the reply of a mock is layered from those
\* applied to the request and those that match the mock.
THEOREM RewriteMockIsLayered == Spec => []MockIsLayered
<1>1. RewriteInv => MockIsLayered
    BY LayersDecide DEF RewriteInv
<1> QED BY <1>1, RewriteInvariant, PTL

=============================================================================
