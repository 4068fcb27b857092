-------------------------------- MODULE Filter --------------------------------
(***************************************************************************)
(* The filter language of src/rules/filter.ts, which rules, breakpoints    *)
(* and the inspector's search share.  An expression is a sequence of       *)
(* lexemes separated by blanks; a predicate is the set of the views of a   *)
(* flow it holds of.                                                       *)
(*                                                                         *)
(* "~s" stands for the codes without an argument, "~b" for those with one, *)
(* and "word" for a regular expression, on its own or as an argument.      *)
(***************************************************************************)
EXTENDS Naturals, Sequences

Lexemes == {"~s", "~b", "word", "(", ")", "&", "|", "!"}

\* What a filter can tell of a flow: whether it has a response, and whether
\* the word is in its URL or in one of its bodies.
Views == [s : BOOLEAN, u : BOOLEAN, b : BOOLEAN]

-----------------------------------------------------------------------------

Atom(holds) == [type |-> "atom", holds |-> holds]
Sign(lexeme) == [type |-> lexeme, holds |-> {}]

HasResponse == {v \in Views : v.s}
InUrl == {v \in Views : v.u}
InBody == {v \in Views : v.b}

\* The predicate of a code with the argument that readArg took: anything but
\* white space, "&", "|" or ")" is part of an expression no body matches.
AtomPredicate(arg) == IF arg = "word" THEN InBody ELSE {}

\* tokenize: a code that needs an argument has it from the next lexeme, unless
\* that is a sign which ends arguments; without one it holds of every flow.
\* `open` says that a code is waiting for its argument.
Argument(x) == x \notin {"&", "|", ")"}

Unargued(got) == IF got.open THEN Append(got.tokens, Atom(Views)) ELSE got.tokens

Token(got, x) ==
    IF got.open /\ Argument(x) THEN Atom(AtomPredicate(x))
    ELSE CASE x = "~s" -> Atom(HasResponse)
           [] x = "word" -> Atom(InUrl)
           [] OTHER -> Sign(x)

ReadLexeme(got, x) ==
    LET before == IF Argument(x) THEN got.tokens ELSE Unargued(got)
    IN  IF x = "~b" /\ ~got.open THEN [tokens |-> before, open |-> TRUE]
        ELSE [tokens |-> Append(before, Token(got, x)), open |-> FALSE]

Tokenize(input) ==
    LET read[n \in 0 .. Len(input)] ==
            IF n = 0 THEN [tokens |-> <<>>, open |-> FALSE]
            ELSE ReadLexeme(read[n - 1], input[n])
    IN  Unargued(read[Len(input)])

-----------------------------------------------------------------------------
(* The parser: or, and, unary, primary.  Each starts at a place of the     *)
(* tokens and gives the predicate it read and the place after it; `parse`  *)
(* has what those it calls give.  A loop is the operand before it and      *)
(* what the loop started after the sign gives: "&&" and "||" associate.    *)

Peek(tokens, i) == IF i > Len(tokens) THEN "end" ELSE tokens[i].type
Read(holds, next) == [holds |-> holds, next |-> next]

ParsePrimary(tokens, parse, i) ==
    LET inner == parse[<<"or", i + 1>>]
    IN  CASE Peek(tokens, i) = "end" -> Read(Views, i)
          [] Peek(tokens, i) = "(" ->
                Read(inner.holds,
                     IF Peek(tokens, inner.next) = ")" THEN inner.next + 1 ELSE inner.next)
          [] Peek(tokens, i) = "atom" -> Read(tokens[i].holds, i + 1)
          [] OTHER -> Read(Views, i + 1)    \* a stray combinator

\* Broken: "!" reaches over the conjunction to its right.
ParseUnaryLoosely(tokens, parse, i) ==
    LET inner == parse[<<"and", i + 1>>]
    IN  IF Peek(tokens, i) = "!" THEN Read(Views \ inner.holds, inner.next)
        ELSE ParsePrimary(tokens, parse, i)

ParseUnary(tokens, parse, i) ==
    LET inner == parse[<<"unary", i + 1>>]
    IN  IF Peek(tokens, i) = "!" THEN Read(Views \ inner.holds, inner.next)
        ELSE ParsePrimary(tokens, parse, i)

\* A conjunction is written or implied.
Joining == {"&", "atom", "!", "("}

ParseAnd(tokens, parse, i) ==
    LET left == parse[<<"unary", i>>]
        sign == Peek(tokens, left.next)
        right == parse[<<"and", IF sign = "&" THEN left.next + 1 ELSE left.next>>]
    IN  IF sign \in Joining THEN Read(left.holds \cap right.holds, right.next) ELSE left

ParseOr(tokens, parse, i) ==
    LET left == parse[<<"and", i>>]
        right == parse[<<"or", left.next + 1>>]
    IN  IF Peek(tokens, left.next) = "|" THEN Read(left.holds \cup right.holds, right.next)
        ELSE left

Parser(tokens) ==
    LET parse[x \in {"or", "and", "unary"} \X (1 .. Len(tokens) + 1)] ==
            CASE x[1] = "or" -> ParseOr(tokens, parse, x[2])
              [] x[1] = "and" -> ParseAnd(tokens, parse, x[2])
              [] x[1] = "unary" -> ParseUnary(tokens, parse, x[2])
    IN  parse

\* An empty expression holds of every flow.
CompileFilter(input) ==
    IF input = <<>> THEN Views ELSE Parser(Tokenize(input))[<<"or", 1>>].holds

-----------------------------------------------------------------------------
(* The grammar, to compare the parser with: what the tokens from place i   *)
(* to place j mean as a sum, a term or a factor; {} if they are none.      *)

Factor(t, means, i, j) ==
    CASE i > j -> {}
      [] i <= j /\ t[i].type = "atom" -> IF i = j THEN {t[i].holds} ELSE {}
      [] i <= j /\ t[i].type = "!" -> {Views \ m : m \in means[<<"factor", i + 1, j>>]}
      [] i <= j /\ t[i].type = "(" -> IF t[j].type = ")" THEN means[<<"sum", i + 1, j - 1>>] ELSE {}
      [] OTHER -> {}

\* Conjunctions of a term that ends before place k and the factor after it.
Term(t, means, i, j) ==
    means[<<"factor", i, j>>] \cup
    UNION {{m \cap n : m \in means[<<"term", i, k - 1>>],
                       n \in means[<<"factor", IF t[k].type = "&" THEN k + 1 ELSE k, j>>]} :
           k \in i + 1 .. j}

SumOf(t, means, i, j) ==
    means[<<"term", i, j>>] \cup
    UNION {{m \cup n : m \in means[<<"sum", i, k - 1>>], n \in means[<<"term", k + 1, j>>]} :
           k \in {k \in i .. j : t[k].type = "|"}}

Grammar(t) ==
    LET means[x \in {"sum", "term", "factor"} \X (1 .. Len(t) + 1) \X (0 .. Len(t))] ==
            CASE x[1] = "sum" -> SumOf(t, means, x[2], x[3])
              [] x[1] = "term" -> Term(t, means, x[2], x[3])
              [] x[1] = "factor" -> Factor(t, means, x[2], x[3])
    IN  means

Meanings(input) == LET t == Tokenize(input) IN Grammar(t)[<<"sum", 1, Len(t)>>]
=============================================================================
