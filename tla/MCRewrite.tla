------------------------------- MODULE MCRewrite -------------------------------
(* Rewrite with every list of two rules, and with filter expressions of every *)
(* shape up to three operands.                                                *)
EXTENDS Rewrite, TLC

All == <<"~b">>
Patterns == {All, <<"~s">>, <<"~b", "word">>}
EveryRule == [pattern : Patterns, op : Ops]
Pairs == {<<r, s>> : r \in EveryRule, s \in EveryRule}
Single == {<<r>> : r \in EveryRule}

Atoms == {<<"~s">>, <<"word">>}
Operands == Atoms \cup {<<"!">> \o a : a \in Atoms}
Joins == {<<>>, <<"&">>, <<"|">>}
Short == UNION {[1 .. n -> Lexemes] : n \in 1 .. 3}
Long == {a \o i \o b \o j \o c : a \in Operands, i \in Joins, b \in Operands, j \in Joins, c \in Atoms}
Grouped == {a \o i \o <<"(">> \o b \o j \o c \o <<")">> :
                a \in Atoms, i \in Joins, b \in Atoms, j \in Joins, c \in Operands}
Negated == {<<"!", "(">> \o a \o i \o b \o <<")">> \o j \o c :
                a \in Atoms, i \in Joins, b \in Atoms, j \in Joins, c \in Atoms}
Shapes == Short \cup Long \cup Grouped \cup Negated

Options == [rules : Pairs, filter : {<<>>}]
           \cup [rules : Single, filter : {<<>>, All}]
           \cup [rules : {<<>>}, filter : Shapes]
=============================================================================
