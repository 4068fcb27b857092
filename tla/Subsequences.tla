----------------------------- MODULE Subsequences -----------------------------
(***************************************************************************)
(* Parts of a sequence, as a recursive function and as a function, so that *)
(* they can be proved about.                                               *)
(***************************************************************************)
EXTENDS Naturals, Sequences

\* The elements of s that are in T, in their order.
Only(s, T) ==
    LET only[n \in 0 .. Len(s)] ==
            IF n = 0 THEN <<>>
            ELSE IF s[n] \in T THEN Append(only[n - 1], s[n]) ELSE only[n - 1]
    IN  only[Len(s)]

\* The n places of a stream that come after the first `from`.
Places(from, n) == [i \in 1 .. n |-> from + i]

===============================================================================
