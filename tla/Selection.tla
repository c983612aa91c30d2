------------------------------ MODULE Selection ------------------------------
(***************************************************************************)
(* What a loop or a filter picks from a sequence, in its order.            *)
(***************************************************************************)
EXTENDS Naturals, Sequences

\* The elements of s that are wanted.
Picked(s, wanted) ==
  LET picked[i \in 0 .. Len(s)] ==
        IF i = 0 THEN <<>>
        ELSE IF s[i] \in wanted THEN Append(picked[i - 1], s[i]) ELSE picked[i - 1]
  IN  picked[Len(s)]
=============================================================================
