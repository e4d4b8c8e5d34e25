---------------------------- MODULE Subsequences ----------------------------
(* What a filter leaves of a sequence, in a form that proofs can use.        *)
EXTENDS Naturals, Sequences

\* The elements of s at the positions in keep, in order.
Kept(s, keep) ==
  LET upTo[n \in 0..Len(s)] ==
        IF n = 0 THEN <<>> ELSE IF n \in keep THEN Append(upTo[n - 1], s[n]) ELSE upTo[n - 1]
  IN upTo[Len(s)]
=============================================================================
