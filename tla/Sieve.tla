------------------------------- MODULE Sieve -------------------------------
(***************************************************************************)
(* What a loop with a filter leaves of a list: SelectSeq with membership   *)
(* in a set for its test, as a recursive function that proofs can unfold.  *)
(***************************************************************************)
EXTENDS Naturals, Sequences

Only(s, keep) ==
  LET kept[n \in 0 .. Len(s)] ==
        IF n = 0 THEN <<>> ELSE IF s[n] \in keep THEN Append(kept[n - 1], s[n]) ELSE kept[n - 1]
  IN kept[Len(s)]

=============================================================================
