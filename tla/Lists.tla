------------------------------- MODULE Lists --------------------------------
(***************************************************************************)
(* The arrays of the Staking extensions: one they filter, and one from      *)
(* which they remove an entry by moving the last one in its place.          *)
(***************************************************************************)
EXTENDS SequencesExt

\* The entries of s that are in S, in their order: SelectSeq for a set,
\* written as a recursive function so that SumTheorems can prove facts of it.
Filtered(s, S) ==
  LET r[k \in 0..Len(s)] ==
        IF k = 0 THEN <<>> ELSE IF s[k] \in S THEN Append(r[k - 1], s[k]) ELSE r[k - 1]
  IN r[Len(s)]

\* The first entry of x in s is overwritten by the last one, which goes.
SwapPop(s, x) ==
  Front([s EXCEPT ![SelectInSeq(s, LAMBDA y : y = x)] = Last(s)])
=============================================================================
