------------------------------ MODULE Filters ------------------------------
(***************************************************************************)
(* What is left of a sequence when some of its members are taken out, as a *)
(* recursive function: SelectSeq says the same, and the prover knows       *)
(* nothing about it.  DataLemmas has the facts.                            *)
(***************************************************************************)
EXTENDS Integers, Sequences

\* The members of s that are in S, in the order they have in s.
Keep(s, S) ==
  LET kept[i \in 0..Len(s)] ==
        IF i = 0 THEN <<>>
        ELSE IF s[i] \in S THEN Append(kept[i - 1], s[i]) ELSE kept[i - 1]
  IN  kept[Len(s)]
=============================================================================
