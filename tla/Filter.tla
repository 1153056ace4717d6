------------------------------- MODULE Filter -------------------------------
(***************************************************************************)
(* What erase(remove_if(...)) leaves of a list.  It is SelectSeq for a set,*)
(* written as a recursive function: the prover takes SelectSeq as it is.   *)
(***************************************************************************)
EXTENDS Naturals, Sequences

\* The members of s that are in S, in their order.
Only(s, S) ==
    LET kept[i \in 0..Len(s)] ==
            IF i = 0 THEN <<>>
            ELSE IF s[i] \in S THEN Append(kept[i - 1], s[i]) ELSE kept[i - 1]
    IN  kept[Len(s)]
=============================================================================
