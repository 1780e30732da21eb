------------------------------- MODULE Queues -------------------------------
(***************************************************************************)
(* The filter that Vec::retain and Iterator::filter are to the queues of    *)
(* prompts.  The standard SelectSeq says the same, but has no definition    *)
(* the proof system could open; this one is a recursive function, for which *)
(* QueueLemmas proves what it returns.                                      *)
(***************************************************************************)
EXTENDS Naturals, Sequences

\* The elements of sequence s that are in the set S, in their order.
Kept(s, S) ==
    LET upTo[n \in 0..Len(s)] ==
            IF n = 0 THEN <<>>
            ELSE IF s[n] \in S THEN Append(upTo[n - 1], s[n]) ELSE upTo[n - 1]
    IN  upTo[Len(s)]
=============================================================================
