--------------------------- MODULE MCPromptQueue ---------------------------
(* Instances of PromptQueue for TLC. *)
EXTENDS PromptQueue, FiniteSets, TLC

Symmetry == Permutations(Prompts)

Cancels == Cardinality({p \in Prompts : cancel[p] # "none"})

Queueing == {"decide", "enqueue", "insertRow", "nextSeq", "insertIndex", "undoRow", "undoMemory", "end"}
Loops == {p \in Prompts : run[p] \notin Queueing}

Orders == Cancels + (IF stop = "none" THEN 0 ELSE 1)
Unsent == Cardinality({p \in Prompts : run[p] = "decide"})

\* Constraint: at most two loops at a time; two failures, cancels and terminates
\* together, none of them once every prompt is sent; a cancel together with a
\* terminate while two prompts are still to be sent.
FewTroubles ==
    /\ Cardinality(Loops) <= 2
    /\ faults + Orders <= 2
    /\ Unsent = 0 => faults + Orders = 0
    /\ Orders = 2 => Unsent >= 2
=============================================================================
