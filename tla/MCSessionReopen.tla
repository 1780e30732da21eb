-------------------------- MODULE MCSessionReopen --------------------------
(* Instances of SessionReopen for TLC. *)
EXTENDS SessionReopen, FiniteSets, TLC

Troubles == crashes + opens + pauses + batches

Loops == {f \in Futures : run[f] \in {"claim", "takeIndex", "merge", "push", "emit", "answer", "storeTools",
                                      "busy", "tools", "final", "idle", "fail"}}

\* Constraint: two loops at a time, and at most two things that go wrong, one once
\* the third prompt is sent; the workflow is resumed after a pause or a crash, as
\* the interface offers it.  What follows a second load of the cache, which every
\* invariant excuses, is left out.
FewTroubles ==
    /\ Cardinality(Loops) <= 2
    /\ Troubles <= IF \A p \in Prompts : run[p] # "ready" THEN 1 ELSE 2
    /\ crashes + pauses = 0 => \A r \in Resumers : run[r] = "ready"
    /\ ~raced

\* The session is busy when it is opened.
OpenedBusy == open # "none" => mood = "Busy"

Symmetry == Permutations(Prompts) \cup Permutations(Resumers)
=============================================================================
