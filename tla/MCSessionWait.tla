---------------------------- MODULE MCSessionWait ----------------------------
(* Instances of SessionWait for TLC. *)
EXTENDS SessionWait

CONSTANTS root, child
\* A session and its delegate.
Pair == {root, child}
ParentOfPair == [s \in Pair |-> IF s = child THEN root ELSE NoParent]
=============================================================================
