----------------------------- MODULE MCToolBatch -----------------------------
(* Instances of ToolBatch for TLC. *)
EXTENDS ToolBatch

\* Constraint: the second answer has a single tool call.
ShortSecond == turn = 2 => size[2] = 1
=============================================================================
