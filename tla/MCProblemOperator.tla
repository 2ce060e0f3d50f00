------------------------- MODULE MCProblemOperator -------------------------
(* Instances of ProblemOperator for TLC. *)
EXTENDS ProblemOperator
=============================================================================
