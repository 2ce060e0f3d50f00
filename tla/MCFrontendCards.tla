-------------------------- MODULE MCFrontendCards --------------------------
(* Instances of FrontendCards for TLC. *)
EXTENDS FrontendCards, TLC

CONSTANTS first, second

Symmetric == Permutations(Slots)

\* Bound: calls in flight at once, once a fault has occurred.
CallsAfterFault == 1

FewCalls ==
  faults > 0 => Cardinality({s \in Slots : calls[s] # Idle}) <= CallsAfterFault
=============================================================================
