----------------------------- MODULE MCCardFlow -----------------------------
(***************************************************************************)
(* Instances of the credit card order flow for TLC.                        *)
(***************************************************************************)
EXTENDS CardFlow, TLC

CONSTANTS alice, bob, o1, o2, c1, c2, c3, h1, h2, h3, nobody

Symmetric == Permutations(OrderIds) \cup Permutations(Accounts)
             \cup Permutations(Clients) \cup Permutations(Handlers)

=============================================================================
