----------------------------- MODULE MCFrontend -----------------------------
(* Instances of FrontendSession for TLC. *)
EXTENDS FrontendSession

CONSTANTS alice, bob, nobody

\* Sessions: two users, one of whom may sign up, and two calls in flight.
MCUsers == {alice, bob}
MCRegistered == {alice}
MCSessionKeys == {"balance"}
MCSessionPages == {"login", "signup", "quickBuy"}
MCTwo == {1, 2}

\* Progress: one user, with one call in flight.
MCTrader == {alice}
MCTradeKeys == {"balance", "instruments"}
MCTradePages == {"login", "home", "quickBuy", "quickSell"}
MCReloaded == {"deposit"}
MCOne == {1}

MCNone == {}
=============================================================================
