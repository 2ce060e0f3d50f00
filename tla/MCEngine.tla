------------------------------ MODULE MCEngine ------------------------------
(***************************************************************************)
(* Instances of the engine with the broker for TLC.  One run begins in     *)
(* several states, each of which leaves out what the others have: it keeps *)
(* the questions apart that do not meet, and the state space small.        *)
(***************************************************************************)
EXTENDS EngineBroker, TLC

CONSTANTS owner, alice, share, r1, b1, b2, c1, c2, c3, c4

MCPpt == share :> 1

MCOpeningBalance == [a \in Accounts |-> IF a = owner THEN 0 ELSE 4]

MCNothingOwned == <<>>

OpenTrade(dir) ==
  [acct |-> alice, instr |-> share, dir |-> dir, qty |-> 1, price |-> 1,
   closed |-> FALSE, happened |-> FALSE]

MCTwoTrades == <<OpenTrade("longbuy"), OpenTrade("longsell")>>

-----------------------------------------------------------------------------
\* Calls of start and stop, and requests, other than these are never made.
Made(some) ==
  /\ at = [c \in Calls |-> IF c \in some THEN "idle" ELSE "done"]
  /\ pc = [s \in Sessions |-> IF s \in Requests \ some THEN "done" ELSE "idle"]

\* The trades before these were closed, and made known, long ago.
OpenFrom(n) ==
  /\ trades = [t \in DOMAIN OpeningTrades |-> [OpeningTrades[t] EXCEPT !.closed = t < n]]
  /\ expired = 1..(n - 1) /\ announced = expired /\ told = expired

MCInit ==
  /\ balance = OpeningBalance /\ history = <<>> /\ owned = OpeningOwned
  /\ uow = [s \in Sessions |-> Blank] /\ todo = [b \in Batches |-> {}]
  /\ scheduled = Boot /\ live = {Boot}
  /\ seen = [c \in Calls |-> None] /\ awaited = None
  /\ faults = 0 /\ lost = {}
  /\ \/ Made(Calls) /\ OpenFrom(3)       \* every start and stop, nothing to close
     \/ Made({c1, c3}) /\ OpenFrom(2)    \* a start, a stop and a trade
     \/ Made(Requests) /\ OpenFrom(2)    \* a request and a trade
     \/ Made({}) /\ OpenFrom(1)          \* two trades: batches may deadlock
     \/ Made({}) /\ expired = {} /\ announced = {} /\ told = {}
        /\ trades = [OpeningTrades EXCEPT ![2].dir = "buy"]

MCSpec == MCInit /\ [][EngineBrokerNext]_allVars /\ Fairness

=============================================================================
