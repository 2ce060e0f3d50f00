------------------------------ MODULE MCBroker ------------------------------
(***************************************************************************)
(* Instances of the broker for TLC: the owner and one or two customers,    *)
(* one instrument with a fee of 1.                                         *)
(***************************************************************************)
EXTENDS BrokerLedger, TLC

CONSTANTS owner, alice, bob, share, r1, r2, r3, b1, b2

RequestSymmetry == Permutations(Requests)

BatchSymmetry == Permutations(Batches)

MCPpt == share :> 1

MCOpeningBalance == [a \in Accounts |-> IF a = owner THEN 0 ELSE 4]

MCSmallBalance == [a \in Accounts |-> IF a = owner THEN 0 ELSE 2]

MCNothingOwned == <<>>

MCOneOwned == <<[acct |-> alice, instr |-> share, qty |-> 1]>>

LongTrade(a, dir, q, p) ==
  [acct |-> a, instr |-> share, dir |-> dir, qty |-> q, price |-> p,
   closed |-> FALSE, happened |-> FALSE]

MCNoTrades == <<>>

MCBuyAndSell == <<LongTrade(alice, "longbuy", 1, 1), LongTrade(alice, "longsell", 1, 1)>>

MCOneBuy == <<LongTrade(alice, "longbuy", 1, 1)>>

=============================================================================
