---------------------------- MODULE BrokerLedger ----------------------------
(***************************************************************************)
(* The tables of the broker seen as the abstract ledger.  Run one at a     *)
(* time, the sessions of Broker implement Ledger; interleaved they do not. *)
(***************************************************************************)
EXTENDS Broker, FiniteSetsExt

HoldingOf(a, i) ==
  MapThenSumSet(LAMBDA j : owned[j].qty,
                {j \in DOMAIN owned : owned[j].acct = a /\ owned[j].instr = i})

DealsOf ==
  {[id |-> t, acct |-> trades[t].acct, instr |-> trades[t].instr, dir |-> trades[t].dir,
    qty |-> trades[t].qty, price |-> trades[t].price] : t \in Executed}

Abstract == INSTANCE Ledger WITH
  cash <- balance,
  journal <- history,
  holding <- [k \in Accounts \X Instruments |-> HoldingOf(k[1], k[2])],
  deals <- DealsOf

(* Every commit of the broker posts a well formed group to the ledger: the *)
(* entries chain, each trade pays its price, its fee reaches the owner,    *)
(* and the holding changes by the quantity traded.                         *)
ImplementsLedger == Abstract!LSpec

(* The owner has received the fee of every trade that was executed, when   *)
(* its account is used for nothing else.                                   *)
OwnerReceivesFees ==
  balance[Owner] = OpeningBalance[Owner]
                   + MapThenSumSet(LAMBDA t : Ppt[trades[t].instr], Executed)

=============================================================================
