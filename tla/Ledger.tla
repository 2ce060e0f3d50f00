------------------------------- MODULE Ledger -------------------------------
(***************************************************************************)
(* What the broker promises about money and holdings, seen from outside:   *)
(* a journal that only grows, in groups of entries that are posted at      *)
(* once, each with the trades they settle.                                 *)
(***************************************************************************)
EXTENDS Integers, Sequences, FiniteSetsExt

CONSTANTS Accounts, Owner, Instruments, Ppt

VARIABLES
  cash,      \* money of every account
  journal,   \* sequence of [acct, old, change, kind]
  holding,   \* holding[a, i]: quantity of instrument i held by account a
  deals      \* executed trades: a set of [id, acct, instr, dir, qty, price]

ledgerVars == <<cash, journal, holding, deals>>

Buys == {"buy", "longbuy"}
Sells == {"sell", "longsell"}

Signed(deal) == IF deal.dir \in Buys THEN deal.qty ELSE -deal.qty

SumOver(S, val(_)) == MapThenSumSet(val, S)

LInit ==
  /\ journal = <<>>
  /\ deals = {}
  /\ cash \in [Accounts -> Int]
  /\ holding \in [Accounts \X Instruments -> Nat]

(* g is a group of entries, each starting from the value the one before it *)
(* of the same account left, the first from the cash of the account.       *)
Chained(g) ==
  \A n \in DOMAIN g :
    g[n].old = cash[g[n].acct]
               + SumOver({m \in 1..(n - 1) : g[m].acct = g[n].acct},
                         LAMBDA m : g[m].change)

(* The entries of a trade: its movement and its fee on the account, and    *)
(* the same fee on the owner's.                                            *)
Settles(g, deal) ==
  \E n \in 1..(Len(g) - 2) :
    /\ g[n].acct = deal.acct /\ g[n].kind = deal.dir
    /\ g[n].change = -Signed(deal) * deal.price
    /\ g[n + 1].acct = deal.acct /\ g[n + 1].change = -Ppt[deal.instr]
    /\ g[n + 2].acct = Owner /\ g[n + 2].change = Ppt[deal.instr]

(* Post the entries g together with the deals new they settle: every entry *)
(* is either one of a deal's three or a deposit or a withdrawal.           *)
Post(g, new) ==
  /\ Chained(g)
  /\ \A deal \in new : Settles(g, deal)
  /\ Len(g) = 3 * Cardinality(new)
              + Cardinality({n \in DOMAIN g : g[n].kind \in {"deposit", "withdraw"}})
  /\ new \cap deals = {}
  /\ journal' = journal \o g
  /\ deals' = deals \cup new
  /\ cash' = [a \in Accounts |-> cash[a] + SumOver({n \in DOMAIN g : g[n].acct = a},
                                                   LAMBDA n : g[n].change)]
  /\ holding' = [k \in Accounts \X Instruments |->
                   holding[k] + SumOver({deal \in new : <<deal.acct, deal.instr>> = k},
                                        Signed)]

LNext ==
  /\ Len(journal') >= Len(journal)
  /\ Post(SubSeq(journal', Len(journal) + 1, Len(journal')), deals' \ deals)

LSpec == LInit /\ [][LNext]_ledgerVars

=============================================================================
