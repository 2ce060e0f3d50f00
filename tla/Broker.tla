------------------------------- MODULE Broker -------------------------------
(***************************************************************************)
(* The broker service: deposits, withdrawals, quick trades, long running   *)
(* trades and the periodic batch that finalises them, all reading and      *)
(* writing the tables Balance, Balancehistory, Ownedinstruments and Trades.*)
(*                                                                         *)
(* A session is one HTTP request (Requests) or one call of                 *)
(* ProcessLongRunningTransactions (Batches).  Each owns an EF Core         *)
(* DbContext: the rows it has read stay tracked, later queries return the  *)
(* tracked and possibly stale value, and a save writes whole rows, with no *)
(* concurrency token.  uow[s] is that unit of work.  The database is       *)
(* InnoDB at REPEATABLE READ: plain reads see a snapshot and take no lock, *)
(* written rows stay locked until the transaction ends.                    *)
(***************************************************************************)
EXTENDS Integers, Sequences, FiniteSets

CONSTANTS
  Accounts,        \* account ids with a Balance row
  Owner,           \* Constants.OwnerId, the account that collects the fees
  Instruments,     \* instrument ids
  Requests,        \* HTTP requests; each is one call of one operation
  Batches,         \* calls of the long-trade batch that may overlap
  Ppt,             \* Ppt[i]: the fee of the product of instrument i
  Amounts,         \* sums deposited or withdrawn
  Quantities,      \* quantities bought or sold
  Prices,          \* prices quoted, or asked for in a long trade
  OpeningBalance,  \* Balance table at the start
  OpeningOwned,    \* Ownedinstruments table at the start
  OpeningTrades,   \* Trades table at the start
  Serial           \* TRUE: sessions run one at a time, FALSE: they interleave

Sessions == Requests \cup Batches

Directions == {"buy", "sell", "longbuy", "longsell"}

Trade == [acct : Accounts, instr : Instruments, dir : Directions, qty : Nat,
          price : Nat, closed : BOOLEAN, happened : BOOLEAN]

OwnedRow == [acct : Accounts, instr : Instruments, qty : Int]

ASSUME BrokerAssumption ==
  /\ Owner \in Accounts
  /\ Requests \cap Batches = {}
  /\ Ppt \in [Instruments -> Nat]
  /\ Amounts \subseteq Nat /\ Quantities \subseteq Nat /\ Prices \subseteq Nat
  /\ OpeningBalance \in [Accounts -> Int]
  /\ OpeningOwned \in Seq([acct : Accounts, instr : Instruments, qty : Nat])
  /\ OpeningTrades \in Seq(Trade)
  /\ Serial \in BOOLEAN

VARIABLES
  balance,   \* Balance: value of every account
  history,   \* Balancehistory, in commit order
  owned,     \* Ownedinstruments: one record per row; the index is the row
  trades,    \* Trades; the index is the trade id
  expired,   \* ids of the trades whose TimestampClose has passed
  pc,        \* where each session is
  uow,       \* unit of work of each session: tracked and changed entities
  todo,      \* trades a batch has loaded as open and not yet processed
  announced  \* trades for which the task that posts their closing has been started

db == <<balance, history, owned, trades>>
vars == <<balance, history, owned, trades, expired, pc, uow, todo, announced>>

-----------------------------------------------------------------------------
(* Entities and the change tracker.  A definition marked as a mutant is    *)
(* the next one with a bug in it; nothing else uses it.                    *)

\* Mutant of Entry: OldValue is read after the balance has been changed.
EntryAfterUpdate(a, old, change, kind) ==
  [acct |-> a, old |-> old + change, change |-> change, kind |-> kind]

Entry(a, old, change, kind) ==
  [acct |-> a, old |-> old, change |-> change, kind |-> kind]

Cost(d) == d.qty * d.price

RowsOf(table, d) ==
  {j \in DOMAIN table : table[j].acct = d.acct /\ table[j].instr = d.instr}

(* bal, own: tracked values; touched, rows: the ones Update() marked as    *)
(* modified; own beyond base: rows added; entries, trade: rows added;      *)
(* executed, failed: trades closed, with or without a transaction.         *)
Blank ==
  [bal |-> [a \in Accounts |-> 0], touched |-> {}, entries |-> <<>>,
   own |-> <<>>, base |-> 0, rows |-> {}, trade |-> <<>>,
   executed |-> {}, failed |-> {}]

\* Mutant of Income: only a quick sale is taken for a sale.
IncomeOfQuickSales(d) == IF d.dir = "sell" THEN Cost(d) ELSE -Cost(d)

Income(d) == IF d.dir \in {"sell", "longsell"} THEN Cost(d) ELSE -Cost(d)

\* UpdateBalance and CollectFee for trade d: three history rows, two balances.
UpdateBalance(u, d) ==
  LET income   == Income(d)
      fee      == Ppt[d.instr]
      traded   == [u.bal EXCEPT ![d.acct] = @ + income]
      charged  == [traded EXCEPT ![d.acct] = @ - fee]
      credited == [charged EXCEPT ![Owner] = @ + fee]
  IN  [u EXCEPT
        !.bal = credited,
        !.touched = @ \cup {d.acct, Owner},
        !.entries = @ \o
          <<Entry(d.acct, u.bal[d.acct], income, d.dir),
            Entry(d.acct, traded[d.acct], -fee, "transactionfee"),
            Entry(Owner, charged[Owner], fee, "collectfee")>>]

OwnedInstrument(a, i, q) == [acct |-> a, instr |-> i, qty |-> q]

ChangeOwned(u, j, amount) ==
  [u EXCEPT !.own = [u.own EXCEPT ![j] = OwnedInstrument(u.own[j].acct, u.own[j].instr,
                                                         u.own[j].qty + amount)],
            !.rows = IF j <= u.base THEN u.rows \cup {j} ELSE u.rows]

AddOwned(u, d) ==
  [u EXCEPT !.own = Append(@, OwnedInstrument(d.acct, d.instr, d.qty))]

\* Mutant of Acquire: a row is added for every purchase.
AcquireAnew(u, d) == {AddOwned(u, d)}

\* UpdateOwnedInstrument(account, instrument, amount): create or update.  The
\* query has no ORDER BY, so any row of the pair may be the one updated.
Acquire(u, d) ==
  IF RowsOf(u.own, d) = {}
    THEN {AddOwned(u, d)}
    ELSE {ChangeOwned(u, j, d.qty) : j \in RowsOf(u.own, d)}

\* Mutant of CloseTrade: TransactionHappened is always set.
CloseTradeHappened(u, t, happened) == [u EXCEPT !.executed = @ \cup {t}]

\* CloseTrade: the flags of trade t, written at the next save.  OnTradeClosed
\* only starts a task nobody awaits: its POST arrives later, fails, or is lost
\* when the process stops (Notify and PostLost of EngineBroker).
CloseTrade(u, t, happened) ==
  IF happened THEN [u EXCEPT !.executed = @ \cup {t}]
              ELSE [u EXCEPT !.failed = @ \cup {t}]

-----------------------------------------------------------------------------
(* The database                                                            *)

Flushed(s) == pc[s] = "running"

\* The rows u writes are not locked by another session's open transaction.
RowsFree(s, u) ==
  \A t \in Sessions \ {s} : Flushed(t) =>
    /\ u.touched \cap uow[t].touched = {}
    /\ u.rows \cap uow[t].rows = {}
    /\ (u.executed \cup u.failed) \cap (uow[t].executed \cup uow[t].failed) = {}

\* Mutant of Commit: trades to be closed are deleted instead of flagged.
CommitDeleting(u) ==
  /\ balance' = [a \in Accounts |-> IF a \in u.touched THEN u.bal[a] ELSE balance[a]]
  /\ history' = history \o u.entries
  /\ owned' = [j \in DOMAIN owned |-> IF j \in u.rows THEN u.own[j] ELSE owned[j]]
              \o SubSeq(u.own, u.base + 1, Len(u.own))
  /\ trades' = SubSeq(trades, 1, Len(trades) - Cardinality(u.executed \cup u.failed)) \o u.trade

\* SaveChanges and CommitTransaction: every changed row is written whole.
Commit(u) ==
  /\ balance' = [a \in Accounts |-> IF a \in u.touched THEN u.bal[a] ELSE balance[a]]
  /\ history' = history \o u.entries
  /\ owned' = [j \in DOMAIN owned |-> IF j \in u.rows THEN u.own[j] ELSE owned[j]]
              \o SubSeq(u.own, u.base + 1, Len(u.own))
  /\ trades' = [t \in DOMAIN trades |->
                  IF t \in u.executed \cup u.failed
                    THEN [trades[t] EXCEPT !.closed = TRUE, !.happened = t \in u.executed]
                    ELSE trades[t]] \o u.trade

-----------------------------------------------------------------------------
Init ==
  /\ balance = OpeningBalance
  /\ history = <<>>
  /\ owned = OpeningOwned
  /\ trades = OpeningTrades
  /\ expired = {}
  /\ pc = [s \in Sessions |-> "idle"]
  /\ uow = [s \in Sessions |-> Blank]
  /\ todo = [b \in Batches |-> {}]
  /\ announced = {}

\* A session starts; under Serial only when no other one is in progress.
Begin(s) ==
  /\ pc[s] = "idle"
  /\ Serial => \A t \in Sessions : pc[t] \in {"idle", "done"}

Goto(s, label, u) ==
  /\ pc' = [pc EXCEPT ![s] = label]
  /\ uow' = [uow EXCEPT ![s] = u]

\* The clock passes the TimestampClose of an open trade.
Expire(t) ==
  /\ t \notin expired /\ ~trades[t].closed
  /\ expired' = expired \cup {t}
  /\ UNCHANGED <<balance, history, owned, trades, pc, uow, todo, announced>>

-----------------------------------------------------------------------------
(* Deposits and withdrawals: the balance is read before the transaction.   *)
(* A refused request (NotEnoughMoney, negative amount, unknown account)    *)
(* changes nothing and is not a step.                                      *)

ModifyBalance(r, a, difference, kind) ==
  /\ Begin(r)
  /\ Goto(r, "ready",
          [Blank EXCEPT !.bal[a] = balance[a] + difference,
                        !.touched = {a},
                        !.entries = <<Entry(a, balance[a], difference, kind)>>])
  /\ UNCHANGED <<balance, history, owned, trades, expired, todo, announced>>

Deposit(r, a, m) == ModifyBalance(r, a, m, "deposit")

Withdraw(r, a, m) ==
  /\ m <= balance[a]
  /\ ModifyBalance(r, a, -m, "withdraw")

-----------------------------------------------------------------------------
(* Quick trades.                                                           *)

QuickTrade(a, i, dir, q, p) ==
  [acct |-> a, instr |-> i, dir |-> dir, qty |-> q, price |-> p,
   closed |-> TRUE, happened |-> TRUE]

Track(a) == [x \in Accounts |-> IF x = a THEN balance[a] ELSE 0]

\* BuyAssets up to BeginTransaction: read the balance, ask for the price,
\* refuse the trade if it costs more than the balance read.
BuyCheck(r, a, i, q, p) ==
  LET d == QuickTrade(a, i, "buy", q, p)
  IN  /\ Begin(r)
      /\ Cost(d) + Ppt[i] <= balance[a]
      /\ Goto(r, "checked", [Blank EXCEPT !.bal = Track(a), !.trade = <<d>>])
      /\ UNCHANGED <<balance, history, owned, trades, expired, todo, announced>>

\* SellAssets: the balance is read first ...
SellReadBalance(r, a, i, q, p) ==
  /\ Begin(r)
  /\ Goto(r, "selling", [Blank EXCEPT !.bal = Track(a),
                                      !.trade = <<QuickTrade(a, i, "sell", q, p)>>])
  /\ UNCHANGED <<balance, history, owned, trades, expired, todo, announced>>

\* Mutant of SellCheck: any row of the pair will do, whatever it holds.
SellAnything(r) ==
  LET u == uow[r]
      d == u.trade[1]
  IN  /\ pc[r] = "selling"
      /\ \E j \in RowsOf(owned, d) :
           Goto(r, "checked",
                ChangeOwned([u EXCEPT !.own = owned, !.base = Len(owned)], j, -d.qty))
      /\ UNCHANGED <<balance, history, owned, trades, expired, todo, announced>>

\* ... then the owned instrument, which must cover the amount sold.
SellCheck(r) ==
  LET u == uow[r]
      d == u.trade[1]
  IN  /\ pc[r] = "selling"
      /\ \E j \in RowsOf(owned, d) :
           /\ owned[j].qty >= d.qty
           /\ Goto(r, "checked",
                   ChangeOwned([u EXCEPT !.own = owned, !.base = Len(owned)], j, -d.qty))
      /\ UNCHANGED <<balance, history, owned, trades, expired, todo, announced>>

\* Mutant of SellRefuse: a missing row is not handled.
SellRefuseShort(r) ==
  LET d == uow[r].trade[1]
  IN  /\ pc[r] = "selling"
      /\ \E j \in RowsOf(owned, d) : owned[j].qty < d.qty
      /\ Goto(r, "done", Blank)
      /\ UNCHANGED <<balance, history, owned, trades, expired, todo, announced>>

\* NotEnoughAssetsException: no row, or the row found does not cover it.
SellRefuse(r) ==
  LET d == uow[r].trade[1]
  IN  /\ pc[r] = "selling"
      /\ RowsOf(owned, d) = {} \/ \E j \in RowsOf(owned, d) : owned[j].qty < d.qty
      /\ Goto(r, "done", Blank)
      /\ UNCHANGED <<balance, history, owned, trades, expired, todo, announced>>

\* Inside the transaction: CollectFee reads the owner's balance, unless the
\* account is the owner's and already tracked; a buy reads the owned row now.
Compute(r) ==
  LET u == uow[r]
      d == u.trade[1]
      v == [u EXCEPT !.bal[Owner] = IF d.acct = Owner THEN @ ELSE balance[Owner]]
  IN  /\ pc[r] = "checked"
      /\ IF d.dir = "sell"
           THEN Goto(r, "ready", UpdateBalance(v, d))
           ELSE \E w \in Acquire([v EXCEPT !.own = owned, !.base = Len(owned)], d) :
                  Goto(r, "ready", UpdateBalance(w, d))
      /\ UNCHANGED <<balance, history, owned, trades, expired, todo, announced>>

\* SaveChangesOrRollback (and the same lines of ModifyBalance).
Save(r) ==
  /\ pc[r] = "ready"
  /\ RowsFree(r, uow[r])
  /\ Commit(uow[r])
  /\ Goto(r, "done", Blank)
  /\ UNCHANGED <<expired, todo, announced>>

\* The request ends without a commit: a read or an HTTP call throws, the save
\* fails and is rolled back, or the process stops.
Fail(r) ==
  /\ pc[r] \in {"selling", "checked", "ready"}
  /\ Goto(r, "done", Blank)
  /\ UNCHANGED <<balance, history, owned, trades, expired, todo, announced>>

\* CreateLongTransaction: one insert, no row of another table is changed.
CreateLong(r, a, i, dir, q, p) ==
  /\ Begin(r)
  /\ Commit([Blank EXCEPT !.trade =
       <<[acct |-> a, instr |-> i, dir |-> dir, qty |-> q, price |-> p,
          closed |-> FALSE, happened |-> FALSE]>>])
  /\ Goto(r, "done", Blank)
  /\ UNCHANGED <<expired, todo, announced>>

-----------------------------------------------------------------------------
(* The batch: ProcessLongRunningTransactions.                              *)

\* Mutant of Open: the query filters on TransactionHappened.
NotHappened == {t \in DOMAIN trades : ~trades[t].happened}

Open == {t \in DOMAIN trades : ~trades[t].closed}

\* Mutant of BatchBegin: overdue trades are skipped but not closed.
BatchBeginSkipping(b) ==
  /\ Begin(b)
  /\ Goto(b, "overdue", [Blank EXCEPT !.bal = balance, !.own = owned, !.base = Len(owned)])
  /\ todo' = [todo EXCEPT ![b] = Open \ expired]
  /\ UNCHANGED <<balance, history, owned, trades, expired, announced>>

\* Mutant of BatchBegin: overdue trades are closed, and no task is started.
BatchBeginSilent(b) ==
  /\ Begin(b)
  /\ Goto(b, "overdue",
          [Blank EXCEPT !.bal = balance, !.own = owned, !.base = Len(owned),
                        !.failed = Open \cap expired])
  /\ todo' = [todo EXCEPT ![b] = Open \ expired]
  /\ UNCHANGED <<balance, history, owned, trades, expired, announced>>

\* BeginTransaction and the query of CloseOverdueTrades, which fixes the
\* snapshot; each overdue trade is closed in memory and its task started.
BatchBegin(b) ==
  /\ Begin(b)
  /\ Goto(b, "overdue",
          [Blank EXCEPT !.bal = balance, !.own = owned, !.base = Len(owned),
                        !.failed = Open \cap expired])
  /\ todo' = [todo EXCEPT ![b] = Open \ expired]
  /\ announced' = announced \cup (Open \cap expired)
  /\ UNCHANGED <<balance, history, owned, trades, expired>>

\* The first SaveChanges: the overdue trades are written and stay locked.
BatchSaveOverdue(b) ==
  /\ pc[b] = "overdue"
  /\ RowsFree(b, uow[b])
  /\ Goto(b, "running", uow[b])
  /\ UNCHANGED <<balance, history, owned, trades, expired, todo, announced>>

\* Trade t has been handled; its changes are flushed and stay locked.
Handled(b, t, v) ==
  /\ RowsFree(b, v)
  /\ Goto(b, "running", v)
  /\ todo' = [todo EXCEPT ![b] = @ \ {t}]
  /\ announced' = announced \cup v.executed \cup v.failed
  /\ UNCHANGED <<balance, history, owned, trades, expired>>

\* Mutant of LongBuy: the fee is left out of the check of the balance.
LongBuyIgnoringFee(b, t, low) ==
  LET u == uow[b]
      d == trades[t]
  IN  /\ pc[b] = "running" /\ d.dir = "longbuy"
      /\ IF d.price < low THEN Handled(b, t, u)
         ELSE IF Cost(d) > u.bal[d.acct]
           THEN Handled(b, t, CloseTrade(u, t, FALSE))
           ELSE \E v \in Acquire(UpdateBalance(u, d), d) :
                  Handled(b, t, CloseTrade(v, t, TRUE))

\* ProcessLongBuy with the lowest latest price low.
LongBuy(b, t, low) ==
  LET u == uow[b]
      d == trades[t]
  IN  /\ pc[b] = "running" /\ d.dir = "longbuy"
      /\ IF d.price < low THEN Handled(b, t, u)
         ELSE IF Cost(d) + Ppt[d.instr] > u.bal[d.acct]
           THEN Handled(b, t, CloseTrade(u, t, FALSE))
           ELSE \E v \in Acquire(UpdateBalance(u, d), d) :
                  Handled(b, t, CloseTrade(v, t, TRUE))

\* ProcessLongSell with the highest latest price high.
LongSell(b, t, high) ==
  LET u    == uow[b]
      d    == trades[t]
      rows == RowsOf(u.own, d)
  IN  /\ pc[b] = "running" /\ d.dir = "longsell"
      /\ IF d.price > high THEN Handled(b, t, u)
         ELSE \/ /\ rows = {} \/ \E j \in rows : u.own[j].qty < d.qty
                 /\ Handled(b, t, CloseTrade(u, t, FALSE))
              \/ \E j \in rows :
                   /\ u.own[j].qty >= d.qty
                   /\ Handled(b, t, CloseTrade(ChangeOwned(UpdateBalance(u, d), j, -d.qty),
                                               t, TRUE))

\* An open trade that is not a long one, which the table admits though nobody
\* leaves one open, is closed as failed.
NotLong(b, t) ==
  /\ pc[b] = "running" /\ trades[t].dir \notin {"longbuy", "longsell"}
  /\ Handled(b, t, CloseTrade(uow[b], t, FALSE))

\* SaveChangesOrRollback at the end of the batch.
BatchCommit(b) ==
  /\ pc[b] = "running" /\ todo[b] = {}
  /\ Commit(uow[b])
  /\ Goto(b, "idle", Blank)
  /\ UNCHANGED <<expired, todo, announced>>

\* The batch is aborted and rolled back: a price is missing, a query or a
\* save fails (also as the victim of a deadlock), or the process stops.  The
\* task of the trade it was closing may have been started already.
BatchFail(b) ==
  /\ pc[b] \in {"overdue", "running"}
  /\ Goto(b, "idle", Blank)
  /\ todo' = [todo EXCEPT ![b] = {}]
  /\ \/ UNCHANGED announced
     \/ pc[b] = "running" /\ \E t \in todo[b] : announced' = announced \cup {t}
  /\ UNCHANGED <<balance, history, owned, trades, expired>>

-----------------------------------------------------------------------------
QuickStart(r) ==
  \E a \in Accounts, i \in Instruments, q \in Quantities, p \in Prices :
    BuyCheck(r, a, i, q, p) \/ SellReadBalance(r, a, i, q, p)

MoneyStart(r) ==
  \E a \in Accounts, m \in Amounts : Deposit(r, a, m) \/ Withdraw(r, a, m)

LongStart(r) ==
  \E a \in Accounts, i \in Instruments, dir \in {"longbuy", "longsell"},
     q \in Quantities, p \in Prices : CreateLong(r, a, i, dir, q, p)

Finish(r) == SellCheck(r) \/ SellRefuse(r) \/ Compute(r) \/ Save(r)

BatchStep(b) ==
  \/ BatchSaveOverdue(b)
  \/ \E t \in todo[b] :
       NotLong(b, t) \/ \E p \in Prices : LongBuy(b, t, p) \/ LongSell(b, t, p)
  \/ BatchCommit(b)

Reliable ==
  \/ \E r \in Requests : QuickStart(r) \/ MoneyStart(r) \/ LongStart(r) \/ Finish(r)
  \/ \E b \in Batches : BatchBegin(b) \/ BatchStep(b)
  \/ \E t \in DOMAIN trades : Expire(t)

Failure ==
  \/ \E r \in Requests : Fail(r)
  \/ \E b \in Batches : BatchFail(b)

Next == Reliable \/ Failure

Spec == Init /\ [][Next]_vars

-----------------------------------------------------------------------------
(* Properties                                                              *)

Kinds == Directions \cup {"deposit", "withdraw", "transactionfee", "collectfee"}

UnitsOfWork ==
  [bal : [Accounts -> Int], touched : SUBSET Accounts,
   entries : Seq([acct : Accounts, old : Int, change : Int, kind : Kinds]),
   own : Seq(OwnedRow), base : Nat, rows : SUBSET Nat, trade : Seq(Trade),
   executed : SUBSET Nat, failed : SUBSET Nat]

(* Every variable has its type; the one type invariant of this module.     *)
TypeOK ==
  /\ balance \in [Accounts -> Int]
  /\ history \in Seq([acct : Accounts, old : Int, change : Int, kind : Kinds])
  /\ owned \in Seq(OwnedRow)
  /\ trades \in Seq(Trade)
  /\ expired \subseteq DOMAIN trades
  /\ pc \in [Sessions -> {"idle", "selling", "checked", "ready", "done",
                          "overdue", "running"}]
  /\ uow \in [Sessions -> UnitsOfWork]
  /\ todo \in [Batches -> SUBSET DOMAIN trades]
  /\ announced \subseteq Nat

(* The balance of an account is what its newest history row says it is     *)
(* (OldValue + ValueChange), however the sessions interleave: a save       *)
(* writes the balance and the rows that explain it from the same reads.    *)
LastEntryMatchesBalance ==
  \A n \in DOMAIN history :
    (\A m \in DOMAIN history : m > n => history[m].acct # history[n].acct)
      => balance[history[n].acct] = history[n].old + history[n].change

(* No account ever holds a negative quantity of an instrument: a sale      *)
(* checked against a stale row also writes a quantity computed from it.    *)
NoNegativeHolding == \A j \in DOMAIN owned : owned[j].qty >= 0

(* The inductive invariant behind the three above.                         *)

\* u changes rows it has read, and computes no negative quantity.
HoldingsSound(u) ==
  /\ u.base <= Len(u.own)
  /\ u.rows \subseteq 1..u.base
  /\ \A j \in DOMAIN u.own : u.own[j].qty >= 0

\* u explains each balance it writes, and only those, by history rows that
\* end in the value written.
EntriesSound(u) ==
  /\ \A n \in DOMAIN u.entries : u.entries[n].acct \in u.touched
  /\ \A a \in u.touched : \E n \in DOMAIN u.entries : u.entries[n].acct = a
  /\ \A n \in DOMAIN u.entries :
       (\A m \in DOMAIN u.entries : m > n => u.entries[m].acct # u.entries[n].acct)
         => u.bal[u.entries[n].acct] = u.entries[n].old + u.entries[n].change

(* Every unit of work is ready to be committed at any moment, and a quick  *)
(* trade that is still being checked has prepared nothing yet.             *)
UnitsSound ==
  \A s \in Sessions :
    /\ HoldingsSound(uow[s]) /\ EntriesSound(uow[s])
    /\ uow[s].base <= Len(owned)
    /\ pc[s] \in {"selling", "checked"} =>
         Len(uow[s].trade) = 1 /\ uow[s].entries = <<>> /\ uow[s].touched = {}

(* A closed trade is never reopened, and whether its transaction happened  *)
(* is never rewritten by a later batch.                                    *)
ClosedForGood ==
  [][\A t \in DOMAIN trades : trades[t].closed => trades'[t] = trades[t]]_vars

Executed == {t \in DOMAIN trades : trades[t].happened /\ ~(t \in DOMAIN OpeningTrades
                                                     /\ OpeningTrades[t].happened)}

OfKind(kinds) == {n \in DOMAIN history : history[n].kind \in kinds}

(* Every executed trade, and no other, left its three history rows: the    *)
(* movement, the fee charged and the fee collected.                        *)
ThreeEntriesPerTrade ==
  /\ Cardinality(OfKind({"buy", "sell", "longbuy", "longsell"})) = Cardinality(Executed)
  /\ Cardinality(OfKind({"transactionfee"})) = Cardinality(Executed)
  /\ Cardinality(OfKind({"collectfee"})) = Cardinality(Executed)

(* When sessions run one at a time the history of an account is a chain:   *)
(* each row starts from the value the previous one left.                   *)
ChainUnbroken ==
  \A n \in DOMAIN history :
    LET before == {m \in 1..(n - 1) : history[m].acct = history[n].acct}
    IN  IF before = {} THEN history[n].old = OpeningBalance[history[n].acct]
        ELSE \E m \in before : /\ \A k \in before : k <= m
                               /\ history[n].old = history[m].old + history[m].change

(* Only a sale, whose income may be smaller than its fee, can take money   *)
(* that is not there: no buy, long buy or withdrawal pushes a balance      *)
(* below zero, also when one batch settles several trades of an account.   *)
OnlySalesOverdraw ==
  [][\A a \in Accounts :
       balance'[a] < balance[a] /\ balance'[a] < 0 =>
         \E n \in (Len(history) + 1)..Len(history') :
           history'[n].acct = a /\ history'[n].kind \in {"sell", "longsell"}]_vars

(* An account has at most one Ownedinstruments row per instrument, which   *)
(* GetInstruments relies on when it builds a dictionary of them.           *)
OneRowPerHolding ==
  \A j, k \in DOMAIN owned :
    owned[j].acct = owned[k].acct /\ owned[j].instr = owned[k].instr => j = k

(* No long trade is closed in the table before the task that tells the     *)
(* engine has been started, also when its batch was rolled back first and  *)
(* another closed it.  That is all the broker guarantees: whether the POST *)
(* arrives is the matter of ClosedIsTold, and a task that has been started *)
(* does not mean that the trade is closed, as its batch may yet fail.      *)
ClosedIsAnnounced ==
  \A t \in DOMAIN trades :
    /\ trades[t].dir \in {"longbuy", "longsell"} /\ trades[t].closed
    /\ t \in DOMAIN OpeningTrades => ~OpeningTrades[t].closed
    => t \in announced

=============================================================================
