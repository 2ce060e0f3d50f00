------------------------- MODULE BrokerSerial_proofs -------------------------
(***************************************************************************)
(* Theorems about the broker that need some of its sessions to run one at  *)
(* a time: with all of them serial, what a session has read is still so    *)
(* when it commits; with one batch at a time, what a batch is about to     *)
(* close is still open when it commits, however requests interleave.       *)
(***************************************************************************)
EXTENDS Broker_proofs, FiniteSetTheorems

-----------------------------------------------------------------------------
(* Histories                                                               *)

\* Row n of h is the first of its account, or starts where the one before ended.
Continues(h, n) ==
  \/ /\ \A k \in 1..(n - 1) : h[k].acct # h[n].acct
     /\ h[n].old = OpeningBalance[h[n].acct]
  \/ \E m \in 1..(n - 1) :
       /\ h[m].acct = h[n].acct
       /\ \A k \in (m + 1)..(n - 1) : h[k].acct # h[n].acct
       /\ h[n].old = h[m].old + h[m].change

Chained(h) == \A n \in DOMAIN h : Continues(h, n)

\* Account a has the balance b[a] that it has after h.
Explained(h, b, a) ==
  \/ (\A k \in DOMAIN h : h[k].acct # a) /\ b[a] = OpeningBalance[a]
  \/ \E m \in DOMAIN h :
       /\ h[m].acct = a
       /\ \A k \in DOMAIN h : k > m => h[k].acct # a
       /\ b[a] = h[m].old + h[m].change

Explains(h, b) == \A a \in Accounts : Explained(h, b, a)

LEMMA ChainedIsUnbroken ==
  ASSUME history \in Seq(EntryType), Chained(history)
  PROVE  ChainUnbroken
<1> SUFFICES ASSUME NEW n \in DOMAIN history
             PROVE  LET before == {m \in 1..(n - 1) : history[m].acct = history[n].acct}
                    IN  IF before = {} THEN history[n].old = OpeningBalance[history[n].acct]
                        ELSE \E m \in before :
                               /\ \A k \in before : k <= m
                               /\ history[n].old = history[m].old + history[m].change
  BY DEF ChainUnbroken
<1> DEFINE before == {m \in 1..(n - 1) : history[m].acct = history[n].acct}
<1>1. n \in Nat /\ Continues(history, n)
  BY DEF Chained
<1>2. CASE /\ \A k \in 1..(n - 1) : history[k].acct # history[n].acct
           /\ history[n].old = OpeningBalance[history[n].acct]
  <2>1. before = {}
    BY <1>2
  <2> QED BY <1>2, <2>1
<1>3. ASSUME NEW m \in 1..(n - 1), history[m].acct = history[n].acct,
             \A k \in (m + 1)..(n - 1) : history[k].acct # history[n].acct,
             history[n].old = history[m].old + history[m].change
      PROVE  /\ m \in before
             /\ \A k \in before : k <= m
             /\ history[n].old = history[m].old + history[m].change
  BY <1>1, <1>3
<1> QED BY <1>1, <1>2, <1>3 DEF Continues

\* One row more: it has to start from the balance there is.
LEMMA OneRowMore ==
  ASSUME NEW h \in Seq(EntryType), NEW b \in [Accounts -> Int], NEW e \in EntryType,
         NEW c \in [Accounts -> Int],
         Chained(h), Explains(h, b), e.old = b[e.acct],
         c = [b EXCEPT ![e.acct] = e.old + e.change]
  PROVE  Chained(Append(h, e)) /\ Explains(Append(h, e), c)
<1> DEFINE g == Append(h, e)
           N == Len(h)
<1>1. /\ N \in Nat /\ DOMAIN h = 1..N /\ DOMAIN g = 1..(N + 1)
      /\ g[N + 1] = e /\ \A k \in 1..N : g[k] = h[k]
  OBVIOUS
<1>2. e.acct \in Accounts
  BY DEF EntryType
<1> HIDE DEF g, N
<1>3. ASSUME NEW n \in 1..N PROVE Continues(g, n)
  <2>1. Continues(h, n) /\ \A k \in 1..n : g[k] = h[k]
    BY <1>1 DEF Chained
  <2>2. \A k \in 1..(n - 1) : k \in 1..n
    BY <1>1
  <2>3. \A m \in 1..(n - 1) : \A k \in (m + 1)..(n - 1) : k \in 1..n
    BY <1>1
  <2>4. n \in 1..n
    BY <1>1
  <2> QED BY <2>1, <2>2, <2>3, <2>4 DEF Continues
<1>4. Continues(g, N + 1)
  <2>1. (N + 1) - 1 = N /\ Explained(h, b, e.acct)
    BY <1>1, <1>2 DEF Explains
  <2>2. CASE (\A k \in DOMAIN h : h[k].acct # e.acct) /\ b[e.acct] = OpeningBalance[e.acct]
    <3>1. \A k \in 1..((N + 1) - 1) : g[k].acct # g[N + 1].acct
      BY <1>1, <2>1, <2>2
    <3>2. g[N + 1].old = OpeningBalance[g[N + 1].acct]
      BY <1>1, <2>2
    <3> QED BY <3>1, <3>2 DEF Continues
  <2>3. ASSUME NEW m \in DOMAIN h, h[m].acct = e.acct,
               \A k \in DOMAIN h : k > m => h[k].acct # e.acct,
               b[e.acct] = h[m].old + h[m].change
        PROVE  Continues(g, N + 1)
    <3>1. m \in 1..((N + 1) - 1) /\ g[m] = h[m] /\ g[N + 1] = e
      BY <1>1, <2>3
    <3>2. ASSUME NEW k \in (m + 1)..((N + 1) - 1) PROVE g[k].acct # e.acct
      <4>1. k \in 1..N /\ k > m
        BY <1>1, <2>3
      <4> QED BY <1>1, <2>3, <4>1
    <3> QED BY <2>3, <3>1, <3>2 DEF Continues
  <2> QED BY <2>1, <2>2, <2>3 DEF Explained
<1>5. ASSUME NEW a \in Accounts PROVE Explained(g, c, a)
  <2>1. CASE a = e.acct
    <3>1. N + 1 \in DOMAIN g /\ g[N + 1].acct = a /\ \A k \in DOMAIN g : ~(k > N + 1)
      BY <1>1, <2>1
    <3>2. c[a] = g[N + 1].old + g[N + 1].change
      BY <1>1, <1>2, <2>1
    <3> QED BY <3>1, <3>2 DEF Explained
  <2>2. CASE a # e.acct
    <3>1. c[a] = b[a] /\ Explained(h, b, a)
      BY <1>2, <2>2 DEF Explains
    <3>2. \A k \in DOMAIN g : (k \in DOMAIN h /\ g[k] = h[k]) \/ g[k].acct # a
      BY <1>1, <2>2
    <3>3. \A k \in DOMAIN h : k \in DOMAIN g /\ g[k] = h[k]
      BY <1>1
    <3>4. CASE (\A k \in DOMAIN h : h[k].acct # a) /\ b[a] = OpeningBalance[a]
      <4>1. \A k \in DOMAIN g : g[k].acct # a
        BY <3>2, <3>4
      <4> QED BY <3>1, <3>4, <4>1 DEF Explained
    <3>5. ASSUME NEW m \in DOMAIN h, h[m].acct = a,
                 \A k \in DOMAIN h : k > m => h[k].acct # a,
                 b[a] = h[m].old + h[m].change
          PROVE  Explained(g, c, a)
      <4>1. m \in DOMAIN g /\ g[m] = h[m]
        BY <3>3
      <4>2. \A k \in DOMAIN g : k > m => g[k].acct # a
        BY <3>2, <3>5
      <4> QED BY <3>1, <3>5, <4>1, <4>2 DEF Explained
    <3> QED BY <3>1, <3>4, <3>5 DEF Explained
  <2> QED BY <2>1, <2>2
<1>6. \A n \in DOMAIN g : Continues(g, n)
  <2>1. \A n \in 1..(N + 1) : n \in 1..N \/ n = N + 1
    BY <1>1
  <2> QED BY <1>1, <1>3, <1>4, <2>1
<1> QED BY <1>5, <1>6 DEF Chained, Explains, g

-----------------------------------------------------------------------------
(* What a session that runs alone has prepared                             *)

\* The balances that there will be when u is committed.
Final(u) == [a \in Accounts |-> IF a \in u.touched THEN u.bal[a] ELSE balance[a]]

\* The rows of u go on where the history ends.
Follows(u) ==
  Chained(history \o u.entries) /\ Explains(history \o u.entries, Final(u))

\* What u holds as the balance of a is what it will be.
Reads(u, a) == a \in u.touched \/ u.bal[a] = balance[a]

Sales == {"sell", "longsell"}

Sold(u, a) == \E n \in DOMAIN u.entries : u.entries[n].acct = a /\ u.entries[n].kind \in Sales

\* u takes money that is not there only from an account that sells.
Covered(u) == \A a \in u.touched : u.bal[a] >= 0 \/ u.bal[a] >= balance[a] \/ Sold(u, a)

OneRow(table) ==
  \A j, k \in DOMAIN table :
    table[j].acct = table[k].acct /\ table[j].instr = table[k].instr => j = k

Tidy(table) == OneRow(OpeningOwned) => OneRow(table)

\* u has read the table of holdings as it is, and may have added to it.
Loaded(u) ==
  /\ u.base = Len(owned) /\ u.base <= Len(u.own)
  /\ \A j \in 1..u.base : u.own[j].acct = owned[j].acct /\ u.own[j].instr = owned[j].instr
  /\ Tidy(u.own)

SameRows(u) == (u.own = <<>> /\ u.base = 0) \/ Loaded(u)

\* A quick trade that may be carried out.
Payable(d) ==
  \/ d.dir = "sell"
  \/ d.dir = "buy" /\ Cost(d) + Ppt[d.instr] <= balance[d.acct]

Prepared(u) == Follows(u) /\ Covered(u) /\ SameRows(u)

Faithful(label, u) ==
  /\ Prepared(u)
  /\ label \in {"selling", "checked"} =>
       u.bal[u.trade[1].acct] = balance[u.trade[1].acct] /\ Payable(u.trade[1])
  /\ label = "selling" => u.trade[1].dir = "sell"
  /\ label = "checked" /\ u.trade[1].dir = "sell" => Loaded(u)
  /\ label \in {"overdue", "running"} => Loaded(u) /\ \A a \in Accounts : Reads(u, a)

Resting == {"idle", "done"}

Others(s) == \A x \in Sessions \ {s} : pc[x] \in Resting

(* The inductive invariant: whoever is at work is alone, has read what is  *)
(* still so, and has written nothing that does not go on from there.       *)
SInv ==
  /\ \A s \in Sessions : pc[s] \in Resting \/ Others(s)
  /\ Chained(history) /\ Explains(history, balance) /\ Tidy(owned)
  /\ \A s \in Sessions : pc[s] \notin Resting => Faithful(pc[s], uow[s])

\* The step takes money that is not there only from an account that sells.
NoOverdraft ==
  \A a \in Accounts :
    balance'[a] < balance[a] /\ balance'[a] < 0 =>
      \E n \in (Len(history) + 1)..Len(history') :
        history'[n].acct = a /\ history'[n].kind \in {"sell", "longsell"}

-----------------------------------------------------------------------------
(* How the operators that build a unit of work keep it so                  *)

\* The parts of a unit of work, with the name of the type of its entries.
LEMMA UnitParts ==
  ASSUME NEW u \in UnitsOfWork
  PROVE  /\ u.bal \in [Accounts -> Int] /\ u.touched \in SUBSET Accounts
         /\ u.entries \in Seq(EntryType) /\ u.own \in Seq(OwnedRow) /\ u.base \in Nat
         /\ u.rows \in SUBSET Nat /\ u.trade \in Seq(Trade)
BY DEF UnitsOfWork, EntryType

LEMMA FinalType ==
  ASSUME NEW u \in UnitsOfWork, balance \in [Accounts -> Int]
  PROVE  Final(u) \in [Accounts -> Int]
BY UnitParts DEF Final

\* Three rows more, one at a time.
LEMMA ThreeMore ==
  ASSUME NEW s \in Seq(EntryType), NEW t \in Seq(EntryType),
         NEW a \in EntryType, NEW b \in EntryType, NEW c \in EntryType
  PROVE  s \o (t \o <<a, b, c>>) = Append(Append(Append(s \o t, a), b), c)
<1> DEFINE new == <<a, b, c>>
<1>1. new \in Seq(EntryType)
  OBVIOUS
<1>2. (s \o t) \o new = Append(Append(Append(s \o t, a), b), c)
  <2>1. s \o t \in Seq(EntryType)
    BY ConcatProperties
  <2> QED BY <2>1
<1> HIDE DEF new
<1>3. (s \o t) \o new = s \o (t \o new)
  BY <1>1, ConcatAssociative
<1> QED BY <1>2, <1>3 DEF new

\* A trade whose accounts have been read goes on from there.
LEMMA UpdateBalanceFollows ==
  ASSUME NEW u, Sound(u), NEW d \in Trade, Follows(u), Reads(u, d.acct), Reads(u, Owner),
         history \in Seq(EntryType), balance \in [Accounts -> Int]
  PROVE  Follows(UpdateBalance(u, d))
<1> DEFINE income == Income(d)
           fee == Ppt[d.instr]
           traded == [u.bal EXCEPT ![d.acct] = @ + income]
           charged == [traded EXCEPT ![d.acct] = @ - fee]
           credited == [charged EXCEPT ![Owner] = @ + fee]
           e1 == Entry(d.acct, u.bal[d.acct], income, d.dir)
           e2 == Entry(d.acct, traded[d.acct], -fee, "transactionfee")
           e3 == Entry(Owner, charged[Owner], fee, "collectfee")
           touched == u.touched \cup {d.acct, Owner}
           entries == u.entries \o <<e1, e2, e3>>
           v == [u EXCEPT !.bal = credited, !.touched = touched, !.entries = entries]
           h0 == history \o u.entries
           h1 == Append(h0, e1)
           h2 == Append(h1, e2)
           h3 == Append(h2, e3)
           F0 == Final(u)
           F1 == [F0 EXCEPT ![d.acct] = e1.old + e1.change]
           F2 == [F1 EXCEPT ![d.acct] = e2.old + e2.change]
           F3 == [F2 EXCEPT ![Owner] = e3.old + e3.change]
<1>1. /\ u \in UnitsOfWork /\ u.bal \in [Accounts -> Int] /\ u.touched \in SUBSET Accounts
      /\ u.entries \in Seq(EntryType)
  BY UnitParts DEF Sound
<1>2. /\ d.acct \in Accounts /\ Owner \in Accounts /\ d.dir \in Kinds /\ fee \in Nat
      /\ income \in Int /\ "transactionfee" \in Kinds /\ "collectfee" \in Kinds
  <2>1. Cost(d) \in Nat
    BY DEF Cost, Trade
  <2> QED BY <2>1, BrokerAssumption DEF Trade, Kinds, Income
<1> HIDE DEF income, fee
<1>3. /\ traded \in [Accounts -> Int] /\ charged \in [Accounts -> Int]
      /\ credited \in [Accounts -> Int]
      /\ traded[d.acct] = u.bal[d.acct] + income
      /\ \A a \in Accounts : a # d.acct => traded[a] = u.bal[a] /\ charged[a] = traded[a]
      /\ charged[d.acct] = traded[d.acct] - fee
      /\ credited[Owner] = charged[Owner] + fee
      /\ \A a \in Accounts : a # Owner => credited[a] = charged[a]
  <2>1. /\ traded \in [Accounts -> Int] /\ traded[d.acct] = u.bal[d.acct] + income
        /\ \A a \in Accounts : a # d.acct => traded[a] = u.bal[a]
    BY <1>1, <1>2
  <2> HIDE DEF traded
  <2>2. /\ charged \in [Accounts -> Int] /\ charged[d.acct] = traded[d.acct] - fee
        /\ \A a \in Accounts : a # d.acct => charged[a] = traded[a]
    BY <1>2, <2>1
  <2> HIDE DEF charged
  <2>3. /\ credited \in [Accounts -> Int] /\ credited[Owner] = charged[Owner] + fee
        /\ \A a \in Accounts : a # Owner => credited[a] = charged[a]
    BY <1>2, <2>2
  <2> QED BY <2>1, <2>2, <2>3
<1>4. v = UpdateBalance(u, d)
  BY DEF UpdateBalance, income, fee
<1> HIDE DEF traded, charged, credited
<1>5. /\ e1 \in EntryType /\ e1.acct = d.acct /\ e1.old = u.bal[d.acct] /\ e1.change = income
      /\ e2 \in EntryType /\ e2.acct = d.acct /\ e2.old = traded[d.acct] /\ e2.change = -fee
      /\ e3 \in EntryType /\ e3.acct = Owner /\ e3.old = charged[Owner] /\ e3.change = fee
  <2>1. /\ u.bal[d.acct] \in Int /\ traded[d.acct] \in Int /\ charged[Owner] \in Int
        /\ -fee \in Int /\ fee \in Int
    BY <1>1, <1>2, <1>3
  <2> HIDE DEF fee
  <2>2. e1 \in EntryType /\ e1.acct = d.acct /\ e1.old = u.bal[d.acct] /\ e1.change = income
    <3>1. d.acct \in Accounts /\ d.dir \in Kinds /\ income \in Int /\ u.bal[d.acct] \in Int
      BY <1>2, <2>1
    <3> QED BY <3>1, EntryFields
  <2>3. e2 \in EntryType /\ e2.acct = d.acct /\ e2.old = traded[d.acct] /\ e2.change = -fee
    BY <1>2, <2>1, EntryFields
  <2>4. e3 \in EntryType /\ e3.acct = Owner /\ e3.old = charged[Owner] /\ e3.change = fee
    BY <1>2, <2>1, EntryFields
  <2> QED BY <2>2, <2>3, <2>4
<1> HIDE DEF e1, e2, e3
<1>6. F0 \in [Accounts -> Int] /\ F0[d.acct] = u.bal[d.acct] /\ F0[Owner] = u.bal[Owner]
  BY <1>1, <1>2, FinalType DEF Final, Reads
<1>7. /\ v.touched = touched /\ v.entries = entries /\ v.bal = credited
  BY <1>1 DEF UnitsOfWork
<1>8. F1 \in [Accounts -> Int] /\ F2 \in [Accounts -> Int] /\ F3 \in [Accounts -> Int]
  <2>1. /\ e1.old + e1.change \in Int /\ e2.old + e2.change \in Int /\ e3.old + e3.change \in Int
    BY <1>5 DEF EntryType
  <2> QED BY <1>6, <2>1
<1>9. e2.old = F1[d.acct] /\ e3.old = F2[Owner]
  <2>1. F1[d.acct] = u.bal[d.acct] + income /\ F2[d.acct] = traded[d.acct] + (-fee)
    BY <1>2, <1>5, <1>6, <1>8
  <2>2. Owner # d.acct => F2[Owner] = u.bal[Owner]
    BY <1>2, <1>6, <1>8
  <2>3. traded[d.acct] \in Int /\ traded[d.acct] + (-fee) = traded[d.acct] - fee
    BY <1>2, <1>3
  <2> QED BY <1>2, <1>3, <1>5, <2>1, <2>2, <2>3
<1>10. F3 = Final(v)
  <2>1. ASSUME NEW a \in Accounts PROVE F3[a] = IF a \in touched THEN credited[a] ELSE balance[a]
    <3>1. CASE a = Owner
      BY <1>2, <1>3, <1>5, <1>8, <3>1
    <3>2. CASE a # Owner /\ a = d.acct
      <4>1. F3[a] = traded[d.acct] + (-fee) /\ credited[a] = traded[d.acct] - fee
        BY <1>2, <1>3, <1>5, <1>8, <3>2
      <4>2. traded[d.acct] \in Int
        BY <1>2, <1>3
      <4> QED BY <1>2, <3>2, <4>1, <4>2
    <3>3. CASE a # Owner /\ a # d.acct
      <4>1. F3[a] = F0[a] /\ credited[a] = u.bal[a]
        BY <1>3, <1>6, <1>8, <3>3
      <4> QED BY <3>3, <4>1 DEF Final
    <3> QED BY <3>1, <3>2, <3>3
  <2> QED BY <1>7, <1>8, <2>1 DEF Final
<1>11. h0 \in Seq(EntryType) /\ h1 \in Seq(EntryType) /\ h2 \in Seq(EntryType)
  BY <1>1, <1>5, ConcatFacts
<1>12. h3 = history \o v.entries
  <2>1. /\ history \in Seq(EntryType) /\ u.entries \in Seq(EntryType)
        /\ e1 \in EntryType /\ e2 \in EntryType /\ e3 \in EntryType
    BY <1>1, <1>5
  <2>2. history \o (u.entries \o <<e1, e2, e3>>)
          = Append(Append(Append(history \o u.entries, e1), e2), e3)
    <3>1. \A s, t \in Seq(EntryType) : \A a, b, c \in EntryType :
            s \o (t \o <<a, b, c>>) = Append(Append(Append(s \o t, a), b), c)
      BY ThreeMore, Zenon
    <3>2. \A t \in Seq(EntryType) : \A a, b, c \in EntryType :
            history \o (t \o <<a, b, c>>) = Append(Append(Append(history \o t, a), b), c)
      BY <2>1, <3>1, Zenon
    <3>3. \A a, b, c \in EntryType :
            history \o (u.entries \o <<a, b, c>>) = Append(Append(Append(history \o u.entries, a), b), c)
      BY <2>1, <3>2, Zenon
    <3> QED BY <2>1, <3>3, Zenon
  <2>3. history \o entries = h3
    BY <2>2, Zenon
  <2> QED BY <1>7, <2>3
<1>13. Chained(h0) /\ Explains(h0, F0)
  BY DEF Follows
<1> HIDE DEF h0, F0, v
<1>14. Chained(h1) /\ Explains(h1, F1)
  BY <1>5, <1>6, <1>8, <1>11, <1>13, OneRowMore
<1> HIDE DEF h1, F1
<1>15. Chained(h2) /\ Explains(h2, F2)
  BY <1>5, <1>8, <1>9, <1>11, <1>14, OneRowMore
<1> HIDE DEF h2, F2
<1>16. Chained(h3) /\ Explains(h3, F3)
  BY <1>5, <1>8, <1>9, <1>11, <1>15, OneRowMore
<1> QED BY <1>4, <1>10, <1>12, <1>16 DEF Follows

\* What UpdateBalance makes of the balances, the rows and the rest.
LEMMA UpdateBalanceParts ==
  ASSUME NEW u, Sound(u), NEW d \in Trade
  PROVE  LET v == UpdateBalance(u, d)
             b == u.bal
             after == b[d.acct] + Income(d) - Ppt[d.instr]
         IN  /\ v.touched = u.touched \cup {d.acct, Owner}
             /\ d.acct # Owner => v.bal[d.acct] = after /\ v.bal[Owner] = b[Owner] + Ppt[d.instr]
             /\ d.acct = Owner => v.bal[d.acct] = after + Ppt[d.instr]
             /\ \A a \in Accounts : a \notin {d.acct, Owner} => v.bal[a] = b[a]
             /\ v.own = u.own /\ v.base = u.base /\ v.rows = u.rows /\ v.trade = u.trade
             /\ \A a \in Accounts : Sold(u, a) => Sold(v, a)
             /\ d.dir \in Sales => Sold(v, d.acct)
<1> DEFINE b == u.bal
           income == Income(d)
           fee == Ppt[d.instr]
           traded == [b EXCEPT ![d.acct] = @ + income]
           charged == [traded EXCEPT ![d.acct] = @ - fee]
           credited == [charged EXCEPT ![Owner] = @ + fee]
           e1 == Entry(d.acct, b[d.acct], income, d.dir)
           e2 == Entry(d.acct, traded[d.acct], -fee, "transactionfee")
           e3 == Entry(Owner, charged[Owner], fee, "collectfee")
           new == <<e1, e2, e3>>
           v == UpdateBalance(u, d)
<1>1. /\ u \in UnitsOfWork /\ b \in [Accounts -> Int] /\ u.entries \in Seq(EntryType)
  BY UnitParts DEF Sound
<1>2. d.acct \in Accounts /\ Owner \in Accounts /\ fee \in Nat /\ income \in Int
  <2>1. Cost(d) \in Nat
    BY DEF Cost, Trade
  <2> QED BY <2>1, BrokerAssumption DEF Trade, Income
<1>3. /\ v.bal = credited /\ v.touched = u.touched \cup {d.acct, Owner}
      /\ v.entries = u.entries \o new
      /\ v.own = u.own /\ v.base = u.base /\ v.rows = u.rows /\ v.trade = u.trade
  BY <1>1 DEF UpdateBalance, UnitsOfWork
<1>4. v \in UnitsOfWork /\ v.entries \in Seq(EntryType)
  BY UpdateBalanceSound, UnitParts DEF Sound
<1>5. e1.acct = d.acct /\ e1.kind = d.dir /\ Len(new) = 3 /\ new[1] = e1
  BY DEF Entry
<1> HIDE DEF income, fee, e1, e2, e3, v
<1>6. /\ d.acct # Owner => credited[d.acct] = b[d.acct] + income - fee /\ credited[Owner] = b[Owner] + fee
      /\ d.acct = Owner => credited[d.acct] = b[d.acct] + income - fee + fee
      /\ \A a \in Accounts : a \notin {d.acct, Owner} => credited[a] = b[a]
  BY <1>1, <1>2
<1> HIDE DEF b, traded, charged, credited
<1>7. /\ \A n \in DOMAIN u.entries : n \in DOMAIN v.entries /\ v.entries[n] = u.entries[n]
      /\ \E n \in DOMAIN v.entries : v.entries[n] = e1
  <2> DEFINE w == u.entries \o new
             N == Len(u.entries)
  <2>1. N \in Nat /\ DOMAIN u.entries = 1..N
    BY <1>1
  <2>2. \A n \in 1..N : n \in DOMAIN w /\ w[n] = u.entries[n]
    BY <1>1
  <2>3. N + 1 \in DOMAIN w /\ w[N + 1] = e1
    BY <1>1
  <2> HIDE DEF w, N
  <2> QED BY <1>3, <2>1, <2>2, <2>3 DEF w
<1>8. /\ \A a \in Accounts : Sold(u, a) => Sold(v, a)
      /\ d.dir \in Sales => Sold(v, d.acct)
  BY <1>5, <1>7 DEF Sold
<1> QED BY <1>3, <1>6, <1>8 DEF v, income, fee, b

\* A trade that is paid for, or a sale, keeps the balances covered.
LEMMA UpdateBalanceCovered ==
  ASSUME NEW u, Sound(u), NEW d \in Trade, Covered(u), Reads(u, Owner),
         balance \in [Accounts -> Int],
         d.dir \in Sales \/ Cost(d) + Ppt[d.instr] <= u.bal[d.acct]
  PROVE  Covered(UpdateBalance(u, d))
<1> DEFINE v == UpdateBalance(u, d)
           fee == Ppt[d.instr]
<1>1. /\ u.bal \in [Accounts -> Int] /\ u.touched \subseteq Accounts
      /\ v.bal \in [Accounts -> Int] /\ v.touched \subseteq Accounts
  BY UpdateBalanceSound, UnitParts DEF Sound
<1>2. d.acct \in Accounts /\ Owner \in Accounts /\ fee \in Nat /\ Cost(d) \in Nat
  BY BrokerAssumption DEF Trade, Cost
<1>3. /\ v.touched = u.touched \cup {d.acct, Owner}
      /\ d.acct # Owner => /\ v.bal[d.acct] = u.bal[d.acct] + Income(d) - fee
                           /\ v.bal[Owner] = u.bal[Owner] + fee
      /\ d.acct = Owner => v.bal[d.acct] = u.bal[d.acct] + Income(d) - fee + fee
      /\ \A a \in Accounts : a \notin {d.acct, Owner} => v.bal[a] = u.bal[a]
      /\ \A a \in Accounts : Sold(u, a) => Sold(v, a)
      /\ d.dir \in Sales => Sold(v, d.acct)
  BY UpdateBalanceParts
<1> HIDE DEF v, fee
<1>4. d.dir \notin Sales => Income(d) = -Cost(d)
  BY DEF Sales, Income
<1>5. v.bal[d.acct] >= 0 \/ Sold(v, d.acct)
  <2>1. CASE d.dir \in Sales
    BY <1>3, <2>1
  <2>2. CASE d.dir \notin Sales
    BY <1>1, <1>2, <1>3, <1>4, <2>2 DEF fee
  <2> QED BY <2>1, <2>2
<1>6. ASSUME NEW a \in v.touched
      PROVE  v.bal[a] >= 0 \/ v.bal[a] >= balance[a] \/ Sold(v, a)
  <2>1. CASE a = d.acct
    BY <1>5, <2>1
  <2>2. CASE a # d.acct /\ a = Owner
    <3>1. v.bal[Owner] = u.bal[Owner] + fee /\ u.bal[Owner] \in Int /\ balance[Owner] \in Int
      BY <1>1, <1>2, <1>3, <2>2
    <3>2. CASE Owner \in u.touched
      <4>1. u.bal[Owner] >= 0 \/ u.bal[Owner] >= balance[Owner] \/ Sold(u, Owner)
        BY <3>2 DEF Covered
      <4> QED BY <1>2, <1>3, <2>2, <3>1, <4>1
    <3>3. CASE u.bal[Owner] = balance[Owner]
      BY <1>2, <2>2, <3>1, <3>3
    <3> QED BY <3>2, <3>3 DEF Reads
  <2>3. CASE a # d.acct /\ a # Owner
    <3>1. a \in u.touched /\ a \in Accounts /\ v.bal[a] = u.bal[a]
      BY <1>1, <1>3, <2>3
    <3> QED BY <1>3, <3>1 DEF Covered
  <2> QED BY <2>1, <2>2, <2>3
<1> QED BY <1>6 DEF Covered, v

\* A row that is changed remains the row of its account and instrument.
LEMMA ChangeOwnedLoaded ==
  ASSUME NEW u, u \in UnitsOfWork, Loaded(u), NEW j \in DOMAIN u.own, NEW amount
  PROVE  Loaded(ChangeOwned(u, j, amount))
<1> DEFINE row == OwnedInstrument(u.own[j].acct, u.own[j].instr, u.own[j].qty + amount)
           own == [u.own EXCEPT ![j] = row]
           v == ChangeOwned(u, j, amount)
<1>1. u.own \in Seq(OwnedRow) /\ u.base \in Nat /\ DOMAIN u.own = 1..Len(u.own) /\ Len(u.own) \in Nat
  BY UnitParts
<1>2. v.own = own /\ v.base = u.base
  BY DEF ChangeOwned, UnitsOfWork
<1>3. row.acct = u.own[j].acct /\ row.instr = u.own[j].instr
  BY DEF OwnedInstrument
<1> HIDE DEF row
<1>4. /\ DOMAIN own = DOMAIN u.own /\ Len(own) = Len(u.own)
      /\ \A k \in DOMAIN own : own[k].acct = u.own[k].acct /\ own[k].instr = u.own[k].instr
  BY <1>1, <1>3
<1> HIDE DEF own, v
<1>5. \A k \in 1..u.base : k \in DOMAIN own
  BY <1>1, <1>4 DEF Loaded
<1> QED BY <1>2, <1>4, <1>5 DEF Loaded, Tidy, OneRow, v

\* Acquiring adds a row only where there is none.
LEMMA AcquireLoaded ==
  ASSUME NEW u, Sound(u), NEW d \in Trade, Loaded(u), NEW v \in Acquire(u, d)
  PROVE  Loaded(v)
<1>1. /\ u \in UnitsOfWork /\ u.own \in Seq(OwnedRow) /\ u.base \in Nat
      /\ DOMAIN u.own = 1..Len(u.own) /\ Len(u.own) \in Nat
  BY UnitParts DEF Sound
<1>2. CASE RowsOf(u.own, d) = {}
  <2> DEFINE row == OwnedInstrument(d.acct, d.instr, d.qty)
             own == Append(u.own, row)
             N == Len(u.own)
  <2>1. v.own = own /\ v.base = u.base
    BY <1>1, <1>2 DEF Acquire, AddOwned, UnitsOfWork
  <2>2. row.acct = d.acct /\ row.instr = d.instr
    BY DEF OwnedInstrument
  <2> HIDE DEF row
  <2>3. /\ DOMAIN own = 1..(N + 1) /\ Len(own) = N + 1 /\ own[N + 1] = row
        /\ \A j \in 1..N : own[j] = u.own[j]
    BY <1>1
  <2> HIDE DEF own
  <2>4. \A j \in 1..N : u.own[j].acct # row.acct \/ u.own[j].instr # row.instr
    BY <1>1, <1>2, <2>2 DEF RowsOf
  <2>5. ASSUME OneRow(u.own) PROVE OneRow(own)
    <3> SUFFICES ASSUME NEW j \in 1..(N + 1), NEW k \in 1..(N + 1),
                        own[j].acct = own[k].acct, own[j].instr = own[k].instr
                 PROVE  j = k
      BY <2>3 DEF OneRow
    <3>1. (j \in 1..N \/ j = N + 1) /\ (k \in 1..N \/ k = N + 1)
      BY <1>1
    <3> QED BY <1>1, <2>3, <2>4, <2>5, <3>1 DEF OneRow
  <2>6. \A j \in 1..u.base : j \in 1..N
    BY <1>1 DEF Loaded
  <2> QED BY <1>1, <2>1, <2>3, <2>5, <2>6 DEF Loaded, Tidy
<1>3. CASE RowsOf(u.own, d) # {}
  <2>1. PICK j \in RowsOf(u.own, d) : v = ChangeOwned(u, j, d.qty)
    BY <1>3 DEF Acquire
  <2> QED BY <1>1, <2>1, ChangeOwnedLoaded DEF RowsOf
<1> QED BY <1>2, <1>3

-----------------------------------------------------------------------------
(* The two ways a session goes on                                          *)

\* Whoever is at work is alone, and so is whoever may begin.
LEMMA AtWork ==
  ASSUME IInv, SInv, Serial, NEW s \in Sessions, pc[s] \notin Resting \/ Begin(s)
  PROVE  Others(s) /\ (pc[s] \notin Resting => Faithful(pc[s], uow[s]))
BY DEF SInv, Others, Begin, Resting

\* The tables stay as they are; s goes on alone.
LEMMA QuietSerial ==
  ASSUME IInv, SInv, UNCHANGED db, NEW s \in Sessions, Others(s), NEW label, NEW w,
         Goto(s, label, w), label \in Resting \/ Faithful(label, w)
  PROVE  SInv' /\ NoOverdraft
<1>1. /\ balance' = balance /\ history' = history /\ owned' = owned
      /\ balance \in [Accounts -> Int]
  BY DEF db, IInv, TypeOK
<1>2. /\ pc'[s] = label /\ uow'[s] = w
      /\ \A x \in Sessions \ {s} : pc'[x] \in Resting
  BY DEF Goto, Others, IInv, TypeOK
<1>3. ASSUME Faithful(label, w) PROVE Faithful(pc[s], uow[s])'
  <2>1. Loaded(uow[s])' <=> Loaded(w)
    BY <1>1, <1>2 DEF Loaded, Tidy
  <2>2. Follows(uow[s])' <=> Follows(w)
    BY <1>1, <1>2 DEF Follows, Final
  <2>3. Covered(uow[s])' <=> Covered(w)
    BY <1>1, <1>2 DEF Covered, Sold
  <2>4. SameRows(uow[s])' <=> SameRows(w)
    BY <1>2, <2>1 DEF SameRows
  <2>5. \A a \in Accounts : Reads(uow[s], a)' <=> Reads(w, a)
    BY <1>1, <1>2 DEF Reads
  <2>6. Payable(uow[s].trade[1])' <=> Payable(w.trade[1])
    BY <1>1, <1>2 DEF Payable
  <2>7. Prepared(uow[s])'
    BY <1>3, <2>2, <2>3, <2>4 DEF Faithful, Prepared
  <2> QED BY <1>1, <1>2, <1>3, <2>1, <2>5, <2>6, <2>7 DEF Faithful
<1>4. \A x \in Sessions : (pc[x] \notin Resting => Faithful(pc[x], uow[x]))'
  BY <1>2, <1>3
<1>5. \A x \in Sessions : pc'[x] \in Resting \/ Others(x)'
  BY <1>2 DEF Others
<1>6. (Chained(history) /\ Explains(history, balance) /\ Tidy(owned))'
  BY <1>1 DEF SInv, Tidy
<1>7. NoOverdraft
  BY <1>1 DEF NoOverdraft
<1> QED BY <1>4, <1>5, <1>6, <1>7 DEF SInv

\* The rows after a commit are those that u holds.
LEMMA CommitTidy ==
  ASSUME IInv, SInv, NEW u, Sound(u), SameRows(u), Commit(u)
  PROVE  Tidy(owned')
<1> DEFINE old == [j \in DOMAIN owned |-> IF j \in u.rows THEN u.own[j] ELSE owned[j]]
           new == SubSeq(u.own, u.base + 1, Len(u.own))
           N == Len(owned)
<1>1. /\ u.own \in Seq(OwnedRow) /\ u.base \in Nat /\ Len(u.own) \in Nat
      /\ DOMAIN u.own = 1..Len(u.own) /\ u.rows \subseteq 1..u.base
  BY UnitParts DEF Sound, HoldingsSound
<1>2. /\ owned \in Seq(OwnedRow) /\ N \in Nat /\ DOMAIN owned = 1..N
      /\ \A j \in 1..N : owned[j] \in OwnedRow
  BY TableFacts
<1>3. owned' = old \o new
  BY DEF Commit
<1>4. CASE u.own = <<>> /\ u.base = 0
  <2>1. u.rows = {} /\ new = <<>>
    BY <1>1, <1>4
  <2>2. old = owned
    BY <1>2, <2>1
  <2> HIDE DEF old, new
  <2>3. owned' = owned
    BY <1>2, <1>3, <2>1, <2>2
  <2> QED BY <2>3 DEF SInv
<1>5. CASE Loaded(u)
  <2>1. /\ u.base = N /\ N <= Len(u.own) /\ Tidy(u.own)
        /\ \A j \in 1..N : u.own[j].acct = owned[j].acct /\ u.own[j].instr = owned[j].instr
    BY <1>5 DEF Loaded
  <2>2. \A j \in 1..N : /\ j \in DOMAIN u.own /\ old[j] \in OwnedRow
                        /\ old[j].acct = u.own[j].acct /\ old[j].instr = u.own[j].instr
    BY <1>1, <1>2, <2>1
  <2>3. old = [j \in DOMAIN old |-> old[j]] /\ DOMAIN old = 1..N
    BY <1>2
  <2> HIDE DEF old
  <2>4. old \in Seq(OwnedRow) /\ Len(old) = N
    BY <1>2, <2>2, <2>3, FunctionIsSeq
  <2>5. /\ new \in Seq(OwnedRow) /\ Len(new) = Len(u.own) - N
        /\ \A k \in 1..Len(new) : new[k] = u.own[N + k]
    <3> DEFINE m == N + 1
               n == Len(u.own)
    <3>1. m \in Int /\ n \in Int /\ new = SubSeq(u.own, m, n) /\ \A k \in m..n : u.own[k] \in OwnedRow
      BY <1>1, <1>2, <2>1
    <3> HIDE DEF new, m, n
    <3>2. /\ new \in Seq(OwnedRow) /\ Len(new) = IF m <= n THEN n - m + 1 ELSE 0
          /\ \A k \in 1..n - m + 1 : new[k] = u.own[m + k - 1]
      BY <3>1, SubSeqProperties
    <3>3. Len(new) = Len(u.own) - N
      BY <1>1, <1>2, <2>1, <3>2 DEF m, n
    <3>4. ASSUME NEW k \in 1..Len(new) PROVE new[k] = u.own[N + k]
      <4>1. k \in 1..n - m + 1 /\ m + k - 1 = N + k
        BY <1>1, <1>2, <2>1, <3>3 DEF m, n
      <4> QED BY <3>2, <4>1
    <3> QED BY <3>2, <3>3, <3>4
  <2> HIDE DEF new
  <2>6. /\ DOMAIN owned' = 1..(Len(old) + Len(new)) /\ Len(new) \in Nat
        /\ \A n \in 1..Len(old) : owned'[n] = old[n]
        /\ \A n \in 1..Len(new) : owned'[Len(old) + n] = new[n]
        /\ \A n \in DOMAIN owned' : n \notin 1..Len(old) => n - Len(old) \in 1..Len(new)
    <3>1. old \in Seq(OwnedRow) /\ new \in Seq(OwnedRow) /\ owned' = old \o new
      BY <1>3, <2>4, <2>5
    <3> QED BY <3>1, ConcatFacts
  <2>7. ASSUME NEW n \in DOMAIN owned'
        PROVE  /\ n \in DOMAIN u.own
               /\ owned'[n].acct = u.own[n].acct /\ owned'[n].instr = u.own[n].instr
    <3>1. CASE n \in 1..N
      BY <2>2, <2>4, <2>6, <3>1
    <3>2. CASE n \notin 1..N
      <4>1. n - N \in 1..Len(new) /\ N + (n - N) = n
        BY <1>2, <2>4, <2>6, <3>2
      <4>2. owned'[n] = u.own[n]
        BY <2>4, <2>5, <2>6, <4>1
      <4>3. n \in 1..Len(u.own)
        BY <1>1, <1>2, <2>4, <2>5, <2>6
      <4> QED BY <1>1, <4>2, <4>3
    <3> QED BY <3>1, <3>2
  <2> QED BY <2>1, <2>7 DEF Tidy, OneRow
<1> QED BY <1>4, <1>5 DEF SameRows

\* What has been prepared alone is written; everybody rests.
LEMMA CommitSerial ==
  ASSUME IInv, SInv, NEW s \in Sessions, Others(s), NEW u, Sound(u), Prepared(u), Commit(u),
         NEW label \in Resting, Goto(s, label, Blank)
  PROVE  SInv' /\ NoOverdraft
<1>1. /\ balance \in [Accounts -> Int] /\ history \in Seq(EntryType)
      /\ u \in UnitsOfWork /\ u.entries \in Seq(EntryType) /\ u.touched \subseteq Accounts
  BY UnitParts DEF Sound, IInv, TypeOK, EntryType
<1>2. \A x \in Sessions : pc'[x] \in Resting
  BY DEF Goto, Others, IInv, TypeOK
<1>3. balance' = Final(u) /\ history' = history \o u.entries
  BY DEF Commit, Final
<1>4. Chained(history') /\ Explains(history', balance')
  BY <1>3 DEF Prepared, Follows
<1>5. Tidy(owned')
  BY CommitTidy DEF Prepared
<1>6. SInv'
  <2>1. \A x \in Sessions : pc'[x] \in Resting \/ Others(x)'
    BY <1>2
  <2>2. \A x \in Sessions : (pc[x] \notin Resting => Faithful(pc[x], uow[x]))'
    BY <1>2
  <2>3. Tidy(owned)'
    BY <1>5 DEF Tidy
  <2> QED BY <1>4, <2>1, <2>2, <2>3 DEF SInv
<1>7. ASSUME NEW a \in Accounts, balance'[a] < balance[a], balance'[a] < 0
      PROVE  \E n \in (Len(history) + 1)..Len(history') :
               history'[n].acct = a /\ history'[n].kind \in {"sell", "longsell"}
  <2>1. a \in u.touched /\ balance'[a] = u.bal[a] /\ u.bal[a] \in Int /\ balance[a] \in Int
    BY <1>1, <1>3, <1>7, UnitParts DEF Final
  <2>2. Sold(u, a)
    BY <1>7, <2>1 DEF Prepared, Covered
  <2>3. PICK n \in DOMAIN u.entries : u.entries[n].acct = a /\ u.entries[n].kind \in Sales
    BY <2>2 DEF Sold
  <2>4. /\ Len(history') = Len(history) + Len(u.entries)
        /\ Len(history) \in Nat /\ Len(u.entries) \in Nat /\ n \in 1..Len(u.entries)
        /\ history'[Len(history) + n] = u.entries[n]
    BY <1>1, <1>3, ConcatFacts
  <2>5. Len(history) + n \in (Len(history) + 1)..Len(history')
    BY <2>4
  <2> QED BY <2>3, <2>4, <2>5 DEF Sales
<1> QED BY <1>6, <1>7 DEF NoOverdraft

-----------------------------------------------------------------------------
(* The requests                                                            *)

LEMMA NothingYet ==
  ASSUME IInv, SInv, NEW u, u.entries = <<>>, u.touched = {}
  PROVE  Follows(u) /\ Covered(u)
<1>1. history \in Seq(EntryType) /\ balance \in [Accounts -> Int]
  BY DEF IInv, TypeOK, EntryType
<1>2. Final(u) = balance /\ history \o u.entries = history
  BY <1>1 DEF Final
<1> QED BY <1>2 DEF Follows, SInv, Covered

\* Who has read the table of holdings has it as it is.
LEMMA JustLoaded ==
  ASSUME IInv, SInv, NEW u, u.own = owned, u.base = Len(owned)
  PROVE  Loaded(u)
BY TableFacts DEF Loaded, SInv

LEMMA MoneySerial ==
  ASSUME IInv, SInv, Serial, NEW r \in Requests, MoneyStart(r)
  PROVE  SInv' /\ NoOverdraft
<1>1. PICK a \in Accounts, m \in Amounts : Deposit(r, a, m) \/ Withdraw(r, a, m)
  BY DEF MoneyStart
<1>2. m \in Nat /\ balance \in [Accounts -> Int] /\ balance[a] \in Int /\ history \in Seq(EntryType)
  BY TableFacts, BrokerAssumption DEF IInv, TypeOK, EntryType
<1>3. ASSUME NEW difference \in Int, NEW kind \in Kinds, ModifyBalance(r, a, difference, kind),
             balance[a] + difference >= 0 \/ balance[a] + difference >= balance[a]
      PROVE  SInv' /\ NoOverdraft
  <2> DEFINE e == Entry(a, balance[a], difference, kind)
             w == [Blank EXCEPT !.bal[a] = balance[a] + difference, !.touched = {a},
                                !.entries = <<e>>]
  <2>1. e \in EntryType /\ e.acct = a /\ e.old = balance[a] /\ e.change = difference
    BY <1>2, EntryFields
  <2>2. /\ Goto(r, "ready", w) /\ Begin(r) /\ r \in Sessions
        /\ UNCHANGED db
    BY <1>3 DEF ModifyBalance, Sessions, db
  <2>3. /\ w.touched = {a} /\ w.entries = <<e>> /\ w.own = <<>> /\ w.base = 0
        /\ w.bal[a] = balance[a] + difference
    BY DEF Blank
  <2> HIDE DEF e, w
  <2>4. Final(w) = [balance EXCEPT ![a] = e.old + e.change]
    BY <1>2, <2>1, <2>3 DEF Final
  <2>5. history \o w.entries = Append(history, e)
    BY <1>2, <2>1, <2>3
  <2>6. Follows(w)
    <3>1. [balance EXCEPT ![a] = e.old + e.change] \in [Accounts -> Int]
      BY <1>2, <1>3, <2>1
    <3>2. Chained(history) /\ Explains(history, balance)
      BY DEF SInv
    <3>3. /\ Chained(Append(history, e))
          /\ Explains(Append(history, e), [balance EXCEPT ![a] = e.old + e.change])
      BY <1>2, <2>1, <3>1, <3>2, OneRowMore
    <3> QED BY <2>4, <2>5, <3>3 DEF Follows
  <2>7. Faithful("ready", w)
    BY <1>3, <2>3, <2>6 DEF Faithful, Prepared, Covered, SameRows
  <2> QED BY <2>2, <2>7, AtWork, QuietSerial
<1>4. CASE Deposit(r, a, m)
  <2>1. m \in Int /\ "deposit" \in Kinds /\ balance[a] + m >= balance[a]
    BY <1>2 DEF Kinds
  <2> QED BY <1>3, <1>4, <2>1 DEF Deposit
<1>5. CASE Withdraw(r, a, m)
  <2>1. -m \in Int /\ "withdraw" \in Kinds /\ balance[a] + (-m) >= 0
    BY <1>2, <1>5 DEF Kinds, Withdraw
  <2> QED BY <1>3, <1>5, <2>1 DEF Withdraw
<1> QED BY <1>1, <1>4, <1>5

LEMMA QuickStartSerial ==
  ASSUME IInv, SInv, Serial, NEW r \in Requests, QuickStart(r)
  PROVE  SInv' /\ NoOverdraft
<1>1. PICK a \in Accounts, i \in Instruments, q \in Quantities, p \in Prices :
        BuyCheck(r, a, i, q, p) \/ SellReadBalance(r, a, i, q, p)
  BY DEF QuickStart
<1>2. r \in Sessions /\ Begin(r) /\ UNCHANGED db
  BY <1>1 DEF BuyCheck, SellReadBalance, Sessions, db
<1>3. ASSUME NEW d, d.acct = a, Payable(d), NEW label \in {"selling", "checked"},
             label = "selling" => d.dir = "sell", label = "checked" => d.dir = "buy",
             Goto(r, label, [Blank EXCEPT !.bal = Track(a), !.trade = <<d>>])
      PROVE  SInv' /\ NoOverdraft
  <2> DEFINE w == [Blank EXCEPT !.bal = Track(a), !.trade = <<d>>]
  <2>1. /\ w.touched = {} /\ w.entries = <<>> /\ w.own = <<>> /\ w.base = 0
        /\ w.bal[a] = balance[a] /\ w.trade[1] = d
    BY DEF Blank, Track
  <2>2. Goto(r, label, w)
    BY <1>3
  <2> HIDE DEF w
  <2>3. Faithful(label, w)
    <3>1. Prepared(w)
      BY <2>1, NothingYet DEF Prepared, SameRows
    <3> QED BY <1>3, <2>1, <3>1 DEF Faithful
  <2> QED BY <1>2, <2>2, <2>3, AtWork, QuietSerial
<1>4. CASE BuyCheck(r, a, i, q, p)
  <2> DEFINE d == QuickTrade(a, i, "buy", q, p)
  <2>1. d.acct = a /\ d.dir = "buy" /\ d.instr = i
    BY DEF QuickTrade
  <2>2. Cost(d) + Ppt[i] <= balance[a]
    BY <1>4 DEF BuyCheck
  <2>3. Goto(r, "checked", [Blank EXCEPT !.bal = Track(a), !.trade = <<d>>])
    BY <1>4 DEF BuyCheck
  <2> HIDE DEF d
  <2> QED BY <1>3, <2>1, <2>2, <2>3 DEF Payable
<1>5. CASE SellReadBalance(r, a, i, q, p)
  <2> DEFINE d == QuickTrade(a, i, "sell", q, p)
  <2>1. d.acct = a /\ d.dir = "sell"
    BY DEF QuickTrade
  <2>2. Goto(r, "selling", [Blank EXCEPT !.bal = Track(a), !.trade = <<d>>])
    BY <1>5 DEF SellReadBalance
  <2> HIDE DEF d
  <2> QED BY <1>3, <2>1, <2>2 DEF Payable
<1> QED BY <1>1, <1>4, <1>5

LEMMA SellCheckSerial ==
  ASSUME IInv, SInv, Serial, NEW r \in Requests, SellCheck(r)
  PROVE  SInv' /\ NoOverdraft
<1> DEFINE u == uow[r]
           d == u.trade[1]
           v == [u EXCEPT !.own = owned, !.base = Len(owned)]
<1>1. r \in Sessions /\ pc[r] = "selling" /\ UNCHANGED db
  BY DEF SellCheck, Sessions, db
<1>2. Others(r) /\ Faithful("selling", u)
  BY <1>1, AtWork DEF Resting
<1>3. /\ u \in UnitsOfWork /\ Sound(u) /\ u.base <= Len(owned)
      /\ u.entries = <<>> /\ u.touched = {}
  BY <1>1, SessionFacts
<1>4. PICK j \in RowsOf(owned, d) : Goto(r, "checked", ChangeOwned(v, j, -d.qty))
  BY DEF SellCheck
<1> DEFINE w == ChangeOwned(v, j, -d.qty)
<1>5. /\ v \in UnitsOfWork /\ v.own = owned /\ v.base = Len(owned) /\ v.bal = u.bal
      /\ v.trade = u.trade /\ v.entries = u.entries /\ v.touched = u.touched
  BY <1>3, TrackOwnedSound DEF Sound, UnitsOfWork
<1>6. Loaded(v) /\ j \in DOMAIN v.own
  BY <1>5, JustLoaded DEF RowsOf
<1> HIDE DEF v, u
<1>7. Loaded(w)
  BY <1>5, <1>6, ChangeOwnedLoaded
<1>8. /\ w.bal = u.bal /\ w.trade = u.trade /\ w.entries = <<>> /\ w.touched = {}
  BY <1>3, <1>5 DEF ChangeOwned, UnitsOfWork
<1>9. Goto(r, "checked", w)
  BY <1>4
<1> HIDE DEF w, d
<1>10. Faithful("checked", w)
  <2>1. Prepared(w)
    BY <1>7, <1>8, NothingYet DEF Prepared, SameRows
  <2> QED BY <1>2, <1>7, <1>8, <2>1 DEF Faithful
<1> QED BY <1>1, <1>2, <1>9, <1>10, QuietSerial

LEMMA ComputeSerial ==
  ASSUME IInv, SInv, Serial, NEW r \in Requests, Compute(r)
  PROVE  SInv' /\ NoOverdraft
<1> DEFINE u == uow[r]
           d == u.trade[1]
           bal == [u.bal EXCEPT ![Owner] = IF d.acct = Owner THEN @ ELSE balance[Owner]]
           v == [u EXCEPT !.bal = bal]
           full == [v EXCEPT !.own = owned, !.base = Len(owned)]
<1>1. r \in Sessions /\ pc[r] = "checked" /\ UNCHANGED db
  BY DEF Compute, Sessions, db
<1>2. Others(r) /\ Faithful("checked", u)
  BY <1>1, AtWork DEF Resting
<1>3. /\ Sound(u) /\ u \in UnitsOfWork /\ u.base \in Nat /\ u.base <= Len(owned)
      /\ u.entries = <<>> /\ u.touched = {} /\ d \in Trade
  BY <1>1, SessionFacts
<1>4. \/ d.dir = "sell" /\ Goto(r, "ready", UpdateBalance(v, d))
      \/ d.dir # "sell" /\ \E w \in Acquire(full, d) : Goto(r, "ready", UpdateBalance(w, d))
  BY DEF Compute
<1>5. /\ u.bal[d.acct] = balance[d.acct] /\ Payable(d)
      /\ d.dir = "sell" => Loaded(u)
  BY <1>2 DEF Faithful
<1>6. history \in Seq(EntryType) /\ balance \in [Accounts -> Int]
  BY DEF IInv, TypeOK, EntryType
<1>7. d.acct \in Accounts /\ Owner \in Accounts /\ u.bal \in [Accounts -> Int]
  BY <1>3, UnitParts, BrokerAssumption DEF Trade
<1> HIDE DEF u, d
<1>8. bal \in [Accounts -> Int] /\ bal[d.acct] = balance[d.acct] /\ bal[Owner] = balance[Owner]
  BY <1>5, <1>6, <1>7
<1> HIDE DEF bal
<1>9. /\ v \in UnitsOfWork /\ v.own = u.own /\ v.base = u.base /\ v.rows = u.rows
      /\ v.entries = u.entries /\ v.touched = u.touched /\ v.trade = u.trade /\ v.bal = bal
  BY <1>3, <1>8 DEF UnitsOfWork
<1> HIDE DEF v
<1>10. Sound(v) /\ v.base <= Len(owned)
  BY <1>3, <1>9 DEF Sound, HoldingsSound, EntriesSound
<1>11. /\ Sound(full) /\ full.own = owned /\ full.base = Len(owned)
       /\ full.entries = v.entries /\ full.touched = v.touched /\ full.bal = v.bal
  BY <1>9, <1>10, TrackOwnedSound DEF UnitsOfWork
<1> HIDE DEF full
<1>12. ASSUME NEW w, Sound(w), Loaded(w), w.entries = <<>>, w.touched = {}, w.bal = bal,
              Goto(r, "ready", UpdateBalance(w, d))
       PROVE  SInv' /\ NoOverdraft
  <2>1. Reads(w, d.acct) /\ Reads(w, Owner) /\ Follows(w) /\ Covered(w)
    BY <1>8, <1>12, NothingYet DEF Reads
  <2>2. Follows(UpdateBalance(w, d))
    BY <1>3, <1>6, <1>12, <2>1, UpdateBalanceFollows
  <2>3. Covered(UpdateBalance(w, d))
    <3>1. d.dir \in Sales \/ Cost(d) + Ppt[d.instr] <= w.bal[d.acct]
      BY <1>5, <1>8, <1>12 DEF Payable, Sales
    <3> QED BY <1>3, <1>6, <1>12, <2>1, <3>1, UpdateBalanceCovered
  <2>4. UpdateBalance(w, d).own = w.own /\ UpdateBalance(w, d).base = w.base
    BY <1>3, <1>12, UpdateBalanceSound
  <2>5. Faithful("ready", UpdateBalance(w, d))
    BY <1>12, <2>2, <2>3, <2>4 DEF Faithful, Prepared, SameRows, Loaded
  <2> QED BY <1>1, <1>2, <1>12, <2>5, QuietSerial
<1>13. CASE d.dir = "sell" /\ Goto(r, "ready", UpdateBalance(v, d))
  <2>1. Loaded(v)
    BY <1>5, <1>9, <1>13 DEF Loaded
  <2> QED BY <1>3, <1>9, <1>10, <1>12, <1>13, <2>1
<1>14. CASE \E w \in Acquire(full, d) : Goto(r, "ready", UpdateBalance(w, d))
  <2>1. PICK w \in Acquire(full, d) : Goto(r, "ready", UpdateBalance(w, d))
    BY <1>14
  <2>2. Sound(w) /\ w.bal = bal /\ w.touched = {} /\ w.entries = <<>>
    BY <1>3, <1>9, <1>11, AcquireSound
  <2>3. Loaded(w)
    BY <1>3, <1>11, AcquireLoaded, JustLoaded
  <2> QED BY <1>12, <2>1, <2>2, <2>3
<1> QED BY <1>4, <1>13, <1>14

LEMMA EndSerial ==
  ASSUME IInv, SInv, Serial, NEW r \in Requests, Save(r) \/ SellRefuse(r) \/ Fail(r) \/ LongStart(r)
  PROVE  SInv' /\ NoOverdraft
<1>1. r \in Sessions
  BY DEF Sessions
<1>2. CASE Save(r)
  <2>1. pc[r] = "ready" /\ Commit(uow[r]) /\ Goto(r, "done", Blank)
    BY <1>2 DEF Save
  <2>2. Others(r) /\ Prepared(uow[r]) /\ Sound(uow[r]) /\ "done" \in Resting
    BY <1>1, <2>1, AtWork, SessionFacts DEF Faithful, Resting
  <2> QED BY <1>1, <2>1, <2>2, CommitSerial
<1>3. CASE SellRefuse(r) \/ Fail(r)
  <2>1. pc[r] \notin Resting /\ Goto(r, "done", Blank) /\ UNCHANGED db /\ "done" \in Resting
    BY <1>3 DEF SellRefuse, Fail, Resting, db
  <2> QED BY <1>1, <2>1, AtWork, QuietSerial
<1>4. CASE LongStart(r)
  <2>1. PICK a \in Accounts, i \in Instruments, dir \in {"longbuy", "longsell"},
             q \in Quantities, p \in Prices : CreateLong(r, a, i, dir, q, p)
    BY <1>4 DEF LongStart
  <2> DEFINE d == [acct |-> a, instr |-> i, dir |-> dir, qty |-> q, price |-> p,
                   closed |-> FALSE, happened |-> FALSE]
             new == <<d>>
             w == [Blank EXCEPT !.trade = new]
  <2>2. Begin(r) /\ Commit(w) /\ Goto(r, "done", Blank) /\ "done" \in Resting
    BY <2>1 DEF CreateLong, Resting
  <2>3. new \in Seq(Trade)
    <3>1. d \in Trade
      BY BrokerAssumption DEF Trade, Directions
    <3> HIDE DEF d
    <3> QED BY <3>1
  <2> HIDE DEF new
  <2>4. /\ w \in UnitsOfWork /\ w.entries = <<>> /\ w.touched = {} /\ w.own = <<>>
        /\ w.base = 0 /\ w.rows = {}
    BY <2>3, BlankSound DEF Sound, UnitsOfWork, Blank
  <2> HIDE DEF w
  <2>5. Sound(w) /\ Prepared(w)
    <3>1. HoldingsSound(w) /\ EntriesSound(w)
      BY <2>4 DEF HoldingsSound, EntriesSound
    <3> QED BY <2>4, <3>1, NothingYet DEF Prepared, SameRows, Sound
  <2> QED BY <1>1, <2>2, <2>5, AtWork, CommitSerial
<1> QED BY <1>2, <1>3, <1>4

-----------------------------------------------------------------------------
(* The batch                                                               *)

\* The unit of work of a batch that runs.
Runs(u) == Follows(u) /\ Covered(u) /\ Loaded(u) /\ \A a \in Accounts : Reads(u, a)

LEMMA RunsIsFaithful ==
  ASSUME NEW u, NEW label \in {"overdue", "running"}
  PROVE  Faithful(label, u) <=> Runs(u)
BY DEF Faithful, Runs, Prepared, SameRows

LEMMA TradeRuns ==
  ASSUME IInv, NEW u, Sound(u), Runs(u), NEW d \in Trade,
         d.dir \in Sales \/ Cost(d) + Ppt[d.instr] <= u.bal[d.acct]
  PROVE  LET v == UpdateBalance(u, d)
         IN  Sound(v) /\ Runs(v) /\ v.own = u.own /\ v.base = u.base
<1> DEFINE v == UpdateBalance(u, d)
<1>1. /\ history \in Seq(EntryType) /\ balance \in [Accounts -> Int]
      /\ d.acct \in Accounts /\ Owner \in Accounts
  BY BrokerAssumption DEF IInv, TypeOK, EntryType, Trade
<1>2. Sound(v) /\ v.own = u.own /\ v.base = u.base
  BY UpdateBalanceSound
<1>3. Follows(v) /\ Covered(v)
  BY <1>1, UpdateBalanceFollows, UpdateBalanceCovered DEF Runs
<1>4. /\ v.touched = u.touched \cup {d.acct, Owner}
      /\ \A a \in Accounts : a \notin {d.acct, Owner} => v.bal[a] = u.bal[a]
  BY UpdateBalanceParts
<1> HIDE DEF v
<1>5. \A a \in Accounts : Reads(v, a)
  BY <1>4 DEF Reads, Runs
<1> QED BY <1>2, <1>3, <1>5 DEF Runs, Loaded, v

\* Neither a change of holdings nor the flags of a trade touch the balances.
LEMMA SameMoneyRuns ==
  ASSUME NEW u, Runs(u), NEW v, v.bal = u.bal, v.touched = u.touched, v.entries = u.entries,
         Loaded(v)
  PROVE  Runs(v)
BY DEF Runs, Follows, Final, Covered, Sold, Reads

LEMMA CloseTradeRuns ==
  ASSUME NEW u \in UnitsOfWork, Runs(u), NEW t, NEW happened \in BOOLEAN
  PROVE  Runs(CloseTrade(u, t, happened))
<1> DEFINE v == CloseTrade(u, t, happened)
<1>1. /\ v.bal = u.bal /\ v.touched = u.touched /\ v.entries = u.entries
      /\ v.own = u.own /\ v.base = u.base
  BY DEF CloseTrade, UnitsOfWork
<1> HIDE DEF v
<1>2. Loaded(v)
  BY <1>1 DEF Runs, Loaded
<1> QED BY <1>1, <1>2, SameMoneyRuns DEF v

LEMMA HandledSerial ==
  ASSUME IInv, SInv, NEW b \in Batches, Others(b), NEW t, NEW v, Runs(v), Handled(b, t, v)
  PROVE  SInv' /\ NoOverdraft
<1>1. Goto(b, "running", v) /\ UNCHANGED db /\ b \in Sessions /\ Faithful("running", v)
  BY RunsIsFaithful DEF Handled, db, Sessions
<1> QED BY <1>1, QuietSerial

LEMMA BatchSerial ==
  ASSUME IInv, SInv, Serial, NEW b \in Batches, BatchBegin(b) \/ BatchStep(b) \/ BatchFail(b)
  PROVE  SInv' /\ NoOverdraft
<1> DEFINE u == uow[b]
<1>1. b \in Sessions /\ Sound(u) /\ u \in UnitsOfWork
  BY SessionFacts DEF Sessions
<1>2. pc[b] \in {"overdue", "running"} => Others(b) /\ Runs(u)
  BY <1>1, AtWork, RunsIsFaithful DEF Resting
<1>3. CASE BatchBegin(b)
  <2> DEFINE w == [Blank EXCEPT !.bal = balance, !.own = owned, !.base = Len(owned),
                                !.failed = Open \cap expired]
  <2>1. Begin(b) /\ Goto(b, "overdue", w) /\ UNCHANGED db
    BY <1>3 DEF BatchBegin, db
  <2>2. w.bal = balance /\ w.own = owned /\ w.base = Len(owned) /\ w.entries = <<>> /\ w.touched = {}
    BY DEF Blank
  <2> HIDE DEF w
  <2>3. Runs(w)
    BY <2>2, NothingYet, JustLoaded DEF Runs, Reads
  <2>4. Faithful("overdue", w)
    BY <2>3, RunsIsFaithful
  <2> QED BY <1>1, <2>1, <2>4, AtWork, QuietSerial
<1>4. CASE BatchSaveOverdue(b)
  <2>1. pc[b] = "overdue" /\ Goto(b, "running", u) /\ UNCHANGED db
    BY <1>4 DEF BatchSaveOverdue, db
  <2>2. Faithful("running", u)
    BY <1>2, <2>1, RunsIsFaithful
  <2> QED BY <1>1, <1>2, <2>1, <2>2, QuietSerial
<1>5. ASSUME NEW t \in todo[b], NEW low \in Prices, LongBuy(b, t, low)
      PROVE  SInv' /\ NoOverdraft
  <2> DEFINE d == trades[t]
             v == UpdateBalance(u, d)
  <2>1. pc[b] = "running" /\ d \in Trade /\ Others(b) /\ Runs(u)
    BY <1>2, <1>5, TableFacts DEF LongBuy
  <2>2. \/ Handled(b, t, u)
        \/ Handled(b, t, CloseTrade(u, t, FALSE))
        \/ /\ ~(Cost(d) + Ppt[d.instr] > u.bal[d.acct])
           /\ \E w \in Acquire(v, d) : Handled(b, t, CloseTrade(w, t, TRUE))
    BY <1>5 DEF LongBuy
  <2> HIDE DEF d, u
  <2>3. CASE Handled(b, t, u) \/ Handled(b, t, CloseTrade(u, t, FALSE))
    BY <1>1, <2>1, <2>3, CloseTradeRuns, HandledSerial
  <2>4. CASE /\ ~(Cost(d) + Ppt[d.instr] > u.bal[d.acct])
             /\ \E w \in Acquire(v, d) : Handled(b, t, CloseTrade(w, t, TRUE))
    <3>1. PICK w \in Acquire(v, d) : Handled(b, t, CloseTrade(w, t, TRUE))
      BY <2>4
    <3>2. Cost(d) + Ppt[d.instr] <= u.bal[d.acct]
      <4>1. Cost(d) \in Nat /\ Ppt[d.instr] \in Nat /\ u.bal[d.acct] \in Int
        BY <1>1, <2>1, UnitParts, BrokerAssumption DEF Cost, Trade
      <4> QED BY <2>4, <4>1
    <3>3. Sound(v) /\ Runs(v)
      BY <1>1, <2>1, <3>2, TradeRuns
    <3> HIDE DEF v
    <3>4. /\ Sound(w) /\ w.bal = v.bal /\ w.touched = v.touched /\ w.entries = v.entries
          /\ Loaded(w)
      BY <2>1, <3>3, AcquireSound, AcquireLoaded DEF Runs
    <3>5. Runs(w)
      BY <3>3, <3>4, SameMoneyRuns
    <3> QED BY <2>1, <3>1, <3>4, <3>5, CloseTradeRuns, HandledSerial DEF Sound
  <2> QED BY <2>2, <2>3, <2>4
<1>6. ASSUME NEW t \in todo[b], NEW high \in Prices, LongSell(b, t, high)
      PROVE  SInv' /\ NoOverdraft
  <2> DEFINE d == trades[t]
             v == UpdateBalance(u, d)
  <2>1. /\ pc[b] = "running" /\ d \in Trade /\ d.dir \in Sales /\ Others(b) /\ Runs(u)
    BY <1>2, <1>6, TableFacts DEF LongSell, Sales
  <2>2. \/ Handled(b, t, u)
        \/ Handled(b, t, CloseTrade(u, t, FALSE))
        \/ \E j \in RowsOf(u.own, d) : Handled(b, t, CloseTrade(ChangeOwned(v, j, -d.qty), t, TRUE))
    BY <1>6 DEF LongSell
  <2> HIDE DEF d, u
  <2>3. CASE Handled(b, t, u) \/ Handled(b, t, CloseTrade(u, t, FALSE))
    BY <1>1, <2>1, <2>3, CloseTradeRuns, HandledSerial
  <2>4. CASE \E j \in RowsOf(u.own, d) : Handled(b, t, CloseTrade(ChangeOwned(v, j, -d.qty), t, TRUE))
    <3>1. PICK j \in RowsOf(u.own, d) : Handled(b, t, CloseTrade(ChangeOwned(v, j, -d.qty), t, TRUE))
      BY <2>4
    <3> DEFINE w == ChangeOwned(v, j, -d.qty)
    <3>2. Sound(v) /\ v \in UnitsOfWork /\ Runs(v) /\ v.own = u.own
      BY <1>1, <2>1, TradeRuns DEF Sound
    <3> HIDE DEF v
    <3>3. Loaded(w)
      BY <3>1, <3>2, ChangeOwnedLoaded DEF RowsOf, Runs
    <3>4. w \in UnitsOfWork /\ w.bal = v.bal /\ w.touched = v.touched /\ w.entries = v.entries
      <4>1. j \in DOMAIN v.own /\ v.own[j] \in OwnedRow /\ -d.qty \in Int
        <5>1. v.own \in Seq(OwnedRow)
          BY <3>2, UnitParts
        <5> QED BY <2>1, <3>1, <3>2, <5>1 DEF RowsOf, Trade
      <4>2. v.own[j].qty + (-d.qty) \in Int /\ v.own[j].acct \in Accounts /\ v.own[j].instr \in Instruments
        BY <4>1 DEF OwnedRow
      <4> DEFINE row == OwnedInstrument(v.own[j].acct, v.own[j].instr, v.own[j].qty + (-d.qty))
                 own == [v.own EXCEPT ![j] = row]
                 rows == IF j <= v.base THEN v.rows \cup {j} ELSE v.rows
      <4>3. row \in OwnedRow
        BY <4>2 DEF OwnedInstrument, OwnedRow
      <4> HIDE DEF row
      <4>4. own \in Seq(OwnedRow) /\ rows \in SUBSET Nat
        BY <3>2, <4>1, <4>3, UnitParts
      <4>5. w = [v EXCEPT !.own = own, !.rows = rows]
        BY DEF ChangeOwned, row
      <4> HIDE DEF own, rows, w
      <4> QED BY <3>2, <4>4, <4>5 DEF UnitsOfWork
    <3>5. Handled(b, t, CloseTrade(w, t, TRUE))
      BY <3>1
    <3> HIDE DEF w
    <3>6. Runs(CloseTrade(w, t, TRUE))
      BY <3>2, <3>3, <3>4, SameMoneyRuns, CloseTradeRuns
    <3> QED BY <2>1, <3>5, <3>6, HandledSerial
  <2> QED BY <2>2, <2>3, <2>4
<1>7. CASE BatchCommit(b)
  <2>1. pc[b] = "running" /\ Commit(u) /\ Goto(b, "idle", Blank) /\ "idle" \in Resting
    BY <1>7 DEF BatchCommit, Resting
  <2>2. Others(b) /\ Prepared(u)
    BY <1>2, <2>1 DEF Runs, Prepared, SameRows
  <2> QED BY <1>1, <2>1, <2>2, CommitSerial
<1>8. CASE BatchFail(b)
  <2>1. /\ pc[b] \in {"overdue", "running"} /\ Goto(b, "idle", Blank) /\ UNCHANGED db
        /\ "idle" \in Resting
    BY <1>8 DEF BatchFail, Resting, db
  <2> QED BY <1>1, <1>2, <2>1, QuietSerial
<1>9. ASSUME NEW t \in todo[b], NotLong(b, t)
      PROVE  SInv' /\ NoOverdraft
  <2>1. pc[b] = "running" /\ Others(b) /\ Runs(u) /\ Handled(b, t, CloseTrade(u, t, FALSE))
    BY <1>2, <1>9 DEF NotLong
  <2> HIDE DEF u
  <2> QED BY <1>1, <2>1, CloseTradeRuns, HandledSerial
<1> QED BY <1>3, <1>4, <1>5, <1>6, <1>7, <1>8, <1>9 DEF BatchStep

-----------------------------------------------------------------------------
(* The theorems                                                            *)

LEMMA InitSerial == Init => SInv
<1> SUFFICES ASSUME Init PROVE SInv
  OBVIOUS
<1>1. Chained(history) /\ Explains(history, balance) /\ Tidy(owned)
  BY DEF Init, Chained, Explains, Explained, Tidy
<1>2. \A s \in Sessions : pc[s] \in Resting
  BY DEF Init, Resting
<1> QED BY <1>1, <1>2 DEF SInv

LEMMA NextSerial ==
  ASSUME IInv, SInv, Serial, [Next]_vars
  PROVE  SInv' /\ NoOverdraft
<1>1. CASE (\E t \in DOMAIN trades : Expire(t)) \/ UNCHANGED vars
  <2>1. UNCHANGED <<balance, history, owned, pc, uow>>
    BY <1>1 DEF Expire, vars
  <2>2. balance \in [Accounts -> Int]
    BY DEF IInv, TypeOK
  <2>3. SInv'
    BY <2>1 DEF SInv, Others, Tidy, Faithful, Prepared, Follows, Final, Covered, Sold, SameRows, Loaded,
                Reads, Payable
  <2> QED BY <2>1, <2>2, <2>3 DEF NoOverdraft
<1>2. CASE \E r \in Requests : QuickStart(r) \/ MoneyStart(r) \/ LongStart(r) \/ Finish(r) \/ Fail(r)
  BY <1>2, MoneySerial, QuickStartSerial, SellCheckSerial, ComputeSerial, EndSerial DEF Finish
<1>3. CASE \E b \in Batches : BatchBegin(b) \/ BatchStep(b) \/ BatchFail(b)
  BY <1>3, BatchSerial
<1> QED BY <1>1, <1>2, <1>3 DEF Next, Reliable, Failure

(* While sessions run one at a time, what the session at work has read is  *)
(* still so, and what it has prepared continues the history as it is.      *)
THEOREM SerialInvariance ==
  ASSUME Serial
  PROVE  Spec => [](IInv /\ SInv)
<1>1. Init => SInv
  BY InitSerial
<1>2. IInv /\ SInv /\ [Next]_vars => SInv'
  BY NextSerial
<1> QED BY <1>1, <1>2, Invariance, PTL DEF Spec

(* While sessions run one at a time, the history of every account is an    *)
(* unbroken chain from its opening balance, whatever sequence of deposits, *)
(* trades, batches and failures there is.                                  *)
THEOREM ChainsAreUnbroken ==
  ASSUME Serial
  PROVE  Spec => []ChainUnbroken
<1>1. IInv /\ SInv => ChainUnbroken
  BY ChainedIsUnbroken DEF IInv, TypeOK, SInv, EntryType
<1> QED BY <1>1, SerialInvariance, PTL

(* If the sample data has one Ownedinstruments row per account and         *)
(* instrument, so has the table for good while sessions run one at a time: *)
(* a row is added only where none has been read.                           *)
THEOREM HoldingsStayUnique ==
  ASSUME Serial, OneRow(OpeningOwned)
  PROVE  Spec => []OneRowPerHolding
<1>1. SInv => OneRowPerHolding
  BY DEF SInv, Tidy, OneRow, OneRowPerHolding
<1> QED BY <1>1, SerialInvariance, PTL

(* While sessions run one at a time only a sale overdraws: a batch that    *)
(* settles several trades of an account checks each against what the ones  *)
(* before have left.                                                       *)
THEOREM OverdraftsAreSales ==
  ASSUME Serial
  PROVE  Spec => OnlySalesOverdraw
<1>1. IInv /\ SInv /\ [Next]_vars => [NoOverdraft]_vars
  BY NextSerial
<1>2. [][NoOverdraft]_vars <=> OnlySalesOverdraw
  BY DEF NoOverdraft, OnlySalesOverdraw
<1> QED BY <1>1, <1>2, SerialInvariance, PTL DEF Spec

-----------------------------------------------------------------------------
(* One batch at a time: trades are closed once, and each is paid for once  *)

OneBatch == Serial \/ \A b, c \in Batches : b = c

\* The kinds of the three rows that a trade leaves.
Marks == {{"buy", "sell", "longbuy", "longsell"}, {"transactionfee"}, {"collectfee"}}

Tally(entries, kinds) == Cardinality({n \in DOMAIN entries : entries[n].kind \in kinds})

Happened(table) == {t \in DOMAIN table : table[t].happened}

\* What u closes is open, and so is what the batch has still to look at.
Closes(u, left) ==
  /\ u.executed \cup u.failed \subseteq Open
  /\ left \subseteq Open /\ left \cap (u.executed \cup u.failed) = {}

\* u holds three rows for each trade that it is going to execute.
Counted(label, u) ==
  IF label \in {"selling", "checked"} THEN u.trade[1].happened
  ELSE \A kinds \in Marks :
         Tally(u.entries, kinds) = Cardinality(u.executed) + Cardinality(Happened(u.trade))

\* The sample data: a trade that has happened is closed.
OpeningClosed == \A t \in DOMAIN OpeningTrades : OpeningTrades[t].happened => OpeningTrades[t].closed

Balanced ==
  /\ \A t \in DOMAIN trades : trades[t].happened => trades[t].closed
  /\ DOMAIN OpeningTrades \subseteq DOMAIN trades
  /\ \A t \in DOMAIN OpeningTrades : OpeningTrades[t].happened => trades[t].closed
  /\ \A kinds \in Marks : Tally(history, kinds) = Cardinality(Executed)

\* The part of the invariant about a batch.
Proper(b) ==
  /\ pc[b] \in {"idle", "overdue", "running"}
  /\ pc[b] = "idle" => uow[b] = Blank /\ todo[b] = {}
  /\ uow[b].trade = <<>> /\ Closes(uow[b], todo[b])
  /\ pc[b] # "idle" => \A c \in Batches \ {b} : pc[c] = "idle"

\* u closes no trade, and a trade that it adds as executed it adds closed.
Adds(u) ==
  /\ u.executed = {} /\ u.failed = {}
  /\ \A k \in DOMAIN u.trade : u.trade[k].happened => u.trade[k].closed

(* The inductive invariant: only one batch has trades to close, they are   *)
(* open, and whoever is going to execute trades has their rows.            *)
CInv ==
  /\ \A b \in Batches : Proper(b)
  /\ \A r \in Requests : Adds(uow[r])
  /\ \A s \in Sessions : Counted(pc[s], uow[s])
  /\ OpeningClosed => Balanced

\* The step leaves closed trades as they are.
KeepsClosed == \A t \in DOMAIN trades : trades[t].closed => trades'[t] = trades[t]

\* The rows of a table that are counted are finitely many.
LEMMA CountedFinite ==
  ASSUME NEW S, NEW table \in Seq(S), NEW T \in SUBSET DOMAIN table
  PROVE  IsFiniteSet(T) /\ Cardinality(T) \in Nat
<1>1. DOMAIN table = 1..Len(table) /\ Len(table) \in Int /\ 1 \in Int
  OBVIOUS
<1>2. IsFiniteSet(1..Len(table))
  BY <1>1, FS_Interval
<1>3. IsFiniteSet(T)
  BY <1>1, <1>2, FS_Subset
<1> QED BY <1>3, FS_CardinalityType

\* As many elements as before, further up.
LEMMA ShiftedCount ==
  ASSUME NEW n \in Nat, NEW S \in SUBSET Nat, IsFiniteSet(S)
  PROVE  LET T == {n + k : k \in S} IN IsFiniteSet(T) /\ Cardinality(T) = Cardinality(S)
<1> DEFINE T == {n + k : k \in S}
           f == [k \in S |-> n + k]
<1>1. f \in Bijection(S, T)
  <2>1. f \in [S -> T]
    OBVIOUS
  <2>2. \A a, b \in S : f[a] = f[b] => a = b
    OBVIOUS
  <2>3. \A t \in T : \E k \in S : f[k] = t
    OBVIOUS
  <2> QED BY <2>1, <2>2, <2>3 DEF Bijection, Injection, Surjection, IsInjective
<1> HIDE DEF f, T
<1>2. ExistsBijection(S, T)
  BY <1>1 DEF ExistsBijection
<1>3. IsFiniteSet(T) /\ Cardinality(T) = Cardinality(S)
  BY <1>2, FS_Bijection
<1> QED BY <1>3 DEF T

\* Disjoint finite sets add up.
LEMMA DisjointCount ==
  ASSUME NEW S, IsFiniteSet(S), NEW T, IsFiniteSet(T), S \cap T = {}
  PROVE  /\ IsFiniteSet(S \cup T)
         /\ Cardinality(S \cup T) = Cardinality(S) + Cardinality(T)
<1>1. Cardinality(S) \in Nat /\ Cardinality(T) \in Nat /\ Cardinality({}) = 0
  BY FS_CardinalityType, FS_EmptySet
<1>2. /\ IsFiniteSet(S \cup T)
      /\ Cardinality(S \cup T) = Cardinality(S) + Cardinality(T) - Cardinality(S \cap T)
  BY FS_Union, Zenon
<1>3. Cardinality(S \cup T) = Cardinality(S) + Cardinality(T) - 0
  BY <1>1, <1>2
<1> QED BY <1>1, <1>2, <1>3

\* The rows of a kind in two histories, one after the other.
LEMMA TallyConcat ==
  ASSUME NEW h \in Seq(EntryType), NEW e \in Seq(EntryType), NEW kinds
  PROVE  Tally(h \o e, kinds) = Tally(h, kinds) + Tally(e, kinds)
<1> DEFINE g == h \o e
           N == Len(h)
           A == {n \in DOMAIN h : h[n].kind \in kinds}
           B == {n \in DOMAIN e : e[n].kind \in kinds}
           C == {n \in DOMAIN g : g[n].kind \in kinds}
           D == {N + k : k \in B}
<1>1. /\ N \in Nat /\ DOMAIN h = 1..N /\ DOMAIN e = 1..Len(e) /\ Len(e) \in Nat
      /\ DOMAIN g = 1..(N + Len(e))
      /\ \A n \in 1..N : g[n] = h[n]
      /\ \A n \in 1..Len(e) : g[N + n] = e[n]
      /\ \A n \in DOMAIN g : n \notin 1..N => n - N \in 1..Len(e)
  BY ConcatFacts
<1>2. IsFiniteSet(A) /\ IsFiniteSet(B)
  <2>1. A \in SUBSET DOMAIN h /\ B \in SUBSET DOMAIN e
    OBVIOUS
  <2> HIDE DEF A, B
  <2> QED BY <2>1, CountedFinite
<1> HIDE DEF g, N
<1>3. C = A \cup D
  <2>1. ASSUME NEW n \in C PROVE n \in A \cup D
    <3>1. CASE n \in 1..N
      BY <1>1, <3>1
    <3>2. CASE n \notin 1..N
      <4>1. n - N \in 1..Len(e) /\ N + (n - N) = n
        BY <1>1, <3>2
      <4>2. n - N \in B
        BY <1>1, <4>1
      <4> QED BY <4>1, <4>2
    <3> QED BY <3>1, <3>2
  <2>2. ASSUME NEW n \in A PROVE n \in C
    BY <1>1
  <2>3. ASSUME NEW k \in B PROVE N + k \in C
    BY <1>1
  <2> QED BY <2>1, <2>2, <2>3
<1>4. A \cap D = {}
  BY <1>1
<1>5. IsFiniteSet(D) /\ Cardinality(D) = Cardinality(B)
  <2>1. B \in SUBSET Nat
    BY <1>1
  <2> HIDE DEF B
  <2> QED BY <1>1, <1>2, <2>1, ShiftedCount
<1> HIDE DEF A, B, C, D
<1>6. Cardinality(C) = Cardinality(A) + Cardinality(B)
  BY <1>2, <1>3, <1>4, <1>5, DisjointCount
<1> QED BY <1>6 DEF Tally, A, B, C, g

\* A trade leaves one row of each kind.
LEMMA TallyTrade ==
  ASSUME NEW u, Sound(u), NEW d \in Trade, NEW kinds \in Marks
  PROVE  /\ Tally(UpdateBalance(u, d).entries, kinds) = Tally(u.entries, kinds) + 1
         /\ Tally(u.entries, kinds) \in Nat
<1> DEFINE traded == [u.bal EXCEPT ![d.acct] = @ + Income(d)]
           charged == [traded EXCEPT ![d.acct] = @ - Ppt[d.instr]]
           e1 == Entry(d.acct, u.bal[d.acct], Income(d), d.dir)
           e2 == Entry(d.acct, traded[d.acct], -Ppt[d.instr], "transactionfee")
           e3 == Entry(Owner, charged[Owner], Ppt[d.instr], "collectfee")
           new == <<e1, e2, e3>>
           v == UpdateBalance(u, d)
           B == {n \in DOMAIN new : new[n].kind \in kinds}
<1>1. u \in UnitsOfWork /\ u.entries \in Seq(EntryType)
  BY UnitParts DEF Sound
<1>2. v.entries = u.entries \o new
  BY <1>1 DEF UpdateBalance, UnitsOfWork
<1>3. v.entries \in Seq(EntryType)
  BY UpdateBalanceSound, UnitParts DEF Sound
<1>4. e1.kind = d.dir /\ e2.kind = "transactionfee" /\ e3.kind = "collectfee" /\ d.dir \in Directions
  BY DEF Entry, Trade
<1> HIDE DEF e1, e2, e3, v
<1>5. DOMAIN new = 1..3 /\ new[1] = e1 /\ new[2] = e2 /\ new[3] = e3 /\ Len(new) = 3
  OBVIOUS
<1>6. new \in Seq(EntryType)
  <2>1. ASSUME NEW n \in 1..3 PROVE new[n] \in EntryType
    <3> DEFINE w == u.entries \o new
               N == Len(u.entries)
    <3>1. w \in Seq(EntryType) /\ N \in Nat
      BY <1>1, <1>2, <1>3
    <3>2. w[N + n] = new[n] /\ N + n \in DOMAIN w
      BY <1>1
    <3> HIDE DEF w, N
    <3> QED BY <3>1, <3>2
  <2>2. new = [n \in DOMAIN new |-> new[n]]
    BY <1>5
  <2> HIDE DEF new
  <2> QED BY <1>5, <2>1, <2>2, FunctionIsSeq
<1> HIDE DEF new
<1>7. \E n : B = {n}
  <2>1. CASE kinds = {"buy", "sell", "longbuy", "longsell"}
    <3>1. B = {1}
      BY <1>4, <1>5, <2>1 DEF Directions
    <3> QED BY <3>1
  <2>2. CASE kinds = {"transactionfee"}
    <3>1. B = {2}
      BY <1>4, <1>5, <2>2 DEF Directions
    <3> QED BY <3>1
  <2>3. CASE kinds = {"collectfee"}
    <3>1. B = {3}
      BY <1>4, <1>5, <2>3 DEF Directions
    <3> QED BY <3>1
  <2> QED BY <2>1, <2>2, <2>3 DEF Marks
<1>8. Cardinality(B) = 1
  BY <1>7, FS_Singleton
<1>9. Tally(v.entries, kinds) = Tally(u.entries, kinds) + 1
  <2>1. Tally(u.entries \o new, kinds) = Tally(u.entries, kinds) + Tally(new, kinds)
    BY <1>1, <1>6, TallyConcat
  <2>2. Tally(new, kinds) = 1
    BY <1>8 DEF Tally, B
  <2> QED BY <1>2, <2>1, <2>2
<1>10. Tally(u.entries, kinds) \in Nat
  <2> DEFINE C == {n \in DOMAIN u.entries : u.entries[n].kind \in kinds}
  <2>1. C \in SUBSET DOMAIN u.entries
    OBVIOUS
  <2> HIDE DEF C
  <2>2. Cardinality(C) \in Nat
    BY <1>1, <2>1, CountedFinite
  <2> QED BY <2>2 DEF Tally, C
<1> QED BY <1>9, <1>10 DEF v
\* No row of these kinds.
LEMMA NoneOfKind ==
  ASSUME NEW entries, NEW kinds, \A n \in DOMAIN entries : entries[n].kind \notin kinds
  PROVE  Tally(entries, kinds) = 0
<1>1. {n \in DOMAIN entries : entries[n].kind \in kinds} = {}
  OBVIOUS
<1> QED BY <1>1, FS_EmptySet DEF Tally

\* What a commit makes of the trades: flags on old ones, and new ones.
LEMMA CommitTrades ==
  ASSUME IInv, NEW u \in UnitsOfWork, Commit(u)
  PROVE  /\ Len(trades) \in Nat /\ DOMAIN trades = 1..Len(trades)
         /\ DOMAIN u.trade = 1..Len(u.trade) /\ Len(u.trade) \in Nat
         /\ DOMAIN trades' = 1..(Len(trades) + Len(u.trade))
         /\ \A t \in DOMAIN trades : t \notin u.executed \cup u.failed => trades'[t] = trades[t]
         /\ \A t \in DOMAIN trades : t \in u.executed \cup u.failed =>
              trades'[t].closed /\ (trades'[t].happened <=> t \in u.executed)
         /\ \A k \in DOMAIN u.trade : trades'[Len(trades) + k] = u.trade[k]
<1> DEFINE flag(t) == [trades[t] EXCEPT !.closed = TRUE, !.happened = t \in u.executed]
           old == [t \in DOMAIN trades |-> IF t \in u.executed \cup u.failed
                                             THEN flag(t) ELSE trades[t]]
           new == u.trade
<1>1. trades \in Seq(Trade) /\ new \in Seq(Trade)
  BY DEF IInv, TypeOK, UnitsOfWork
<1>2. ASSUME NEW t \in DOMAIN trades
      PROVE  /\ flag(t) \in Trade
             /\ flag(t).closed /\ (flag(t).happened <=> t \in u.executed)
  <2> DEFINE happened == t \in u.executed
  <2>1. trades[t] \in Trade /\ happened \in BOOLEAN
    BY <1>1
  <2>2. flag(t) = [trades[t] EXCEPT !.closed = TRUE, !.happened = happened]
    OBVIOUS
  <2> HIDE DEF flag
  <2>3. flag(t).closed = TRUE /\ flag(t).happened = happened
    <3> HIDE DEF happened
    <3> QED BY <2>1, <2>2 DEF Trade
  <2>4. flag(t) \in Trade
    <3> HIDE DEF happened
    <3> QED BY <2>1, <2>2, ClosingOK
  <2> QED BY <2>3, <2>4
<1>3. old \in Seq(Trade) /\ Len(old) = Len(trades)
  <2>1. DOMAIN trades = 1..Len(trades) /\ Len(trades) \in Nat /\ DOMAIN old = 1..Len(trades)
    BY <1>1
  <2>2. old = [t \in DOMAIN old |-> old[t]]
    OBVIOUS
  <2>3. \A t \in 1..Len(trades) : old[t] \in Trade
    <3> HIDE DEF flag
    <3> QED BY <1>1, <1>2, <2>1
  <2> HIDE DEF old
  <2> QED BY <2>1, <2>2, <2>3, FunctionIsSeq
<1>4. trades' = old \o new
  BY DEF Commit
<1>5. \A t \in DOMAIN trades :
        /\ t \notin u.executed \cup u.failed => old[t] = trades[t]
        /\ t \in u.executed \cup u.failed => old[t] = flag(t)
  OBVIOUS
<1> HIDE DEF old, new, flag
<1>6. /\ Len(old) \in Nat /\ DOMAIN old = 1..Len(old) /\ DOMAIN new = 1..Len(new) /\ Len(new) \in Nat
      /\ DOMAIN trades' = 1..(Len(old) + Len(new))
      /\ \A t \in 1..Len(old) : trades'[t] = old[t]
      /\ \A t \in 1..Len(new) : trades'[Len(old) + t] = new[t]
  BY <1>1, <1>3, <1>4, ConcatFacts
<1>7. DOMAIN trades = 1..Len(trades)
  BY <1>1
<1>8. \A t \in DOMAIN trades : trades'[t] = old[t]
  BY <1>3, <1>6, <1>7
<1>9. \A t \in DOMAIN trades : t \in u.executed \cup u.failed =>
        trades'[t].closed /\ (trades'[t].happened <=> t \in u.executed)
  BY <1>2, <1>5, <1>8
<1> QED BY <1>3, <1>5, <1>6, <1>7, <1>8, <1>9 DEF new

\* Trades that are closed stay as they are, and open ones stay there.
LEMMA CommitCloses ==
  ASSUME IInv, NEW u \in UnitsOfWork, Commit(u), u.executed \cup u.failed \subseteq Open
  PROVE  /\ KeepsClosed
         /\ u.executed \cup u.failed = {} => Open \subseteq Open'
<1>1. /\ \A t \in DOMAIN trades : t \notin u.executed \cup u.failed => trades'[t] = trades[t]
      /\ DOMAIN trades \subseteq DOMAIN trades'
  BY CommitTrades
<1> QED BY <1>1 DEF KeepsClosed, Open

\* The rows of a unit of work pay for what its commit executes.
LEMMA CommitBalanced ==
  ASSUME IInv, Balanced, NEW u \in UnitsOfWork, Commit(u), u.executed \cup u.failed \subseteq Open,
         \A k \in DOMAIN u.trade : u.trade[k].happened => u.trade[k].closed,
         \A kinds \in Marks :
           Tally(u.entries, kinds) = Cardinality(u.executed) + Cardinality(Happened(u.trade))
  PROVE  Balanced'
<1> DEFINE N == Len(trades)
           H == Happened(u.trade)
           S == {N + k : k \in H}
<1>1. /\ N \in Nat /\ DOMAIN trades = 1..N
      /\ DOMAIN u.trade = 1..Len(u.trade) /\ Len(u.trade) \in Nat
      /\ DOMAIN trades' = 1..(N + Len(u.trade))
      /\ \A t \in DOMAIN trades : t \notin u.executed \cup u.failed => trades'[t] = trades[t]
      /\ \A t \in DOMAIN trades : t \in u.executed \cup u.failed =>
           trades'[t].closed /\ (trades'[t].happened <=> t \in u.executed)
      /\ \A k \in DOMAIN u.trade : trades'[N + k] = u.trade[k]
  BY CommitTrades
<1>2. trades \in Seq(Trade) /\ u.trade \in Seq(Trade)
  BY DEF IInv, TypeOK, UnitsOfWork
<1>3. H \in SUBSET DOMAIN u.trade
  BY DEF Happened
<1>4. \A t \in DOMAIN trades' : t \notin DOMAIN trades => t - N \in DOMAIN u.trade /\ N + (t - N) = t
  BY <1>1
<1> HIDE DEF N
<1>5. \A t \in DOMAIN trades' : trades'[t].happened => trades'[t].closed
  <2> TAKE t \in DOMAIN trades'
  <2>1. CASE t \in DOMAIN trades
    BY <1>1, <2>1 DEF Balanced
  <2>2. CASE t \notin DOMAIN trades
    BY <1>1, <1>4, <2>2
  <2> QED BY <2>1, <2>2
<1>6. DOMAIN OpeningTrades \subseteq DOMAIN trades' /\ DOMAIN trades \subseteq DOMAIN trades'
  BY <1>1 DEF Balanced
<1>7. \A t \in DOMAIN OpeningTrades : OpeningTrades[t].happened => trades'[t].closed
  <2> TAKE t \in DOMAIN OpeningTrades
  <2>1. t \in DOMAIN trades /\ (OpeningTrades[t].happened => trades[t].closed)
    BY DEF Balanced
  <2> QED BY <1>1, <2>1
<1>8. u.executed \subseteq DOMAIN trades /\ Executed \subseteq DOMAIN trades
  BY DEF Open, Executed
<1>9. Executed \cap u.executed = {}
  BY DEF Balanced, Executed, Open
<1>10. Executed' = (Executed \cup u.executed) \cup S
  <2>1. ASSUME NEW t \in DOMAIN trades PROVE t \in Executed' <=> t \in Executed \cup u.executed
    <3>1. t \in DOMAIN trades' /\ (t \in Executed' <=> trades'[t].happened
                /\ ~(t \in DOMAIN OpeningTrades /\ OpeningTrades[t].happened))
      BY <1>6 DEF Executed
    <3>2. CASE t \notin u.executed \cup u.failed
      BY <1>1, <3>1, <3>2 DEF Executed
    <3>3. CASE t \in u.executed \cup u.failed
      <4>1. ~trades[t].closed
        BY <3>3 DEF Open
      <4>2. ~trades[t].happened /\ ~(t \in DOMAIN OpeningTrades /\ OpeningTrades[t].happened)
        BY <4>1 DEF Balanced
      <4> QED BY <1>1, <3>1, <3>3, <4>2 DEF Executed
    <3> QED BY <3>2, <3>3
  <2>2. ASSUME NEW t \in Executed', t \notin DOMAIN trades PROVE t \in S
    <3>1. t \in DOMAIN trades' /\ trades'[t].happened
      BY DEF Executed
    <3>2. t - N \in DOMAIN u.trade /\ N + (t - N) = t
      BY <1>4, <2>2, <3>1
    <3>3. u.trade[t - N].happened
      BY <1>1, <3>1, <3>2
    <3>4. t - N \in H
      BY <3>2, <3>3 DEF Happened
    <3> QED BY <3>2, <3>4
  <2>3. ASSUME NEW k \in H PROVE N + k \in Executed'
    <3>1. k \in DOMAIN u.trade /\ u.trade[k].happened
      BY DEF Happened
    <3>2. N + k \in DOMAIN trades' /\ N + k \notin DOMAIN trades
      BY <1>1, <3>1
    <3>3. trades'[N + k].happened
      BY <1>1, <3>1
    <3> QED BY <3>2, <3>3 DEF Executed, Balanced
  <2>4. Executed' \subseteq DOMAIN trades'
    BY DEF Executed
  <2> HIDE DEF S
  <2>5. S \subseteq Executed'
    BY <2>3 DEF S
  <2> QED BY <1>8, <2>1, <2>2, <2>5
<1>11. (Executed \cup u.executed) \cap S = {}
  BY <1>1, <1>3, <1>8
<1>12. /\ IsFiniteSet(Executed) /\ Cardinality(Executed) \in Nat
       /\ IsFiniteSet(u.executed) /\ Cardinality(u.executed) \in Nat
  BY <1>2, <1>8, CountedFinite
<1>13. IsFiniteSet(H) /\ Cardinality(H) \in Nat
  <2> HIDE DEF H
  <2> QED BY <1>2, <1>3, CountedFinite
<1>14. IsFiniteSet(S) /\ Cardinality(S) = Cardinality(H)
  <2>1. H \in SUBSET Nat
    BY <1>1, <1>3
  <2> HIDE DEF H
  <2> QED BY <1>1, <1>13, <2>1, ShiftedCount
<1> HIDE DEF S, H
<1>15. Cardinality(Executed') = Cardinality(Executed) + Cardinality(u.executed) + Cardinality(H)
  <2>1. /\ IsFiniteSet(Executed \cup u.executed)
        /\ Cardinality(Executed \cup u.executed) = Cardinality(Executed) + Cardinality(u.executed)
    BY <1>9, <1>12, DisjointCount
  <2>2. Cardinality((Executed \cup u.executed) \cup S)
          = Cardinality(Executed \cup u.executed) + Cardinality(S)
    BY <1>11, <1>14, <2>1, DisjointCount
  <2> QED BY <1>10, <1>14, <2>1, <2>2
<1>16. ASSUME NEW kinds \in Marks PROVE Tally(history', kinds) = Cardinality(Executed')
  <2>1. history \in Seq(EntryType) /\ u.entries \in Seq(EntryType) /\ history' = history \o u.entries
    BY DEF IInv, TypeOK, UnitsOfWork, EntryType, Commit
  <2>2. Tally(history', kinds) = Tally(history, kinds) + Tally(u.entries, kinds)
    BY <2>1, TallyConcat
  <2>3. Tally(history, kinds) = Cardinality(Executed)
    BY DEF Balanced
  <2>4. Tally(u.entries, kinds) = Cardinality(u.executed) + Cardinality(H)
    BY DEF H
  <2> QED BY <1>12, <1>13, <1>15, <2>2, <2>3, <2>4
<1>17. \A kinds \in Marks : Tally(history, kinds)' = Cardinality(Executed)'
  <2> TAKE kinds \in Marks
  <2>1. Tally(history, kinds)' = Tally(history', kinds)
    BY DEF Tally
  <2> QED BY <1>16, <2>1
<1> QED BY <1>5, <1>6, <1>7, <1>17 DEF Balanced

\* Where the sessions are after s has moved.
LEMMA Moved ==
  ASSUME IInv, NEW s \in Sessions, NEW label, NEW w, Goto(s, label, w)
  PROVE  \A x \in Sessions : /\ pc'[x] = IF x = s THEN label ELSE pc[x]
                             /\ uow'[x] = IF x = s THEN w ELSE uow[x]
BY DEF Goto, IInv, TypeOK

LEMMA BlankCounted ==
  ASSUME NEW label \in {"idle", "done"}
  PROVE  Counted(label, Blank) /\ Adds(Blank)
<1>1. Blank.trade = <<>> /\ Blank.entries = <<>> /\ Blank.executed = {} /\ Blank.failed = {}
  BY DEF Blank
<1>2. \A kinds : Tally(Blank.entries, kinds) = 0
  BY <1>1, NoneOfKind
<1>3. Happened(Blank.trade) = {}
  BY <1>1 DEF Happened
<1>4. Cardinality({}) = 0
  BY FS_EmptySet
<1> HIDE DEF Blank
<1>5. \A kinds \in Marks : Tally(Blank.entries, kinds) = Cardinality(Blank.executed) + Cardinality(Happened(Blank.trade))
  <2>1. Cardinality(Blank.executed) = 0 /\ Cardinality(Happened(Blank.trade)) = 0
    BY <1>1, <1>3, <1>4
  <2> QED BY <1>2, <2>1
<1>6. Adds(Blank)
  BY <1>1 DEF Adds
<1>7. Counted(label, Blank)
  BY <1>5 DEF Counted
<1> QED BY <1>6, <1>7

\* A step of s that leaves the other sessions alone.
LEMMA SessionsKept ==
  ASSUME IInv, CInv, NEW s \in Sessions, NEW label, NEW w, Goto(s, label, w),
         Counted(label, w), s \in Requests => Adds(w)
  PROVE  /\ \A r \in Requests : Adds(uow[r])'
         /\ \A x \in Sessions : Counted(pc[x], uow[x])'
<1>1. \A x \in Sessions : /\ pc'[x] = IF x = s THEN label ELSE pc[x]
                          /\ uow'[x] = IF x = s THEN w ELSE uow[x]
  BY Moved
<1>2. ASSUME NEW r \in Requests PROVE Adds(uow'[r])
  <2>1. r \in Sessions /\ Adds(uow[r])
    BY DEF CInv, Sessions
  <2> QED BY <1>1, <2>1
<1>3. ASSUME NEW x \in Sessions PROVE Counted(pc'[x], uow'[x])
  <2>1. Counted(pc[x], uow[x])
    BY DEF CInv
  <2> QED BY <1>1, <2>1
<1>4. ASSUME NEW r \in Requests PROVE Adds(uow[r])'
  BY <1>2 DEF Adds
<1>5. ASSUME NEW x \in Sessions PROVE Counted(pc[x], uow[x])'
  BY <1>3 DEF Counted, Happened, Tally
<1> QED BY <1>4, <1>5

\* While no open trade is closed a batch that does not move stays proper.
LEMMA StaysProper ==
  ASSUME NEW b \in Batches, Proper(b), pc'[b] = pc[b], uow'[b] = uow[b], todo'[b] = todo[b],
         pc[b] = "idle" \/ (Open \subseteq Open'),
         pc[b] # "idle" => \A c \in Batches \ {b} : pc'[c] = "idle"
  PROVE  Proper(b)'
<1>1. Proper(b)' <=>
        /\ pc'[b] \in {"idle", "overdue", "running"}
        /\ pc'[b] = "idle" => uow'[b] = Blank /\ todo'[b] = {}
        /\ uow'[b].trade = <<>>
        /\ uow'[b].executed \cup uow'[b].failed \subseteq Open'
        /\ todo'[b] \subseteq Open' /\ todo'[b] \cap (uow'[b].executed \cup uow'[b].failed) = {}
        /\ pc'[b] # "idle" => \A c \in Batches \ {b} : pc'[c] = "idle"
  BY DEF Proper, Closes
<1>2. Blank.executed = {} /\ Blank.failed = {}
  BY DEF Blank
<1> HIDE DEF Blank
<1> QED BY <1>1, <1>2 DEF Proper, Closes

\* What a request does keeps the batches proper.
LEMMA RequestKept ==
  ASSUME IInv, CInv, NEW r \in Requests, NEW label, NEW w, Goto(r, label, w), Adds(w),
         Counted(label, w), UNCHANGED todo, Open \subseteq Open', OpeningClosed => Balanced'
  PROVE  CInv'
<1>1. r \in Sessions /\ \A b \in Batches : b \in Sessions /\ b # r
  BY BrokerAssumption DEF Sessions
<1>2. /\ \A x \in Requests : Adds(uow[x])'
      /\ \A x \in Sessions : Counted(pc[x], uow[x])'
  BY <1>1, SessionsKept
<1>3. \A b \in Batches : pc'[b] = pc[b] /\ uow'[b] = uow[b] /\ todo'[b] = todo[b]
  BY <1>1, Moved
<1>4. ASSUME NEW b \in Batches PROVE Proper(b)'
  <2>1. Proper(b)
    BY DEF CInv
  <2>2. pc[b] # "idle" => \A c \in Batches \ {b} : pc'[c] = "idle"
    BY <1>3, <2>1 DEF Proper
  <2> QED BY <1>3, <2>1, <2>2, StaysProper
<1>5. (OpeningClosed => Balanced)'
  BY DEF OpeningClosed
<1> QED BY <1>2, <1>4, <1>5 DEF CInv

LEMMA Unwritten ==
  ASSUME CInv, UNCHANGED <<history, trades>>
  PROVE  KeepsClosed /\ Open' = Open /\ (OpeningClosed => Balanced')
<1>1. Balanced' <=> Balanced
  BY DEF Balanced, Tally, Executed
<1> QED BY <1>1 DEF KeepsClosed, Open, CInv

\* A request that only changes its unit of work.
LEMMA QuietRequest ==
  ASSUME IInv, CInv, NEW r \in Requests, NEW label, NEW w, Goto(r, label, w), Adds(w),
         Counted(label, w), UNCHANGED <<history, trades, todo>>
  PROVE  CInv' /\ KeepsClosed
BY Unwritten, RequestKept

\* A request that commits what it has prepared.
LEMMA CommitRequest ==
  ASSUME IInv, CInv, NEW r \in Requests, NEW u \in UnitsOfWork, Adds(u), Commit(u),
         \A kinds \in Marks :
           Tally(u.entries, kinds) = Cardinality(u.executed) + Cardinality(Happened(u.trade)),
         Goto(r, "done", Blank), UNCHANGED todo
  PROVE  CInv' /\ KeepsClosed
<1>1. u.executed \cup u.failed = {} /\ \A k \in DOMAIN u.trade : u.trade[k].happened => u.trade[k].closed
  BY DEF Adds
<1>2. KeepsClosed /\ Open \subseteq Open'
  BY <1>1, CommitCloses
<1>3. OpeningClosed => Balanced'
  BY <1>1, CommitBalanced DEF CInv
<1> QED BY <1>2, <1>3, BlankCounted, RequestKept

\* A batch that only changes its unit of work.
LEMMA QuietBatch ==
  ASSUME IInv, CInv, NEW b \in Batches, NEW label \in {"overdue", "running"}, NEW w, Goto(b, label, w),
         w.trade = <<>>, Closes(w, todo'[b]), Counted(label, w),
         \A c \in Batches \ {b} : pc[c] = "idle" /\ todo'[c] = todo[c],
         UNCHANGED <<history, trades>>
  PROVE  CInv' /\ KeepsClosed
<1>1. b \in Sessions /\ b \notin Requests /\ \A c \in Batches : c \in Sessions
  BY BrokerAssumption DEF Sessions
<1>2. /\ \A x \in Requests : Adds(uow[x])'
      /\ \A x \in Sessions : Counted(pc[x], uow[x])'
  BY <1>1, SessionsKept
<1>3. /\ pc'[b] = label /\ uow'[b] = w
      /\ \A c \in Batches \ {b} : pc'[c] = "idle" /\ pc'[c] = pc[c] /\ uow'[c] = uow[c]
  BY <1>1, Moved
<1>4. KeepsClosed /\ Open' = Open /\ (OpeningClosed => Balanced')
  BY Unwritten
<1>5. ASSUME NEW c \in Batches \ {b} PROVE Proper(c)'
  BY <1>3, <1>4, StaysProper DEF CInv
<1>6. Proper(b)'
  <2>1. Closes(uow[b], todo[b])'
    BY <1>3, <1>4 DEF Closes
  <2> QED BY <1>3, <2>1 DEF Proper
<1>7. (OpeningClosed => Balanced)'
  BY <1>4 DEF OpeningClosed
<1> QED BY <1>2, <1>4, <1>5, <1>6, <1>7 DEF CInv

\* A batch that ends.
LEMMA EndBatch ==
  ASSUME IInv, CInv, NEW b \in Batches, Goto(b, "idle", Blank), pc[b] # "idle", todo'[b] = {},
         \A c \in Batches \ {b} : todo'[c] = todo[c], OpeningClosed => Balanced'
  PROVE  CInv'
<1>1. b \in Sessions /\ b \notin Requests /\ \A c \in Batches : c \in Sessions
  BY BrokerAssumption DEF Sessions
<1>2. /\ \A x \in Requests : Adds(uow[x])'
      /\ \A x \in Sessions : Counted(pc[x], uow[x])'
  BY <1>1, BlankCounted, SessionsKept
<1>3. /\ pc'[b] = "idle" /\ uow'[b] = Blank
      /\ \A c \in Batches \ {b} : pc[c] = "idle" /\ pc'[c] = pc[c] /\ uow'[c] = uow[c]
  BY <1>1, Moved DEF CInv, Proper
<1>4. ASSUME NEW c \in Batches \ {b} PROVE Proper(c)'
  BY <1>3, StaysProper DEF CInv
<1>5. Proper(b)'
  <2>1. Blank.trade = <<>> /\ Blank.executed = {} /\ Blank.failed = {}
    BY DEF Blank
  <2> HIDE DEF Blank
  <2>2. Closes(uow[b], todo[b])'
    BY <1>3, <2>1 DEF Closes
  <2>3. (uow[b] = Blank)' /\ (uow[b].trade = <<>>)'
    BY <1>3, <2>1
  <2> QED BY <1>3, <2>2, <2>3 DEF Proper
<1>6. (OpeningClosed => Balanced)'
  BY DEF OpeningClosed
<1> QED BY <1>2, <1>4, <1>5, <1>6 DEF CInv

\* A deposit or a withdrawal leaves rows of other kinds.
LEMMA MoneyClosed ==
  ASSUME IInv, CInv, NEW r \in Requests, MoneyStart(r)
  PROVE  CInv' /\ KeepsClosed
<1>1. ASSUME NEW a, NEW difference, NEW kind \in {"deposit", "withdraw"}, ModifyBalance(r, a, difference, kind)
      PROVE  CInv' /\ KeepsClosed
  <2> DEFINE e == Entry(a, balance[a], difference, kind)
             w == [Blank EXCEPT !.bal[a] = balance[a] + difference, !.touched = {a},
                                !.entries = <<e>>]
  <2>1. Goto(r, "ready", w) /\ UNCHANGED <<history, trades, todo>>
    BY <1>1 DEF ModifyBalance
  <2>2. w.trade = <<>> /\ w.executed = {} /\ w.failed = {} /\ w.entries = <<e>>
    BY DEF Blank
  <2>3. e.kind = kind
    BY DEF Entry
  <2> HIDE DEF w, e
  <2>4. ASSUME NEW kinds \in Marks PROVE Tally(w.entries, kinds) = 0
    <3>1. DOMAIN w.entries = {1} /\ w.entries[1] = e
      BY <2>2
    <3>2. \A n \in DOMAIN w.entries : w.entries[n].kind \notin kinds
      BY <1>1, <2>3, <3>1 DEF Marks
    <3> QED BY <3>2, NoneOfKind
  <2>5. Happened(w.trade) = {}
    BY <2>2 DEF Happened
  <2>6. Cardinality({}) = 0
    BY FS_EmptySet
  <2>7. Adds(w)
    BY <2>2 DEF Adds
  <2>8. \A kinds \in Marks : Tally(w.entries, kinds) = Cardinality(w.executed) + Cardinality(Happened(w.trade))
    <3>1. Cardinality(w.executed) = 0 /\ Cardinality(Happened(w.trade)) = 0
      BY <2>2, <2>5, <2>6
    <3> QED BY <2>4, <3>1
  <2>9. Counted("ready", w)
    BY <2>8 DEF Counted
  <2> QED BY <2>1, <2>7, <2>9, QuietRequest
<1> QED BY <1>1 DEF MoneyStart, Deposit, Withdraw

\* A quick trade is recorded as closed and executed.
LEMMA QuickStartClosed ==
  ASSUME IInv, CInv, NEW r \in Requests, QuickStart(r)
  PROVE  CInv' /\ KeepsClosed
<1>1. PICK a \in Accounts, i \in Instruments, q \in Quantities, p \in Prices :
        BuyCheck(r, a, i, q, p) \/ SellReadBalance(r, a, i, q, p)
  BY DEF QuickStart
<1>2. ASSUME NEW dir, NEW label \in {"selling", "checked"},
             Goto(r, label, [Blank EXCEPT !.bal = Track(a), !.trade = <<QuickTrade(a, i, dir, q, p)>>]),
             UNCHANGED <<history, trades, todo>>
      PROVE  CInv' /\ KeepsClosed
  <2> DEFINE d == QuickTrade(a, i, dir, q, p)
             w == [Blank EXCEPT !.bal = Track(a), !.trade = <<d>>]
  <2>1. d.closed /\ d.happened
    BY DEF QuickTrade
  <2>2. w.trade = <<d>> /\ w.executed = {} /\ w.failed = {}
    BY DEF Blank
  <2>3. Goto(r, label, w)
    BY <1>2
  <2> HIDE DEF d, w
  <2>4. w.trade[1] = d /\ DOMAIN w.trade = {1}
    BY <2>2
  <2>5. Adds(w)
    BY <2>1, <2>2, <2>4 DEF Adds
  <2>6. Counted(label, w)
    BY <2>1, <2>4 DEF Counted
  <2> QED BY <1>2, <2>3, <2>5, <2>6, QuietRequest
<1>3. CASE BuyCheck(r, a, i, q, p)
  BY <1>2, <1>3 DEF BuyCheck
<1>4. CASE SellReadBalance(r, a, i, q, p)
  BY <1>2, <1>4 DEF SellReadBalance
<1> QED BY <1>1, <1>3, <1>4

LEMMA SellCheckClosed ==
  ASSUME IInv, CInv, NEW r \in Requests, SellCheck(r)
  PROVE  CInv' /\ KeepsClosed
<1> DEFINE u == uow[r]
           d == u.trade[1]
           v == [u EXCEPT !.own = owned, !.base = Len(owned)]
<1>1. PICK j \in RowsOf(owned, d) : Goto(r, "checked", ChangeOwned(v, j, -d.qty))
  BY DEF SellCheck
<1>2. r \in Sessions /\ u \in UnitsOfWork /\ Whole(u) /\ Adds(u)
  BY SessionFacts, UnitIsWhole DEF CInv, Sessions
<1>3. pc[r] = "selling" /\ UNCHANGED <<history, trades, todo>>
  BY DEF SellCheck
<1>4. u.trade[1].happened
  BY <1>2, <1>3 DEF CInv, Counted
<1> DEFINE w == ChangeOwned(v, j, -d.qty)
<1>5. Keeps(v, u)
  BY <1>2 DEF Whole, Keeps
<1>6. Goto(r, "checked", w)
  BY <1>1
<1> HIDE DEF u, d, v
<1>7. Keeps(w, v)
  BY <1>5, ChangeOwnedKeeps DEF Keeps
<1> HIDE DEF w
<1>8. w.trade = u.trade /\ w.executed = u.executed /\ w.failed = u.failed
  BY <1>5, <1>7 DEF Keeps
<1>9. Adds(w) /\ Counted("checked", w)
  BY <1>2, <1>4, <1>8 DEF Adds, Counted
<1> QED BY <1>3, <1>6, <1>9, QuietRequest

\* The rows of a quick trade are prepared together, for the one trade added.
LEMMA ComputeClosed ==
  ASSUME IInv, CInv, NEW r \in Requests, Compute(r)
  PROVE  CInv' /\ KeepsClosed
<1> DEFINE u == uow[r]
           d == u.trade[1]
           v == [u EXCEPT !.bal[Owner] = IF d.acct = Owner THEN @ ELSE balance[Owner]]
           full == [v EXCEPT !.own = owned, !.base = Len(owned)]
<1>1. pc[r] = "checked" /\ UNCHANGED <<history, trades, todo>>
  BY DEF Compute
<1>2. /\ r \in Sessions /\ Sound(u) /\ u \in UnitsOfWork /\ Whole(u) /\ Adds(u)
      /\ u.entries = <<>> /\ u.touched = {} /\ u.base <= Len(owned)
      /\ u.trade \in Seq(Trade) /\ Len(u.trade) = 1 /\ d \in Trade /\ d.happened
  <2>1. r \in Sessions /\ Adds(u)
    BY DEF CInv, Sessions
  <2>2. /\ Sound(u) /\ u \in UnitsOfWork
        /\ u.entries = <<>> /\ u.touched = {} /\ u.base <= Len(owned)
        /\ Len(u.trade) = 1 /\ d \in Trade
    BY <1>1, <2>1, SessionFacts
  <2>3. d.happened
    BY <1>1, <2>1 DEF CInv, Counted
  <2> HIDE DEF u, d
  <2>4. u.trade \in Seq(Trade) /\ Whole(u)
    BY <2>2, UnitIsWhole DEF UnitsOfWork
  <2> QED BY <2>1, <2>2, <2>3, <2>4
<1>3. \/ Goto(r, "ready", UpdateBalance(v, d))
      \/ \E w \in Acquire(full, d) : Goto(r, "ready", UpdateBalance(w, d))
  BY DEF Compute
<1> HIDE DEF u
<1>4. Sound(v) /\ Keeps(v, u) /\ v.entries = u.entries /\ v.base = u.base
  <2>1. Owner \in Accounts /\ balance \in [Accounts -> Int] /\ u.bal \in [Accounts -> Int]
    BY <1>2, BrokerAssumption, TableFacts DEF UnitsOfWork
  <2>2. \E x \in Int : v = [u EXCEPT !.bal[Owner] = x]
    BY <2>1
  <2>3. /\ v \in UnitsOfWork
        /\ v.own = u.own /\ v.base = u.base /\ v.rows = u.rows
        /\ v.entries = u.entries /\ v.touched = u.touched
        /\ Keeps(v, u)
    <3>1. PICK x \in Int : v = [u EXCEPT !.bal[Owner] = x]
      BY <2>2
    <3> HIDE DEF v
    <3>2. v = [u EXCEPT !.bal = [u.bal EXCEPT ![Owner] = x]] /\ [u.bal EXCEPT ![Owner] = x] \in [Accounts -> Int]
      BY <1>2, <2>1, <3>1 DEF UnitsOfWork
    <3> QED BY <1>2, <3>2 DEF UnitsOfWork, Keeps, Whole
  <2> HIDE DEF v
  <2>4. HoldingsSound(v) /\ EntriesSound(v)
    BY <1>2, <2>3 DEF Sound, HoldingsSound, EntriesSound
  <2> QED BY <2>3, <2>4 DEF Sound
<1> HIDE DEF v
<1>5. /\ Sound(full) /\ Keeps(full, v) /\ full.entries = v.entries
  <2>1. v.base <= Len(owned)
    BY <1>2, <1>4
  <2>2. Sound(full) /\ full.entries = v.entries
    BY <1>4, <2>1, TrackOwnedSound
  <2>3. Keeps(full, v)
    BY <1>4 DEF Whole, Keeps
  <2> QED BY <2>2, <2>3
<1> HIDE DEF full, d
<1>6. ASSUME NEW w, Sound(w), Whole(w), w.trade = u.trade, w.executed = {}, w.failed = {},
             w.entries = <<>>, Goto(r, "ready", UpdateBalance(w, d))
      PROVE  CInv' /\ KeepsClosed
  <2> DEFINE x == UpdateBalance(w, d)
  <2>1. Keeps(x, w)
    BY <1>6, UpdateBalanceKeeps
  <2>2. \A kinds \in Marks : /\ Tally(x.entries, kinds) = Tally(w.entries, kinds) + 1
                             /\ Tally(w.entries, kinds) \in Nat
    BY <1>2, <1>6, TallyTrade
  <2> HIDE DEF x
  <2>3. x.trade = u.trade /\ x.executed = {} /\ x.failed = {}
    BY <1>6, <2>1 DEF Keeps
  <2>4. Cardinality({}) = 0 /\ Cardinality({1}) = 1
    BY FS_EmptySet, FS_Singleton
  <2>5. \A kinds \in Marks : Tally(w.entries, kinds) = 0
    BY <1>6, NoneOfKind
  <2>6. Happened(x.trade) = {1}
    <3>1. DOMAIN u.trade = {1} /\ u.trade[1].happened
      BY <1>2 DEF d
    <3> QED BY <2>3, <3>1 DEF Happened
  <2>7. \A kinds \in Marks : Tally(x.entries, kinds) = Cardinality(x.executed) + Cardinality(Happened(x.trade))
    BY <2>2, <2>3, <2>4, <2>5, <2>6
  <2>8. Counted("ready", x)
    BY <2>7 DEF Counted
  <2>9. Adds(x)
    BY <1>2, <2>3 DEF Adds
  <2>10. Goto(r, "ready", x)
    BY <1>6 DEF x
  <2> QED BY <1>1, <2>8, <2>9, <2>10, QuietRequest
<1>7. CASE Goto(r, "ready", UpdateBalance(v, d))
  BY <1>2, <1>4, <1>6, <1>7 DEF Keeps, Adds
<1>8. CASE \E w \in Acquire(full, d) : Goto(r, "ready", UpdateBalance(w, d))
  <2>1. PICK w \in Acquire(full, d) : Goto(r, "ready", UpdateBalance(w, d))
    BY <1>8
  <2>2. Keeps(w, full)
    BY <1>5, AcquireKeeps DEF Keeps
  <2>3. Sound(w) /\ w.entries = full.entries
    BY <1>2, <1>5, AcquireSound
  <2> QED BY <1>2, <1>4, <1>5, <1>6, <2>1, <2>2, <2>3 DEF Keeps, Adds
<1> QED BY <1>3, <1>7, <1>8

LEMMA RequestEndsClosed ==
  ASSUME IInv, CInv, NEW r \in Requests, LongStart(r) \/ Save(r) \/ SellRefuse(r) \/ Fail(r)
  PROVE  CInv' /\ KeepsClosed
<1>1. CASE LongStart(r)
  <2>1. PICK a \in Accounts, i \in Instruments, dir \in {"longbuy", "longsell"},
             q \in Quantities, p \in Prices : CreateLong(r, a, i, dir, q, p)
    BY <1>1 DEF LongStart
  <2> DEFINE d == [acct |-> a, instr |-> i, dir |-> dir, qty |-> q, price |-> p,
                   closed |-> FALSE, happened |-> FALSE]
             w == [Blank EXCEPT !.trade = <<d>>]
  <2>2. d \in Trade /\ ~d.happened
    BY BrokerAssumption DEF Trade, Directions
  <2>3. Commit(w) /\ Goto(r, "done", Blank) /\ UNCHANGED todo
    BY <2>1 DEF CreateLong
  <2> HIDE DEF d
  <2>4. w.trade = <<d>> /\ w.executed = {} /\ w.failed = {} /\ w.entries = <<>>
    BY DEF Blank
  <2>5. w \in UnitsOfWork
    <3>1. Blank \in UnitsOfWork
      BY BlankSound DEF Sound
    <3>2. <<d>> \in Seq(Trade)
      BY <2>2
    <3> QED BY <3>1, <3>2 DEF UnitsOfWork
  <2> HIDE DEF w
  <2>6. DOMAIN w.trade = {1} /\ w.trade[1] = d
    BY <2>4
  <2>7. Happened(w.trade) = {}
    BY <2>2, <2>6 DEF Happened
  <2>8. \A kinds \in Marks : Tally(w.entries, kinds) = 0
    BY <2>4, NoneOfKind
  <2>9. Cardinality(w.executed) = 0 /\ Cardinality(Happened(w.trade)) = 0
    BY <2>4, <2>7, FS_EmptySet
  <2>10. Adds(w)
    BY <2>2, <2>4, <2>6 DEF Adds
  <2>11. \A kinds \in Marks : Tally(w.entries, kinds) = Cardinality(w.executed) + Cardinality(Happened(w.trade))
    BY <2>8, <2>9
  <2> QED BY <2>3, <2>5, <2>10, <2>11, CommitRequest
<1>2. CASE Save(r)
  <2> DEFINE u == uow[r]
  <2>1. pc[r] = "ready" /\ Commit(u) /\ Goto(r, "done", Blank) /\ UNCHANGED todo
    BY <1>2 DEF Save
  <2>2. r \in Sessions
    BY DEF Sessions
  <2>3. u \in UnitsOfWork /\ Adds(u) /\ Counted("ready", u)
    BY <2>1, <2>2, SessionFacts DEF CInv
  <2> HIDE DEF u
  <2>4. \A kinds \in Marks : Tally(u.entries, kinds) = Cardinality(u.executed) + Cardinality(Happened(u.trade))
    BY <2>3 DEF Counted
  <2> QED BY <2>1, <2>3, <2>4, CommitRequest
<1>3. CASE SellRefuse(r) \/ Fail(r)
  <2>1. Goto(r, "done", Blank) /\ UNCHANGED <<history, trades, todo>>
    BY <1>3 DEF SellRefuse, Fail
  <2> QED BY <2>1, BlankCounted, QuietRequest
<1> QED BY <1>1, <1>2, <1>3

\* Trade t, which is open, is closed; it is counted if it is executed.
LEMMA CloseTradeCounted ==
  ASSUME IInv, NEW v \in UnitsOfWork, NEW t, NEW left, Closes(v, left), t \in left,
         NEW happened \in BOOLEAN, v.trade = <<>>,
         \A kinds \in Marks : Tally(v.entries, kinds) = Cardinality(v.executed) + (IF happened THEN 1 ELSE 0)
  PROVE  LET w == CloseTrade(v, t, happened)
         IN  w.trade = <<>> /\ Closes(w, left \ {t}) /\ Counted("running", w)
<1> DEFINE w == CloseTrade(v, t, happened)
<1>1. /\ w.trade = <<>> /\ w.entries = v.entries
      /\ w.executed = IF happened THEN v.executed \cup {t} ELSE v.executed
      /\ w.failed = IF happened THEN v.failed ELSE v.failed \cup {t}
  BY DEF CloseTrade, UnitsOfWork
<1> HIDE DEF w
<1>2. Closes(w, left \ {t})
  BY <1>1 DEF Closes
<1>3. Happened(w.trade) = {}
  BY <1>1 DEF Happened
<1>4. Cardinality(Happened(w.trade)) = 0
  BY <1>3, FS_EmptySet
<1>5. IsFiniteSet(v.executed) /\ Cardinality(v.executed) \in Nat /\ t \notin v.executed
  <2>1. trades \in Seq(Trade) /\ v.executed \in SUBSET DOMAIN trades /\ t \notin v.executed
    BY DEF IInv, TypeOK, Closes, Open
  <2> QED BY <2>1, CountedFinite
<1>6. Cardinality(w.executed) = Cardinality(v.executed) + (IF happened THEN 1 ELSE 0)
  <2>1. CASE happened
    BY <1>1, <1>5, <2>1, FS_AddElement
  <2>2. CASE ~happened
    BY <1>1, <1>5, <2>2
  <2> QED BY <2>1, <2>2
<1>7. \A kinds \in Marks : Tally(w.entries, kinds) = Cardinality(w.executed) + Cardinality(Happened(w.trade))
  <2> TAKE kinds \in Marks
  <2>1. Tally(w.entries, kinds) = Cardinality(w.executed)
    BY <1>1, <1>6
  <2>2. Cardinality(w.executed) + 0 = Cardinality(w.executed)
    BY <1>5, <1>6
  <2> QED BY <1>4, <2>1, <2>2
<1>8. Counted("running", w)
  BY <1>7 DEF Counted
<1> QED BY <1>1, <1>2, <1>8 DEF w

LEMMA BatchClosed ==
  ASSUME IInv, CInv, OneBatch, NEW b \in Batches, BatchBegin(b) \/ BatchStep(b) \/ BatchFail(b)
  PROVE  CInv' /\ KeepsClosed
<1> DEFINE u == uow[b]
<1>1. /\ b \in Sessions /\ Sound(u) /\ u \in UnitsOfWork /\ Whole(u)
      /\ todo \in [Batches -> SUBSET DOMAIN trades] /\ DOMAIN trades \subseteq Nat
  BY SessionFacts, UnitIsWhole, TableFacts DEF Sessions
<1>2. /\ u.trade = <<>> /\ Closes(u, todo[b]) /\ Counted(pc[b], u)
      /\ pc[b] # "idle" => \A c \in Batches \ {b} : pc[c] = "idle"
  BY <1>1 DEF CInv, Proper
<1> HIDE DEF u
<1>3. pc[b] \in {"overdue", "running"} =>
        \A kinds \in Marks : Tally(u.entries, kinds) = Cardinality(u.executed) /\ Cardinality(u.executed) \in Nat
  <2>1. Happened(u.trade) = {}
    BY <1>2 DEF Happened
  <2>2. Cardinality(Happened(u.trade)) = 0
    BY <2>1, FS_EmptySet
  <2>3. Cardinality(u.executed) \in Nat
    <3>1. trades \in Seq(Trade) /\ u.executed \in SUBSET DOMAIN trades
      BY <1>2 DEF IInv, TypeOK, Closes, Open
    <3> QED BY <3>1, CountedFinite
  <2> QED BY <1>2, <2>2, <2>3 DEF Counted
<1>4. ASSUME NEW t \in todo[b], NEW v, Handled(b, t, v), pc[b] = "running",
             v.trade = <<>>, Closes(v, todo[b] \ {t}), Counted("running", v)
      PROVE  CInv' /\ KeepsClosed
  <2>1. /\ Goto(b, "running", v) /\ UNCHANGED <<history, trades>>
        /\ todo' = [todo EXCEPT ![b] = @ \ {t}]
    BY <1>4 DEF Handled
  <2>2. todo'[b] = todo[b] \ {t} /\ \A c \in Batches \ {b} : todo'[c] = todo[c]
    BY <1>1, <2>1
  <2>3. \A c \in Batches \ {b} : pc[c] = "idle"
    BY <1>2, <1>4
  <2> QED BY <1>4, <2>1, <2>2, <2>3, QuietBatch
<1>5. ASSUME NEW t \in todo[b], Handled(b, t, u), pc[b] = "running"
      PROVE  CInv' /\ KeepsClosed
  <2>1. Closes(u, todo[b] \ {t})
    BY <1>2 DEF Closes
  <2> QED BY <1>2, <1>4, <1>5, <2>1
<1>6. ASSUME NEW t \in todo[b], Handled(b, t, CloseTrade(u, t, FALSE)), pc[b] = "running"
      PROVE  CInv' /\ KeepsClosed
  <2>1. \A kinds \in Marks : Tally(u.entries, kinds) = Cardinality(u.executed) + (IF FALSE THEN 1 ELSE 0)
    BY <1>3, <1>6
  <2> DEFINE w == CloseTrade(u, t, FALSE)
  <2>2. w.trade = <<>> /\ Closes(w, todo[b] \ {t}) /\ Counted("running", w)
    BY <1>1, <1>2, <2>1, CloseTradeCounted
  <2>3. Handled(b, t, w)
    BY <1>6
  <2> HIDE DEF w
  <2> QED BY <1>4, <1>6, <2>2, <2>3
<1>7. ASSUME NEW t \in todo[b], NEW v \in UnitsOfWork, Keeps(v, u),
             v.entries = UpdateBalance(u, trades[t]).entries,
             Handled(b, t, CloseTrade(v, t, TRUE)), pc[b] = "running"
      PROVE  CInv' /\ KeepsClosed
  <2>1. trades[t] \in Trade
    BY <1>1, TableFacts
  <2>2. \A kinds \in Marks : Tally(v.entries, kinds) = Tally(u.entries, kinds) + 1
    BY <1>1, <1>7, <2>1, TallyTrade
  <2>3. v.trade = <<>> /\ v.executed = u.executed /\ v.failed = u.failed
    BY <1>2, <1>7 DEF Keeps
  <2>4. Closes(v, todo[b])
    BY <1>2, <2>3 DEF Closes
  <2>5. \A kinds \in Marks : Tally(v.entries, kinds) = Cardinality(v.executed) + (IF TRUE THEN 1 ELSE 0)
    BY <1>3, <1>7, <2>2, <2>3
  <2> DEFINE w == CloseTrade(v, t, TRUE)
  <2>6. w.trade = <<>> /\ Closes(w, todo[b] \ {t}) /\ Counted("running", w)
    BY <2>3, <2>4, <2>5, CloseTradeCounted
  <2>7. Handled(b, t, w)
    BY <1>7
  <2> HIDE DEF w
  <2> QED BY <1>4, <1>7, <2>6, <2>7
<1>8. CASE BatchBegin(b)
  <2> DEFINE w == [Blank EXCEPT !.bal = balance, !.own = owned, !.base = Len(owned),
                                !.failed = Open \cap expired]
  <2>1. /\ Begin(b) /\ Goto(b, "overdue", w) /\ UNCHANGED <<history, trades>>
        /\ todo' = [todo EXCEPT ![b] = Open \ expired]
    BY <1>8 DEF BatchBegin
  <2>2. todo'[b] = Open \ expired /\ \A c \in Batches \ {b} : todo'[c] = todo[c]
    BY <1>1, <2>1
  <2>3. \A c \in Batches \ {b} : pc[c] = "idle"
    <3>1. ASSUME NEW c \in Batches \ {b} PROVE pc[c] = "idle"
      <4>1. Serial
        BY DEF OneBatch
      <4>2. pc[c] \in {"idle", "done"}
        BY <2>1, <4>1 DEF Begin, Sessions
      <4> QED BY <4>2 DEF CInv, Proper
    <3> QED BY <3>1
  <2>4. w.trade = <<>> /\ w.executed = {} /\ w.failed = Open \cap expired /\ w.entries = <<>>
    BY DEF Blank
  <2> HIDE DEF w
  <2>5. Closes(w, todo'[b])
    BY <2>2, <2>4 DEF Closes
  <2>6. Counted("overdue", w)
    <3>1. Happened(w.trade) = {}
      BY <2>4 DEF Happened
    <3>2. Cardinality(w.executed) = 0 /\ Cardinality(Happened(w.trade)) = 0
      BY <2>4, <3>1, FS_EmptySet
    <3>3. \A kinds \in Marks : Tally(w.entries, kinds) = 0
      BY <2>4, NoneOfKind
    <3>4. \A kinds \in Marks : Tally(w.entries, kinds) = Cardinality(w.executed) + Cardinality(Happened(w.trade))
      BY <3>2, <3>3
    <3> QED BY <3>4 DEF Counted
  <2> QED BY <2>1, <2>2, <2>3, <2>4, <2>5, <2>6, QuietBatch
<1>9. CASE BatchSaveOverdue(b)
  <2>1. /\ pc[b] = "overdue" /\ Goto(b, "running", u) /\ UNCHANGED <<history, trades, todo>>
    BY <1>9 DEF BatchSaveOverdue, u
  <2>2. Counted("running", u)
    BY <1>2, <2>1 DEF Counted
  <2>3. Closes(u, todo'[b])
    BY <1>2, <2>1
  <2>4. \A c \in Batches \ {b} : pc[c] = "idle" /\ todo'[c] = todo[c]
    BY <1>2, <2>1
  <2> QED BY <1>2, <2>1, <2>2, <2>3, <2>4, QuietBatch
<1>10. ASSUME NEW t \in todo[b], NEW low \in Prices, LongBuy(b, t, low)
       PROVE  CInv' /\ KeepsClosed
  <2> DEFINE d == trades[t]
             v == UpdateBalance(u, d)
  <2>1. pc[b] = "running" /\ d \in Trade
    BY <1>1, <1>10, TableFacts DEF LongBuy
  <2>2. \/ Handled(b, t, u)
        \/ Handled(b, t, CloseTrade(u, t, FALSE))
        \/ \E w \in Acquire(v, d) : Handled(b, t, CloseTrade(w, t, TRUE))
    BY <1>10 DEF LongBuy, u
  <2>3. CASE \E w \in Acquire(v, d) : Handled(b, t, CloseTrade(w, t, TRUE))
    <3>1. PICK w \in Acquire(v, d) : Handled(b, t, CloseTrade(w, t, TRUE))
      BY <2>3
    <3> HIDE DEF d
    <3>2. Sound(v) /\ Keeps(v, u)
      BY <1>1, <2>1, UpdateBalanceSound, UpdateBalanceKeeps
    <3> HIDE DEF v
    <3>3. Sound(w) /\ w.entries = v.entries
      BY <2>1, <3>1, <3>2, AcquireSound
    <3>4. Keeps(w, v)
      BY <3>1, <3>2, AcquireKeeps DEF Keeps
    <3>5. w \in UnitsOfWork /\ Keeps(w, u) /\ w.entries = UpdateBalance(u, trades[t]).entries
      BY <3>2, <3>3, <3>4 DEF Sound, Keeps, v, d
    <3> QED BY <1>7, <2>1, <3>1, <3>5
  <2> QED BY <1>5, <1>6, <2>1, <2>2, <2>3
<1>11. ASSUME NEW t \in todo[b], NEW high \in Prices, LongSell(b, t, high)
       PROVE  CInv' /\ KeepsClosed
  <2> DEFINE d == trades[t]
             v == UpdateBalance(u, d)
  <2>1. pc[b] = "running" /\ d \in Trade
    BY <1>1, <1>11, TableFacts DEF LongSell
  <2>2. \/ Handled(b, t, u)
        \/ Handled(b, t, CloseTrade(u, t, FALSE))
        \/ \E j \in RowsOf(u.own, d) : /\ u.own[j].qty >= d.qty
                                       /\ Handled(b, t, CloseTrade(ChangeOwned(v, j, -d.qty), t, TRUE))
    BY <1>11 DEF LongSell, u
  <2>3. CASE \E j \in RowsOf(u.own, d) : /\ u.own[j].qty >= d.qty
                                         /\ Handled(b, t, CloseTrade(ChangeOwned(v, j, -d.qty), t, TRUE))
    <3>1. PICK j \in RowsOf(u.own, d) : /\ u.own[j].qty >= d.qty
                                        /\ Handled(b, t, CloseTrade(ChangeOwned(v, j, -d.qty), t, TRUE))
      BY <2>3
    <3> HIDE DEF d
    <3>2. Sound(v) /\ Keeps(v, u) /\ v.own = u.own
      BY <1>1, <2>1, UpdateBalanceSound, UpdateBalanceKeeps
    <3> DEFINE w == ChangeOwned(v, j, -d.qty)
    <3> HIDE DEF v
    <3>3. w.entries = v.entries /\ Keeps(w, v)
      <4>1. w.entries = v.entries
        BY <3>2 DEF ChangeOwned, Sound, UnitsOfWork
      <4>2. Whole(v)
        BY <3>2 DEF Keeps
      <4> HIDE DEF w
      <4> QED BY <4>1, <4>2, ChangeOwnedKeeps DEF w
    <3>4. Sound(w)
      <4>1. j \in DOMAIN v.own /\ -d.qty \in Int /\ v.own[j].qty + (-d.qty) >= 0
        <5>1. v.own \in Seq(OwnedRow) /\ j \in DOMAIN v.own
          BY <3>1, <3>2, UnitParts DEF RowsOf, Sound
        <5>2. v.own[j].qty \in Int
          <6>1. v.own[j] \in OwnedRow
            BY <5>1
          <6> QED BY <6>1 DEF OwnedRow
        <5>3. d.qty \in Nat /\ v.own[j].qty >= d.qty
          BY <2>1, <3>1, <3>2 DEF Trade
        <5> DEFINE held == v.own[j].qty
                   sold == d.qty
        <5> HIDE DEF held, sold
        <5>4. held \in Int /\ sold \in Nat /\ held >= sold
          BY <5>2, <5>3 DEF held, sold
        <5>5. -sold \in Int /\ held + (-sold) >= 0
          BY <5>4
        <5> QED BY <5>1, <5>5 DEF held, sold
      <4> QED BY <3>2, <4>1, ChangeOwnedSound
    <3>5. Handled(b, t, CloseTrade(w, t, TRUE))
      BY <3>1
    <3> HIDE DEF w
    <3>6. w \in UnitsOfWork /\ Keeps(w, u) /\ w.entries = UpdateBalance(u, trades[t]).entries
      BY <3>2, <3>3, <3>4 DEF Sound, Keeps, v, d
    <3> QED BY <1>7, <2>1, <3>5, <3>6
  <2> QED BY <1>5, <1>6, <2>1, <2>2, <2>3
<1>12. CASE BatchCommit(b)
  <2>1. /\ pc[b] = "running" /\ Commit(u) /\ Goto(b, "idle", Blank) /\ todo[b] = {} /\ UNCHANGED todo
    BY <1>12 DEF BatchCommit, u
  <2>2. u.executed \cup u.failed \subseteq Open
    BY <1>2 DEF Closes
  <2>3. KeepsClosed
    BY <1>1, <2>1, <2>2, CommitCloses
  <2>4. \A kinds \in Marks : Tally(u.entries, kinds) = Cardinality(u.executed) + Cardinality(Happened(u.trade))
    BY <1>2, <2>1 DEF Counted
  <2>5. \A k \in DOMAIN u.trade : u.trade[k].happened => u.trade[k].closed
    BY <1>2
  <2>6. OpeningClosed => Balanced'
    BY <1>1, <2>1, <2>2, <2>4, <2>5, CommitBalanced DEF CInv
  <2> QED BY <2>1, <2>3, <2>6, EndBatch
<1>13. CASE BatchFail(b)
  <2>1. /\ pc[b] # "idle" /\ Goto(b, "idle", Blank) /\ UNCHANGED <<history, trades>>
        /\ todo' = [todo EXCEPT ![b] = {}]
    BY <1>13 DEF BatchFail
  <2>2. todo'[b] = {} /\ \A c \in Batches \ {b} : todo'[c] = todo[c]
    BY <1>1, <2>1
  <2>3. KeepsClosed /\ (OpeningClosed => Balanced')
    BY <2>1, Unwritten
  <2> QED BY <2>1, <2>2, <2>3, EndBatch
<1>14. ASSUME NEW t \in todo[b], NotLong(b, t)
       PROVE  CInv' /\ KeepsClosed
  <2>1. pc[b] = "running" /\ Handled(b, t, CloseTrade(u, t, FALSE))
    BY <1>14 DEF NotLong, u
  <2> QED BY <1>6, <2>1
<1> QED BY <1>8, <1>9, <1>10, <1>11, <1>12, <1>13, <1>14 DEF BatchStep

LEMMA InitClosed == Init => CInv
<1> SUFFICES ASSUME Init PROVE CInv
  OBVIOUS
<1>1. \A s \in Sessions : pc[s] = "idle" /\ uow[s] = Blank
  BY DEF Init
<1>2. Requests \subseteq Sessions /\ Batches \subseteq Sessions
  BY DEF Sessions
<1>3. ASSUME NEW b \in Batches PROVE Proper(b)
  <2>1. pc[b] = "idle" /\ uow[b] = Blank /\ todo[b] = {}
    BY <1>1, <1>2 DEF Init
  <2>2. Blank.trade = <<>> /\ Blank.executed = {} /\ Blank.failed = {}
    BY DEF Blank
  <2> QED BY <2>1, <2>2 DEF Proper, Closes
<1>4. \A r \in Requests : Adds(uow[r])
  BY <1>1, <1>2, BlankCounted
<1>5. \A s \in Sessions : Counted(pc[s], uow[s])
  BY <1>1, BlankCounted
<1>6. OpeningClosed => Balanced
  <2>1. trades = OpeningTrades /\ history = <<>>
    BY DEF Init
  <2>2. Executed = {}
    BY <2>1 DEF Executed
  <2>3. \A kinds \in Marks : Tally(history, kinds) = 0
    BY <2>1, NoneOfKind
  <2>4. Cardinality(Executed) = 0
    BY <2>2, FS_EmptySet
  <2> QED BY <2>1, <2>3, <2>4 DEF Balanced, OpeningClosed
<1> QED BY <1>3, <1>4, <1>5, <1>6 DEF CInv

LEMMA NextClosed ==
  ASSUME IInv, CInv, OneBatch, [Next]_vars
  PROVE  CInv' /\ KeepsClosed
<1>1. CASE (\E t \in DOMAIN trades : Expire(t)) \/ UNCHANGED vars
  <2>1. UNCHANGED <<history, trades, pc, uow, todo>>
    BY <1>1 DEF Expire, vars
  <2>2. KeepsClosed /\ Open' = Open /\ (OpeningClosed => Balanced')
    BY <2>1, Unwritten
  <2>3. \A b \in Batches : Proper(b)'
    BY <2>1, <2>2, StaysProper DEF CInv, Proper
  <2>4. \A r \in Requests : Adds(uow[r])'
    BY <2>1 DEF CInv, Adds
  <2>5. \A s \in Sessions : Counted(pc[s], uow[s])'
    BY <2>1 DEF CInv, Counted, Tally, Happened
  <2>6. (OpeningClosed => Balanced)'
    BY <2>2 DEF OpeningClosed
  <2> QED BY <2>2, <2>3, <2>4, <2>5, <2>6 DEF CInv
<1>2. CASE \E r \in Requests : QuickStart(r) \/ MoneyStart(r) \/ LongStart(r) \/ Finish(r) \/ Fail(r)
  BY <1>2, MoneyClosed, QuickStartClosed, SellCheckClosed, ComputeClosed, RequestEndsClosed DEF Finish
<1>3. CASE \E b \in Batches : BatchBegin(b) \/ BatchStep(b) \/ BatchFail(b)
  BY <1>3, BatchClosed
<1> QED BY <1>1, <1>2, <1>3 DEF Next, Reliable, Failure

(* With one batch at a time, what a batch is about to close is open, and   *)
(* every unit of work has the rows of the trades it is about to execute.   *)
THEOREM ClosingInvariance ==
  ASSUME OneBatch
  PROVE  Spec => [](IInv /\ CInv)
<1>1. Init => CInv
  BY InitClosed
<1>2. IInv /\ CInv /\ [Next]_vars => CInv'
  BY NextClosed
<1> QED BY <1>1, <1>2, Invariance, PTL DEF Spec

(* However requests interleave with the batch, a trade that is closed is   *)
(* never written again while no two batches overlap.                       *)
THEOREM ClosedTradesStayClosed ==
  ASSUME OneBatch
  PROVE  Spec => ClosedForGood
<1>1. IInv /\ CInv /\ [Next]_vars => [KeepsClosed]_vars
  BY NextClosed
<1>2. [][KeepsClosed]_vars <=> ClosedForGood
  BY DEF KeepsClosed, ClosedForGood
<1> QED BY <1>1, <1>2, ClosingInvariance, PTL DEF Spec

(* The books balance: however requests interleave with the batch, there    *)
(* are as many movements, fees charged and fees collected in the history   *)
(* as there are executed trades.                                           *)
THEOREM TradesArePaidOnce ==
  ASSUME OneBatch, OpeningClosed
  PROVE  Spec => []ThreeEntriesPerTrade
<1>1. CInv => ThreeEntriesPerTrade
  <2> SUFFICES ASSUME CInv PROVE ThreeEntriesPerTrade
    OBVIOUS
  <2>1. \A kinds \in Marks : Tally(history, kinds) = Cardinality(Executed)
    BY DEF CInv, Balanced
  <2>2. \A kinds \in Marks : Cardinality(OfKind(kinds)) = Cardinality(Executed)
    BY <2>1 DEF Tally, OfKind
  <2> QED BY <2>2 DEF Marks, ThreeEntriesPerTrade
<1> QED BY <1>1, ClosingInvariance, PTL
=============================================================================
