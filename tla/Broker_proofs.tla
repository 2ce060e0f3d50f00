---------------------------- MODULE Broker_proofs ----------------------------
(***************************************************************************)
(* Proofs that TypeOK, NoNegativeHolding and LastEntryMatchesBalance hold  *)
(* for any accounts, requests, overlapping batches and amounts.            *)
(***************************************************************************)
EXTENDS Broker, SequenceTheorems, TLAPS

EntryType == [acct : Accounts, old : Int, change : Int, kind : Kinds]

(* A unit of work that is well typed and sound.                            *)
Sound(u) == u \in UnitsOfWork /\ HoldingsSound(u) /\ EntriesSound(u)

-----------------------------------------------------------------------------
(* The operators a unit of work is built with                              *)

(* The empty unit of work is sound.                                        *)
LEMMA BlankSound == Sound(Blank)
  BY BrokerAssumption DEF Sound, Blank, UnitsOfWork, HoldingsSound, EntriesSound

(* Changing a tracked row keeps a unit of work sound when the row stays    *)
(* nonnegative.                                                            *)
LEMMA ChangeOwnedSound ==
  ASSUME NEW u, Sound(u), NEW j \in DOMAIN u.own, NEW amount \in Int,
         u.own[j].qty + amount >= 0
  PROVE  LET v == ChangeOwned(u, j, amount)
         IN  /\ Sound(v) /\ v.base = u.base /\ v.trade = u.trade
             /\ v.bal = u.bal /\ v.touched = u.touched /\ v.entries = u.entries
<1> DEFINE row == OwnedInstrument(u.own[j].acct, u.own[j].instr, u.own[j].qty + amount)
           own == [u.own EXCEPT ![j] = row]
           rows == IF j <= u.base THEN u.rows \cup {j} ELSE u.rows
           v == [u EXCEPT !.own = own, !.rows = rows]
<1>1. /\ u \in UnitsOfWork /\ u.own \in Seq(OwnedRow) /\ u.rows \in SUBSET Nat
      /\ u.base \in Nat
  BY DEF Sound, UnitsOfWork
<1>a. u.own[j] \in OwnedRow
  BY <1>1
<1>2. row \in OwnedRow /\ row.qty = u.own[j].qty + amount
  BY <1>a DEF OwnedInstrument, OwnedRow
<1> HIDE DEF row
<1>3. own \in Seq(OwnedRow) /\ rows \in SUBSET Nat /\ Len(own) = Len(u.own)
  BY <1>1, <1>2
<1>4. \A k \in DOMAIN own : own[k].qty >= 0
  BY <1>1, <1>2 DEF Sound, HoldingsSound
<1>5. rows \subseteq 1..u.base
  BY <1>1 DEF Sound, HoldingsSound
<1> HIDE DEF own, rows
<1>6. /\ v \in UnitsOfWork
      /\ v.own = own /\ v.rows = rows /\ v.base = u.base
      /\ v.bal = u.bal /\ v.touched = u.touched /\ v.entries = u.entries
      /\ v.trade = u.trade
  BY <1>1, <1>3 DEF UnitsOfWork
<1>7. v = ChangeOwned(u, j, amount)
  BY DEF ChangeOwned, own, rows, row
<1> HIDE DEF v
<1>8. HoldingsSound(v)
  BY <1>1, <1>3, <1>4, <1>5, <1>6 DEF Sound, HoldingsSound
<1>9. EntriesSound(v)
  BY <1>6 DEF Sound, EntriesSound
<1> QED
  BY <1>6, <1>7, <1>8, <1>9 DEF Sound

(* Adding a row for the quantity of a trade keeps it sound.                *)
LEMMA AddOwnedSound ==
  ASSUME NEW u, Sound(u), NEW d \in Trade
  PROVE  LET v == AddOwned(u, d)
         IN  /\ Sound(v) /\ v.base = u.base /\ v.trade = u.trade
             /\ v.bal = u.bal /\ v.touched = u.touched /\ v.entries = u.entries
<1> DEFINE row == OwnedInstrument(d.acct, d.instr, d.qty)
           own == Append(u.own, row)
           v == [u EXCEPT !.own = own]
<1>1. /\ u \in UnitsOfWork /\ u.own \in Seq(OwnedRow)
      /\ u.base \in Nat /\ u.rows \in SUBSET Nat
  BY DEF Sound, UnitsOfWork
<1>2. row \in OwnedRow /\ row.qty >= 0
  BY DEF OwnedInstrument, OwnedRow, Trade
<1> HIDE DEF row
<1>3. own \in Seq(OwnedRow) /\ Len(own) >= Len(u.own)
  BY <1>1, <1>2
<1>4. \A k \in DOMAIN own : own[k].qty >= 0
  BY <1>1, <1>2 DEF Sound, HoldingsSound
<1> HIDE DEF own
<1>5. /\ v \in UnitsOfWork
      /\ v.own = own /\ v.rows = u.rows /\ v.base = u.base
      /\ v.bal = u.bal /\ v.touched = u.touched /\ v.entries = u.entries
      /\ v.trade = u.trade
  BY <1>1, <1>3 DEF UnitsOfWork
<1>6. v = AddOwned(u, d)
  BY DEF AddOwned, own, row
<1> HIDE DEF v
<1>7. HoldingsSound(v)
  BY <1>1, <1>3, <1>4, <1>5 DEF Sound, HoldingsSound
<1>8. EntriesSound(v)
  BY <1>5 DEF Sound, EntriesSound
<1> QED
  BY <1>5, <1>6, <1>7, <1>8 DEF Sound

(* Whatever row UpdateOwnedInstrument picks or adds, the result is sound.  *)
LEMMA AcquireSound ==
  ASSUME NEW u, Sound(u), NEW d \in Trade, NEW v \in Acquire(u, d)
  PROVE  /\ Sound(v) /\ v.base = u.base /\ v.trade = u.trade
         /\ v.bal = u.bal /\ v.touched = u.touched /\ v.entries = u.entries
<1>1. CASE RowsOf(u.own, d) = {}
  BY <1>1, AddOwnedSound DEF Acquire
<1>2. CASE RowsOf(u.own, d) # {}
  <2>1. PICK j \in RowsOf(u.own, d) : v = ChangeOwned(u, j, d.qty)
    BY <1>2 DEF Acquire
  <2>2. j \in DOMAIN u.own
    BY DEF RowsOf
  <2>3. u.own[j].qty \in Int /\ u.own[j].qty >= 0 /\ d.qty \in Nat
    <3>1. u.own \in Seq(OwnedRow)
      BY DEF Sound, UnitsOfWork
    <3>2. u.own[j] \in OwnedRow
      BY <2>2, <3>1
    <3> QED BY <2>2, <3>2 DEF Sound, HoldingsSound, OwnedRow, Trade
  <2> QED
    BY <2>1, <2>2, <2>3, ChangeOwnedSound
<1> QED
  BY <1>1, <1>2

(* Closing a trade changes neither balances nor holdings.                  *)
LEMMA CloseTradeSound ==
  ASSUME NEW u, Sound(u), NEW t \in Nat, NEW happened \in BOOLEAN
  PROVE  LET v == CloseTrade(u, t, happened)
         IN  Sound(v) /\ v.base = u.base
<1> DEFINE v == CloseTrade(u, t, happened)
<1>1. /\ v \in UnitsOfWork
      /\ v.own = u.own /\ v.rows = u.rows /\ v.base = u.base
      /\ v.bal = u.bal /\ v.touched = u.touched /\ v.entries = u.entries
  BY DEF Sound, UnitsOfWork, CloseTrade
<1> HIDE DEF v
<1>2. HoldingsSound(v) /\ EntriesSound(v)
  BY <1>1 DEF Sound, HoldingsSound, EntriesSound
<1> QED
  BY <1>1, <1>2 DEF Sound, v

(* The type and the fields of a history row.                               *)
LEMMA EntryFields ==
  ASSUME NEW a \in Accounts, NEW old \in Int, NEW change \in Int, NEW kind \in Kinds
  PROVE  LET e == Entry(a, old, change, kind)
         IN  e \in EntryType /\ e.acct = a /\ e.old = old /\ e.change = change
  BY DEF Entry, EntryType

(* UpdateBalance and CollectFee explain the two balances they change, also *)
(* when the account is the owner's own.                                    *)
LEMMA UpdateBalanceSound ==
  ASSUME NEW u, Sound(u), NEW d \in Trade
  PROVE  LET v == UpdateBalance(u, d)
         IN  Sound(v) /\ v.own = u.own /\ v.base = u.base /\ v.trade = u.trade
<1> DEFINE income == Income(d)
           fee == Ppt[d.instr]
           traded == [u.bal EXCEPT ![d.acct] = @ + income]
           charged == [traded EXCEPT ![d.acct] = @ - fee]
           credited == [charged EXCEPT ![Owner] = @ + fee]
           e1 == Entry(d.acct, u.bal[d.acct], income, d.dir)
           e2 == Entry(d.acct, traded[d.acct], -fee, "transactionfee")
           e3 == Entry(Owner, charged[Owner], fee, "collectfee")
           touched == u.touched \cup {d.acct, Owner}
           entries == u.entries \o <<e1, e2, e3>>
           v == [u EXCEPT !.bal = credited, !.touched = touched, !.entries = entries]
           N == Len(u.entries)
<1>1. /\ u \in UnitsOfWork /\ u.bal \in [Accounts -> Int]
      /\ u.touched \in SUBSET Accounts /\ u.entries \in Seq(EntryType)
  BY DEF Sound, UnitsOfWork, EntryType
<1>2. d.acct \in Accounts /\ Owner \in Accounts /\ d.dir \in Kinds /\ fee \in Nat
  BY BrokerAssumption DEF Trade, Kinds
<1>3. income \in Int
  <2>1. Cost(d) \in Nat
    BY DEF Cost, Trade
  <2> QED BY <2>1 DEF Income
<1> HIDE DEF income, fee
<1>4. /\ traded \in [Accounts -> Int] /\ charged \in [Accounts -> Int]
      /\ credited \in [Accounts -> Int]
  BY <1>1, <1>2, <1>3
<1>5. /\ traded[d.acct] - fee = charged[d.acct]
      /\ charged[Owner] + fee = credited[Owner]
      /\ d.acct # Owner => credited[d.acct] = charged[d.acct]
      /\ \A a \in Accounts \ {d.acct, Owner} : credited[a] = u.bal[a]
  BY <1>1, <1>2, <1>3
<1>6. u.bal[d.acct] \in Int /\ traded[d.acct] \in Int /\ charged[Owner] \in Int
  BY <1>1, <1>2, <1>4
<1> HIDE DEF traded, charged, credited
<1>7. /\ e1 \in EntryType /\ e2 \in EntryType /\ e3 \in EntryType
      /\ e1.acct = d.acct /\ e2.acct = d.acct /\ e3.acct = Owner
      /\ e2.old = traded[d.acct] /\ e2.change = -fee
      /\ e3.old = charged[Owner] /\ e3.change = fee
  <2>1. e1 \in EntryType /\ e1.acct = d.acct
    BY <1>2, <1>3, <1>6, EntryFields
  <2>2. /\ e2 \in EntryType /\ e2.acct = d.acct
        /\ e2.old = traded[d.acct] /\ e2.change = -fee
    <3>1. -fee \in Int
      BY <1>2
    <3>2. "transactionfee" \in Kinds
      BY DEF Kinds
    <3> QED BY <3>1, <3>2, <1>2, <1>6, EntryFields
  <2>3. /\ e3 \in EntryType /\ e3.acct = Owner
        /\ e3.old = charged[Owner] /\ e3.change = fee
    <3>1. fee \in Int
      BY <1>2
    <3>2. "collectfee" \in Kinds
      BY DEF Kinds
    <3> QED BY <3>1, <3>2, <1>2, <1>6, EntryFields
  <2> QED BY <2>1, <2>2, <2>3
<1> HIDE DEF e1, e2, e3
<1>8. /\ entries \in Seq(EntryType) /\ Len(entries) = N + 3 /\ N \in Nat
      /\ \A n \in 1..N : entries[n] = u.entries[n]
      /\ entries[N + 1] = e1 /\ entries[N + 2] = e2 /\ entries[N + 3] = e3
  BY <1>1, <1>7
<1> HIDE DEF entries
<1>9. touched \in SUBSET Accounts
  BY <1>1, <1>2
<1>10. /\ v \in UnitsOfWork
       /\ v.bal = credited /\ v.touched = touched /\ v.entries = entries
       /\ v.own = u.own /\ v.rows = u.rows /\ v.base = u.base /\ v.trade = u.trade
  BY <1>1, <1>4, <1>8, <1>9 DEF UnitsOfWork, EntryType
<1>11. v = UpdateBalance(u, d)
  BY DEF UpdateBalance, entries, e1, e2, e3, credited, charged, traded, income, fee
<1> HIDE DEF v, N
<1>12. HoldingsSound(v)
  BY <1>10 DEF Sound, HoldingsSound
<1>13. EntriesSound(v)
  <2>1. DOMAIN entries = 1..(N + 3) /\ DOMAIN u.entries = 1..N
    BY <1>1, <1>8 DEF N
  <2>2. \A n \in DOMAIN entries : entries[n].acct \in touched
    <3> TAKE n \in DOMAIN entries
    <3>1. CASE n \in 1..N
      BY <1>8, <2>1, <3>1 DEF Sound, EntriesSound
    <3>2. CASE n \notin 1..N
      <4>1. n = N + 1 \/ n = N + 2 \/ n = N + 3
        BY <1>8, <2>1, <3>2
      <4> QED BY <4>1, <1>7, <1>8
    <3> QED BY <3>1, <3>2
  <2>3. \A a \in touched : \E n \in DOMAIN entries : entries[n].acct = a
    <3> TAKE a \in touched
    <3>1. CASE a \in u.touched
      <4>1. PICK n \in DOMAIN u.entries : u.entries[n].acct = a
        BY <3>1 DEF Sound, EntriesSound
      <4> QED BY <4>1, <2>1, <1>8
    <3>2. CASE a = d.acct
      BY <3>2, <1>7, <1>8, <2>1
    <3>3. CASE a = Owner
      BY <3>3, <1>7, <1>8, <2>1
    <3> QED BY <3>1, <3>2, <3>3
  <2>4. ASSUME NEW n \in DOMAIN entries,
               \A m \in DOMAIN entries : m > n => entries[m].acct # entries[n].acct
        PROVE  credited[entries[n].acct] = entries[n].old + entries[n].change
    <3>1. CASE n = N + 3
      BY <3>1, <1>2, <1>4, <1>5, <1>6, <1>7, <1>8
    <3>2. CASE n = N + 2
      <4>1. N + 3 \in DOMAIN entries /\ N + 3 > n
        BY <3>2, <2>1, <1>8
      <4>2. d.acct # Owner
        BY <4>1, <2>4, <3>2, <1>7, <1>8
      <4> QED BY <3>2, <4>2, <1>2, <1>4, <1>5, <1>6, <1>7, <1>8
    <3>3. CASE n = N + 1
      BY <3>3, <2>4, <2>1, <1>7, <1>8
    <3>4. CASE n \in 1..N
      <4>1. N + 2 \in DOMAIN entries /\ N + 3 \in DOMAIN entries
            /\ N + 2 > n /\ N + 3 > n
        BY <3>4, <2>1, <1>8
      <4>2. u.entries[n].acct \notin {d.acct, Owner}
        BY <4>1, <2>4, <3>4, <1>7, <1>8
      <4>3. \A m \in DOMAIN u.entries : m > n => u.entries[m].acct # u.entries[n].acct
        BY <2>1, <2>4, <3>4, <1>8
      <4>4. u.bal[u.entries[n].acct] = u.entries[n].old + u.entries[n].change
        BY <4>3, <3>4, <2>1 DEF Sound, EntriesSound
      <4>5. u.entries[n].acct \in Accounts
        BY <3>4, <2>1, <1>1 DEF Sound, EntriesSound
      <4> QED BY <4>2, <4>4, <4>5, <1>5, <1>8, <3>4
    <3> QED BY <2>1, <1>8, <3>1, <3>2, <3>3, <3>4
  <2> QED
    BY <1>10, <2>2, <2>3, <2>4 DEF EntriesSound
<1> QED
  BY <1>10, <1>11, <1>12, <1>13 DEF Sound

-----------------------------------------------------------------------------
(* Commit and Goto, the two ways a step changes the state                  *)

IInv == TypeOK /\ NoNegativeHolding /\ LastEntryMatchesBalance /\ UnitsSound

Labels == {"idle", "selling", "checked", "ready", "done", "overdue", "running"}

(* The part of the invariant about the tables.                             *)
TablesOK ==
  /\ balance \in [Accounts -> Int]
  /\ history \in Seq(EntryType)
  /\ owned \in Seq(OwnedRow)
  /\ trades \in Seq(Trade)
  /\ NoNegativeHolding /\ LastEntryMatchesBalance

(* Where the elements of a concatenation come from.                        *)
LEMMA ConcatFacts ==
  ASSUME NEW S, NEW s \in Seq(S), NEW t \in Seq(S), NEW w, w = s \o t
  PROVE  /\ w \in Seq(S) /\ Len(w) = Len(s) + Len(t)
         /\ Len(s) \in Nat /\ Len(t) \in Nat
         /\ DOMAIN s = 1..Len(s) /\ DOMAIN t = 1..Len(t)
         /\ DOMAIN w = 1..(Len(s) + Len(t))
         /\ \A n \in 1..Len(s) : w[n] = s[n]
         /\ \A n \in 1..Len(t) : w[Len(s) + n] = t[n]
         /\ \A n \in DOMAIN w : n \notin 1..Len(s) => n - Len(s) \in 1..Len(t)
<1>1. /\ w \in Seq(S) /\ Len(w) = Len(s) + Len(t)
      /\ Len(s) \in Nat /\ Len(t) \in Nat
      /\ DOMAIN s = 1..Len(s) /\ DOMAIN t = 1..Len(t) /\ DOMAIN w = 1..Len(w)
  BY ConcatProperties, LenProperties
<1>2. \A n \in 1..Len(s) + Len(t) : w[n] = IF n <= Len(s) THEN s[n] ELSE t[n - Len(s)]
  BY ConcatProperties
<1>3. \A n \in 1..Len(s) : w[n] = s[n]
  BY <1>1, <1>2
<1>4. \A n \in 1..Len(t) : w[Len(s) + n] = t[n]
  <2> TAKE n \in 1..Len(t)
  <2> DEFINE k == Len(s) + n
  <2>1. k \in 1..Len(s) + Len(t) /\ ~(k <= Len(s)) /\ k - Len(s) = n
    BY <1>1
  <2> QED BY <1>2, <2>1
<1>5. \A n \in DOMAIN w : n \notin 1..Len(s) => n - Len(s) \in 1..Len(t)
  BY <1>1
<1> QED BY <1>1, <1>3, <1>4, <1>5

(* A function on 1..n with values in S is a sequence over S.               *)
LEMMA FunctionIsSeq ==
  ASSUME NEW S, NEW n \in Nat, NEW f, f = [k \in DOMAIN f |-> f[k]],
         DOMAIN f = 1..n, \A k \in 1..n : f[k] \in S
  PROVE  f \in Seq(S) /\ Len(f) = n
<1>1. f \in [1..n -> S]
  OBVIOUS
<1> QED BY <1>1, SeqDef

(* Committing the flags of closed trades keeps the trades well typed.      *)
LEMMA ClosingOK ==
  ASSUME NEW d \in Trade, NEW flag \in BOOLEAN
  PROVE  [d EXCEPT !.closed = TRUE, !.happened = flag] \in Trade
  BY DEF Trade

(* Committing a sound unit of work keeps the tables sound; rows and trades *)
(* are never removed.                                                      *)
LEMMA CommitOK ==
  ASSUME TablesOK, NEW u, Sound(u), u.base <= Len(owned), Commit(u)
  PROVE  /\ TablesOK'
         /\ Len(owned') >= Len(owned)
         /\ DOMAIN trades \subseteq DOMAIN trades'
<1>1. /\ u.bal \in [Accounts -> Int] /\ u.touched \in SUBSET Accounts
      /\ u.entries \in Seq(EntryType) /\ u.own \in Seq(OwnedRow)
      /\ u.base \in Nat /\ u.rows \in SUBSET Nat /\ u.trade \in Seq(Trade)
  BY DEF Sound, UnitsOfWork, EntryType
<1>2. balance' \in [Accounts -> Int]
  BY <1>1 DEF Commit, TablesOK
<1>3. history \in Seq(EntryType) /\ history' = history \o u.entries
  BY DEF Commit, TablesOK
<1>4. owned' \in Seq(OwnedRow) /\ Len(owned') >= Len(owned) /\ NoNegativeHolding'
  <2> DEFINE old == [j \in DOMAIN owned |-> IF j \in u.rows THEN u.own[j] ELSE owned[j]]
             new == SubSeq(u.own, u.base + 1, Len(u.own))
  <2>1. owned' = old \o new
    BY DEF Commit
  <2>2. /\ old \in Seq(OwnedRow) /\ Len(old) = Len(owned) /\ Len(owned) \in Nat
        /\ \A j \in 1..Len(old) : old[j].qty >= 0
    <3>1. /\ owned \in Seq(OwnedRow)
          /\ \A j \in DOMAIN owned : owned[j] \in OwnedRow /\ owned[j].qty >= 0
      BY DEF TablesOK, NoNegativeHolding
    <3>2. \A j \in u.rows : u.own[j] \in OwnedRow /\ u.own[j].qty >= 0
      BY <1>1 DEF Sound, HoldingsSound
    <3>3. \A j \in DOMAIN owned : old[j] \in OwnedRow /\ old[j].qty >= 0
      BY <3>1, <3>2
    <3>4. DOMAIN owned = 1..Len(owned) /\ Len(owned) \in Nat
      BY <3>1
    <3>5. DOMAIN old = 1..Len(owned) /\ old = [j \in DOMAIN old |-> old[j]]
      BY <3>4
    <3> HIDE DEF old
    <3>6. old \in Seq(OwnedRow) /\ Len(old) = Len(owned)
      BY <3>3, <3>4, <3>5, FunctionIsSeq
    <3> QED BY <3>3, <3>4, <3>6
  <2>3. /\ new \in Seq(OwnedRow)
        /\ \A j \in 1..Len(new) : new[j].qty >= 0
    <3>1. /\ u.base + 1 \in Int /\ Len(u.own) \in Nat /\ u.base <= Len(u.own)
          /\ DOMAIN u.own = 1..Len(u.own)
      BY <1>1 DEF Sound, HoldingsSound
    <3>2. \A k \in (u.base + 1)..Len(u.own) : u.own[k] \in OwnedRow /\ u.own[k].qty >= 0
      BY <3>1, <1>1 DEF Sound, HoldingsSound
    <3>3. /\ new \in Seq(OwnedRow)
          /\ Len(new) = IF u.base + 1 <= Len(u.own) THEN Len(u.own) - (u.base + 1) + 1 ELSE 0
          /\ \A k \in 1..Len(u.own) - (u.base + 1) + 1 : new[k] = u.own[u.base + 1 + k - 1]
      <4> DEFINE m == u.base + 1
                 n == Len(u.own)
      <4>1. m \in Int /\ n \in Int
        BY <3>1
      <4>2. new = SubSeq(u.own, m, n)
        OBVIOUS
      <4>3. \A k \in m..n : u.own[k] \in OwnedRow
        BY <3>2
      <4> HIDE DEF m, n, new
      <4>4. /\ new \in Seq(OwnedRow)
            /\ Len(new) = IF m <= n THEN n - m + 1 ELSE 0
            /\ \A k \in 1..n - m + 1 : new[k] = u.own[m + k - 1]
        BY <4>1, <4>2, <4>3, SubSeqProperties
      <4> QED BY <4>4 DEF m, n
    <3> HIDE DEF new
    <3>4. ASSUME NEW k \in 1..Len(new)
          PROVE  new[k].qty >= 0
      <4>1. /\ k \in 1..Len(u.own) - (u.base + 1) + 1
            /\ u.base + 1 + k - 1 \in (u.base + 1)..Len(u.own)
        BY <1>1, <3>1, <3>3
      <4> QED BY <4>1, <3>2, <3>3
    <3> QED BY <3>3, <3>4
  <2> HIDE DEF old, new
  <2>a. old \in Seq(OwnedRow) /\ new \in Seq(OwnedRow)
    BY <2>2, <2>3
  <2>4. /\ owned' \in Seq(OwnedRow) /\ Len(owned') = Len(old) + Len(new)
        /\ Len(old) \in Nat /\ Len(new) \in Nat
        /\ \A n \in 1..Len(old) : owned'[n] = old[n]
        /\ \A n \in 1..Len(new) : owned'[Len(old) + n] = new[n]
        /\ \A n \in DOMAIN owned' : n \notin 1..Len(old) => n - Len(old) \in 1..Len(new)
        /\ DOMAIN owned' = 1..(Len(old) + Len(new))
    BY <2>1, <2>a, ConcatFacts
  <2>5. ASSUME NEW j \in DOMAIN owned'
        PROVE  owned'[j].qty >= 0
    <3>1. CASE j \in 1..Len(old)
      BY <3>1, <2>2, <2>4
    <3>2. CASE j \notin 1..Len(old)
      <4>1. j - Len(old) \in 1..Len(new) /\ Len(old) + (j - Len(old)) = j
        BY <3>2, <2>4
      <4> QED BY <4>1, <2>3, <2>4
    <3> QED BY <3>1, <3>2
  <2>6. Len(owned') >= Len(owned)
    BY <2>2, <2>4
  <2> QED BY <2>4, <2>5, <2>6 DEF NoNegativeHolding
<1>5. trades' \in Seq(Trade) /\ DOMAIN trades \subseteq DOMAIN trades'
  <2> DEFINE closing(t) == [trades[t] EXCEPT !.closed = TRUE, !.happened = t \in u.executed]
             old == [t \in DOMAIN trades |->
                       IF t \in u.executed \cup u.failed THEN closing(t) ELSE trades[t]]
  <2>1. /\ \A t \in DOMAIN trades : trades[t] \in Trade
        /\ DOMAIN trades = 1..Len(trades) /\ Len(trades) \in Nat
    BY DEF TablesOK
  <2>2. ASSUME NEW t \in DOMAIN trades
        PROVE  closing(t) \in Trade
    <3> DEFINE flag == t \in u.executed
    <3>1. flag \in BOOLEAN
      OBVIOUS
    <3> HIDE DEF flag
    <3>2. [trades[t] EXCEPT !.closed = TRUE, !.happened = flag] \in Trade
      BY <2>1, <3>1, ClosingOK, Zenon
    <3> QED BY <3>2, Zenon DEF flag
  <2>3. trades' = old \o u.trade
    BY DEF Commit
  <2> HIDE DEF closing
  <2>4. /\ \A t \in 1..Len(trades) : old[t] \in Trade
        /\ DOMAIN old = 1..Len(trades) /\ old = [t \in DOMAIN old |-> old[t]]
    BY <2>1, <2>2
  <2> HIDE DEF old
  <2>5. old \in Seq(Trade) /\ Len(old) = Len(trades)
    BY <2>1, <2>4, FunctionIsSeq
  <2>a. old \in Seq(Trade) /\ u.trade \in Seq(Trade) /\ trades' = old \o u.trade
    BY <1>1, <2>3, <2>5
  <2>6. /\ trades' \in Seq(Trade) /\ Len(u.trade) \in Nat
        /\ DOMAIN trades' = 1..(Len(old) + Len(u.trade))
    BY <2>a, ConcatFacts
  <2> QED BY <2>1, <2>5, <2>6
<1>6. history' \in Seq(EntryType) /\ LastEntryMatchesBalance'
  <2> DEFINE H == Len(history)
             E == Len(u.entries)
  <2>1. /\ history' \in Seq(EntryType)
        /\ DOMAIN history = 1..H /\ DOMAIN u.entries = 1..E /\ H \in Nat /\ E \in Nat
        /\ DOMAIN history' = 1..(H + E)
        /\ \A n \in 1..H : history'[n] = history[n]
        /\ \A n \in 1..E : history'[H + n] = u.entries[n]
        /\ \A n \in DOMAIN history' : n \notin 1..H => n - H \in 1..E
    BY <1>1, <1>3, ConcatFacts
  <2> HIDE DEF H, E
  <2>a. /\ \A n \in 1..H : history[n] \in EntryType
        /\ \A n \in 1..E : u.entries[n] \in EntryType
    BY <1>1, <1>3, <2>1
  <2>b. balance' = [a \in Accounts |-> IF a \in u.touched THEN u.bal[a] ELSE balance[a]]
    BY DEF Commit
  <2>2. ASSUME NEW n \in DOMAIN history',
               \A m \in DOMAIN history' : m > n => history'[m].acct # history'[n].acct
        PROVE  balance'[history'[n].acct] = history'[n].old + history'[n].change
    <3>1. CASE n \in 1..H
      <4>0. history[n].acct \in Accounts /\ history'[n] = history[n]
        BY <2>1, <2>a, <3>1 DEF EntryType
      <4>1. history[n].acct \notin u.touched
        <5> SUFFICES ASSUME history[n].acct \in u.touched PROVE FALSE
          OBVIOUS
        <5>1. PICK m \in DOMAIN u.entries : u.entries[m].acct = history[n].acct
          BY DEF Sound, EntriesSound
        <5>2. H + m \in DOMAIN history' /\ H + m > n
          BY <2>1, <3>1
        <5>3. history'[H + m].acct = history[n].acct
          BY <5>1, <2>1
        <5> QED BY <5>2, <5>3, <4>0, <2>2
      <4>2. \A m \in DOMAIN history : m > n => history[m].acct # history[n].acct
        <5> TAKE m \in DOMAIN history
        <5>1. m \in DOMAIN history' /\ history'[m] = history[m]
          BY <2>1
        <5> QED BY <5>1, <4>0, <2>2
      <4>3. balance[history[n].acct] = history[n].old + history[n].change
        BY <4>2, <2>1, <3>1 DEF TablesOK, LastEntryMatchesBalance
      <4>4. balance'[history[n].acct] = balance[history[n].acct]
        BY <4>0, <4>1, <2>b
      <4> QED BY <4>0, <4>3, <4>4
    <3>2. CASE n \notin 1..H
      <4> DEFINE k == n - H
      <4>1. k \in 1..E /\ H + k = n
        BY <2>1, <3>2
      <4> HIDE DEF k
      <4>2. history'[n] = u.entries[k]
        BY <2>1, <4>1
      <4>3. \A m \in DOMAIN u.entries : m > k => u.entries[m].acct # u.entries[k].acct
        <5> TAKE m \in DOMAIN u.entries
        <5>1. H + m \in DOMAIN history' /\ (m > k => H + m > n)
          BY <2>1, <4>1
        <5>2. history'[H + m] = u.entries[m]
          BY <2>1
        <5> QED BY <5>1, <5>2, <4>2, <2>2
      <4>4. u.entries[k].acct \in u.touched /\ u.entries[k].acct \in Accounts
        BY <2>1, <4>1, <1>1 DEF Sound, EntriesSound
      <4>5. u.bal[u.entries[k].acct] = u.entries[k].old + u.entries[k].change
        BY <2>1, <4>1, <4>3 DEF Sound, EntriesSound
      <4> QED BY <4>2, <4>4, <4>5, <2>b
    <3> QED BY <3>1, <3>2
  <2> QED BY <2>1, <2>2 DEF LastEntryMatchesBalance
<1> QED
  BY <1>2, <1>4, <1>5, <1>6 DEF TablesOK

(* A step of session s to a sound unit of work w keeps every unit sound.   *)
LEMMA GotoOK ==
  ASSUME TypeOK, UnitsSound, NEW s \in Sessions, NEW label \in Labels, NEW w,
         Goto(s, label, w), Sound(w), owned' \in Seq(OwnedRow),
         Len(owned) <= Len(owned'), w.base <= Len(owned'),
         label \in {"selling", "checked"} =>
           Len(w.trade) = 1 /\ w.entries = <<>> /\ w.touched = {}
  PROVE  pc' \in [Sessions -> Labels] /\ uow' \in [Sessions -> UnitsOfWork] /\ UnitsSound'
<1>1. pc' \in [Sessions -> Labels] /\ uow' \in [Sessions -> UnitsOfWork]
  BY DEF Goto, TypeOK, Labels, Sound
<1>2. ASSUME NEW x \in Sessions
      PROVE  /\ HoldingsSound(uow'[x]) /\ EntriesSound(uow'[x])
             /\ uow'[x].base <= Len(owned')
             /\ pc'[x] \in {"selling", "checked"} =>
                  Len(uow'[x].trade) = 1 /\ uow'[x].entries = <<>> /\ uow'[x].touched = {}
  <2>1. CASE x = s
    BY <2>1 DEF Goto, TypeOK, Sound
  <2>2. CASE x # s
    <3>1. uow'[x] = uow[x] /\ pc'[x] = pc[x]
      BY <2>2 DEF Goto, TypeOK
    <3>2. uow[x].base \in Nat /\ Len(owned) \in Nat /\ Len(owned') \in Nat
      BY DEF TypeOK, UnitsOfWork
    <3> QED BY <3>1, <3>2 DEF UnitsSound
  <2> QED BY <2>1, <2>2
<1> QED
  BY <1>1, <1>2 DEF UnitsSound

-----------------------------------------------------------------------------
(* The initial states and the two shapes of a step                         *)

(* The invariant, read as a statement about tables and about sessions.     *)
LEMMA IInvParts ==
  IInv <=> /\ TablesOK /\ UnitsSound
           /\ expired \subseteq DOMAIN trades
           /\ pc \in [Sessions -> Labels]
           /\ uow \in [Sessions -> UnitsOfWork]
           /\ todo \in [Batches -> SUBSET DOMAIN trades]
           /\ announced \subseteq Nat
  BY Zenon DEF IInv, TypeOK, TablesOK, Labels, EntryType

(* The opening tables satisfy the invariant.                               *)
LEMMA InitOK == Init => IInv
<1> SUFFICES ASSUME Init PROVE IInv
  OBVIOUS
<1>1. TablesOK
  <2>1. \A j \in DOMAIN OpeningOwned :
          OpeningOwned[j] \in [acct : Accounts, instr : Instruments, qty : Nat]
    <3> DEFINE R == [acct : Accounts, instr : Instruments, qty : Nat]
    <3>1. OpeningOwned \in Seq(R)
      BY BrokerAssumption
    <3> HIDE DEF R
    <3>2. \A j \in DOMAIN OpeningOwned : OpeningOwned[j] \in R
      BY <3>1
    <3> QED BY <3>2 DEF R
  <2>2. \A j \in DOMAIN OpeningOwned : OpeningOwned[j] \in OwnedRow /\ OpeningOwned[j].qty >= 0
    BY <2>1 DEF OwnedRow
  <2>3. /\ DOMAIN OpeningOwned = 1..Len(OpeningOwned) /\ Len(OpeningOwned) \in Nat
        /\ OpeningOwned = [j \in DOMAIN OpeningOwned |-> OpeningOwned[j]]
    BY BrokerAssumption
  <2>4. OpeningOwned \in Seq(OwnedRow)
    BY <2>2, <2>3, FunctionIsSeq
  <2>5. history \in Seq(EntryType) /\ LastEntryMatchesBalance
    BY DEF Init, LastEntryMatchesBalance
  <2> QED
    BY <2>2, <2>4, <2>5, BrokerAssumption DEF Init, TablesOK, NoNegativeHolding
<1>2. /\ pc \in [Sessions -> Labels] /\ uow \in [Sessions -> UnitsOfWork]
      /\ todo \in [Batches -> SUBSET DOMAIN trades]
      /\ expired \subseteq DOMAIN trades /\ announced \subseteq Nat
  BY BlankSound DEF Init, Labels, Sound
<1>3. UnitsSound
  <2>1. Blank.base = 0 /\ Len(owned) \in Nat
    BY <1>1 DEF Blank, TablesOK
  <2>2. \A s \in Sessions : uow[s] = Blank /\ pc[s] = "idle"
    BY DEF Init
  <2> QED BY <2>1, <2>2, BlankSound DEF UnitsSound, Sound
<1> QED BY <1>1, <1>2, <1>3, IInvParts

(* A step that leaves the tables alone keeps the invariant.                *)
LEMMA QuietStep ==
  ASSUME IInv, UNCHANGED db, UNCHANGED expired,
         NEW s \in Sessions, NEW label \in Labels, NEW w, Goto(s, label, w),
         Sound(w), w.base <= Len(owned),
         label \in {"selling", "checked"} =>
           Len(w.trade) = 1 /\ w.entries = <<>> /\ w.touched = {},
         todo' \in [Batches -> SUBSET DOMAIN trades], announced' \subseteq Nat
  PROVE  IInv'
<1>1. TablesOK'
  BY IInvParts DEF db, TablesOK, NoNegativeHolding, LastEntryMatchesBalance
<1>2. /\ owned' = owned /\ owned \in Seq(OwnedRow) /\ Len(owned) \in Nat
      /\ TypeOK /\ UnitsSound /\ trades' = trades
  BY DEF IInv, TypeOK, db
<1>3. pc' \in [Sessions -> Labels] /\ uow' \in [Sessions -> UnitsOfWork] /\ UnitsSound'
  <2>1. owned' \in Seq(OwnedRow) /\ Len(owned) <= Len(owned') /\ w.base <= Len(owned')
    BY <1>2
  <2> QED BY <1>2, <2>1, GotoOK
<1>4. expired' \subseteq DOMAIN trades' /\ todo' \in [Batches -> SUBSET DOMAIN trades']
  BY <1>2, IInvParts
<1> QED BY <1>1, <1>3, <1>4, Zenon DEF IInv, TypeOK, TablesOK, Labels, EntryType

(* A step that commits a sound unit of work and drops it keeps it too.     *)
LEMMA CommitStep ==
  ASSUME IInv, NEW u, Sound(u), u.base <= Len(owned), Commit(u),
         NEW s \in Sessions, NEW label \in {"idle", "done"}, Goto(s, label, Blank),
         UNCHANGED <<expired, todo, announced>>
  PROVE  IInv'
<1>1. TablesOK' /\ Len(owned') >= Len(owned) /\ DOMAIN trades \subseteq DOMAIN trades'
  BY IInvParts, CommitOK
<1>2. /\ Len(owned) \in Nat /\ Len(owned') \in Nat /\ owned' \in Seq(OwnedRow)
  BY <1>1 DEF IInv, TypeOK, TablesOK
<1>3. Blank.base <= Len(owned')
  BY <1>2 DEF Blank
<1>4. pc' \in [Sessions -> Labels] /\ uow' \in [Sessions -> UnitsOfWork] /\ UnitsSound'
  <2>1. label \in Labels /\ label \notin {"selling", "checked"}
    BY DEF Labels
  <2>2. Len(owned) <= Len(owned')
    BY <1>1, <1>2
  <2>3. TypeOK /\ UnitsSound
    BY DEF IInv
  <2> QED BY <1>2, <1>3, <2>1, <2>2, <2>3, BlankSound, GotoOK
<1>5. expired' \subseteq DOMAIN trades' /\ todo' \in [Batches -> SUBSET DOMAIN trades']
  BY <1>1, IInvParts
<1>6. announced' \subseteq Nat
  BY IInvParts
<1> QED BY <1>1, <1>4, <1>5, <1>6, Zenon DEF IInv, TypeOK, TablesOK, Labels, EntryType

-----------------------------------------------------------------------------
(* One lemma per action                                                    *)

(* What the invariant says of one session and of one trade.                *)
LEMMA SessionFacts ==
  ASSUME IInv, NEW s \in Sessions
  PROVE  /\ Sound(uow[s]) /\ uow[s] \in UnitsOfWork
         /\ uow[s].base \in Nat /\ uow[s].base <= Len(owned)
         /\ pc[s] \in {"selling", "checked"} =>
              /\ uow[s].entries = <<>> /\ uow[s].touched = {}
              /\ Len(uow[s].trade) = 1 /\ uow[s].trade[1] \in Trade
<1>1. uow[s] \in UnitsOfWork
  BY DEF IInv, TypeOK
<1>2. uow[s].base \in Nat /\ uow[s].trade \in Seq(Trade)
  BY <1>1 DEF UnitsOfWork
<1>3. /\ HoldingsSound(uow[s]) /\ EntriesSound(uow[s]) /\ uow[s].base <= Len(owned)
      /\ pc[s] \in {"selling", "checked"} =>
           Len(uow[s].trade) = 1 /\ uow[s].entries = <<>> /\ uow[s].touched = {}
  BY DEF IInv, UnitsSound
<1>4. Len(uow[s].trade) = 1 => uow[s].trade[1] \in Trade
  BY <1>2
<1> QED BY <1>1, <1>2, <1>3, <1>4 DEF Sound

(* What it says of the tables.                                             *)
LEMMA TableFacts ==
  ASSUME IInv
  PROVE  /\ owned \in Seq(OwnedRow) /\ Len(owned) \in Nat /\ DOMAIN owned = 1..Len(owned)
         /\ \A j \in DOMAIN owned : owned[j] \in OwnedRow /\ owned[j].qty >= 0
         /\ DOMAIN trades \subseteq Nat /\ \A t \in DOMAIN trades : trades[t] \in Trade
         /\ balance \in [Accounts -> Int]
         /\ todo \in [Batches -> SUBSET DOMAIN trades] /\ announced \subseteq Nat
  BY DEF IInv, TypeOK, NoNegativeHolding

(* Reading the whole Ownedinstruments table into a unit of work.           *)
LEMMA TrackOwnedSound ==
  ASSUME IInv, NEW u, Sound(u), u.base <= Len(owned)
  PROVE  LET v == [u EXCEPT !.own = owned, !.base = Len(owned)]
         IN  /\ Sound(v) /\ v.own = owned /\ v.base = Len(owned)
             /\ v.trade = u.trade /\ v.entries = u.entries /\ v.touched = u.touched
<1> DEFINE v == [u EXCEPT !.own = owned, !.base = Len(owned)]
<1>1. /\ v \in UnitsOfWork /\ u.base \in Nat
      /\ v.own = owned /\ v.base = Len(owned) /\ v.rows = u.rows
      /\ v.trade = u.trade /\ v.entries = u.entries
      /\ v.touched = u.touched /\ v.bal = u.bal
  BY TableFacts DEF Sound, UnitsOfWork
<1> HIDE DEF v
<1>2. HoldingsSound(v)
  BY <1>1, TableFacts DEF Sound, HoldingsSound
<1>3. EntriesSound(v)
  BY <1>1 DEF Sound, EntriesSound
<1> QED BY <1>1, <1>2, <1>3 DEF Sound, v

(* A deposit or a withdrawal that has been read (ModifyBalance) is sound.  *)
LEMMA MoneyOK ==
  ASSUME IInv, NEW r \in Requests, NEW a \in Accounts, NEW m \in Int,
         NEW kind \in Kinds, ModifyBalance(r, a, m, kind)
  PROVE  IInv'
<1> DEFINE bal == [Blank.bal EXCEPT ![a] = balance[a] + m]
           entry == Entry(a, balance[a], m, kind)
           w == [Blank EXCEPT !.bal = bal, !.touched = {a}, !.entries = <<entry>>]
<1>1. /\ entry \in EntryType /\ entry.acct = a
      /\ entry.old = balance[a] /\ entry.change = m
  BY TableFacts, EntryFields
<1>2. bal \in [Accounts -> Int] /\ bal[a] = balance[a] + m
  BY TableFacts DEF Blank
<1> HIDE DEF entry, bal
<1>3. /\ w.bal = bal /\ w.touched = {a} /\ w.entries = <<entry>>
      /\ w.own = <<>> /\ w.base = 0 /\ w.rows = {} /\ w.trade = <<>>
  BY DEF Blank
<1>4. w \in UnitsOfWork
  <2> DEFINE entries == <<entry>>
  <2>1. entries \in Seq(EntryType) /\ {a} \in SUBSET Accounts
    BY <1>1
  <2> HIDE DEF entries
  <2>2. [Blank EXCEPT !.bal = bal, !.touched = {a}, !.entries = entries] \in UnitsOfWork
    BY <1>2, <2>1, BlankSound DEF Sound, UnitsOfWork, EntryType
  <2> QED BY <2>2 DEF entries
<1>5. Goto(r, "ready", w)
  BY DEF ModifyBalance, bal, entry, Blank
<1> HIDE DEF w
<1>6. Sound(w)
  BY <1>1, <1>2, <1>3, <1>4 DEF Sound, HoldingsSound, EntriesSound
<1>7. UNCHANGED db /\ UNCHANGED <<expired, todo, announced>>
  BY DEF ModifyBalance, db
<1>8. "ready" \in Labels /\ r \in Sessions /\ w.base <= Len(owned)
  BY <1>3, TableFacts DEF Labels, Sessions
<1>9. todo' \in [Batches -> SUBSET DOMAIN trades] /\ announced' \subseteq Nat
  BY <1>7, TableFacts
<1> QED BY <1>5, <1>6, <1>7, <1>8, <1>9, QuietStep

(* A quick trade being checked has prepared nothing.                       *)
LEMMA CheckingSound ==
  ASSUME IInv, NEW a \in Accounts, NEW d \in Trade
  PROVE  LET w == [Blank EXCEPT !.bal = Track(a), !.trade = <<d>>]
         IN  /\ Sound(w) /\ w.base = 0
             /\ Len(w.trade) = 1 /\ w.entries = <<>> /\ w.touched = {}
<1> DEFINE w == [Blank EXCEPT !.bal = Track(a), !.trade = <<d>>]
<1>1. Track(a) \in [Accounts -> Int]
  BY TableFacts DEF Track
<1>2. /\ w.own = <<>> /\ w.base = 0 /\ w.rows = {}
      /\ w.trade = <<d>> /\ w.entries = <<>> /\ w.touched = {}
  BY DEF Blank
<1>2a. w \in UnitsOfWork
  <2> DEFINE trade == <<d>>
  <2>1. trade \in Seq(Trade)
    OBVIOUS
  <2> HIDE DEF trade
  <2>2. [Blank EXCEPT !.bal = Track(a), !.trade = trade] \in UnitsOfWork
    BY <1>1, <2>1, BlankSound DEF Sound, UnitsOfWork
  <2> QED BY <2>2 DEF trade
<1> HIDE DEF w
<1>3. HoldingsSound(w) /\ EntriesSound(w)
  BY <1>2 DEF HoldingsSound, EntriesSound
<1> QED BY <1>2, <1>2a, <1>3 DEF Sound, w

(* The trade built by Trade.QuickTrade has its type.                       *)
LEMMA QuickTradeType ==
  ASSUME NEW a \in Accounts, NEW i \in Instruments, NEW q \in Quantities, NEW p \in Prices,
         NEW dir \in Directions
  PROVE  QuickTrade(a, i, dir, q, p) \in Trade
  BY BrokerAssumption DEF QuickTrade, Trade

(* A quick trade begins (BuyAssets, SellAssets) with nothing prepared.     *)
LEMMA QuickStartOK ==
  ASSUME IInv, NEW r \in Requests, QuickStart(r)
  PROVE  IInv'
<1>1. PICK a \in Accounts, i \in Instruments, q \in Quantities, p \in Prices :
        BuyCheck(r, a, i, q, p) \/ SellReadBalance(r, a, i, q, p)
  BY DEF QuickStart
<1>2. PICK d \in Trade, label \in {"checked", "selling"} :
        /\ Goto(r, label, [Blank EXCEPT !.bal = Track(a), !.trade = <<d>>])
        /\ UNCHANGED <<balance, history, owned, trades, expired, todo, announced>>
  <2>1. CASE BuyCheck(r, a, i, q, p)
    <3>1. QuickTrade(a, i, "buy", q, p) \in Trade
      BY QuickTradeType DEF Directions
    <3> QED BY <2>1, <3>1 DEF BuyCheck
  <2>2. CASE SellReadBalance(r, a, i, q, p)
    <3>1. QuickTrade(a, i, "sell", q, p) \in Trade
      BY QuickTradeType DEF Directions
    <3> QED BY <2>2, <3>1 DEF SellReadBalance
  <2> QED BY <1>1, <2>1, <2>2
<1> DEFINE w == [Blank EXCEPT !.bal = Track(a), !.trade = <<d>>]
<1>3. /\ Sound(w) /\ w.base = 0
      /\ Len(w.trade) = 1 /\ w.entries = <<>> /\ w.touched = {}
  BY CheckingSound
<1>4. Goto(r, label, w)
  BY <1>2
<1> HIDE DEF w
<1>5. UNCHANGED db /\ UNCHANGED expired
  BY <1>2 DEF db
<1>6. label \in Labels /\ r \in Sessions /\ w.base <= Len(owned)
  BY <1>3, TableFacts DEF Labels, Sessions
<1>7. todo' \in [Batches -> SUBSET DOMAIN trades] /\ announced' \subseteq Nat
  BY <1>2, TableFacts
<1> QED BY <1>3, <1>4, <1>5, <1>6, <1>7, QuietStep

(* SellAssets takes only what the row it read covers.                      *)
LEMMA SellCheckOK ==
  ASSUME IInv, NEW r \in Requests, SellCheck(r)
  PROVE  IInv'
<1> DEFINE u == uow[r]
           d == u.trade[1]
           v == [u EXCEPT !.own = owned, !.base = Len(owned)]
<1>1. r \in Sessions /\ pc[r] = "selling"
  BY DEF SellCheck, Sessions
<1>2. /\ Sound(u) /\ u.base <= Len(owned) /\ u.entries = <<>> /\ u.touched = {}
      /\ Len(u.trade) = 1 /\ d \in Trade
  BY <1>1, SessionFacts
<1>3. /\ Sound(v) /\ v.own = owned /\ v.base = Len(owned)
      /\ v.trade = u.trade /\ v.entries = u.entries /\ v.touched = u.touched
  BY <1>2, TrackOwnedSound
<1>4. PICK j \in RowsOf(owned, d) :
        owned[j].qty >= d.qty /\ Goto(r, "checked", ChangeOwned(v, j, -d.qty))
  BY DEF SellCheck
<1> HIDE DEF v, d, u
<1> DEFINE w == ChangeOwned(v, j, -d.qty)
<1>5. j \in DOMAIN owned
  BY <1>4 DEF RowsOf
<1>6. d.qty \in Nat /\ owned[j].qty \in Int
  BY <1>2, <1>5, TableFacts DEF Trade, OwnedRow
<1>7. /\ Sound(w) /\ w.base = v.base /\ w.trade = v.trade
      /\ w.touched = v.touched /\ w.entries = v.entries
  <2>1. j \in DOMAIN v.own /\ -d.qty \in Int /\ v.own[j].qty + (-d.qty) >= 0
    BY <1>3, <1>4, <1>5, <1>6
  <2> QED BY <1>3, <2>1, ChangeOwnedSound
<1> HIDE DEF w
<1>8. UNCHANGED db /\ UNCHANGED <<expired, todo, announced>>
  BY DEF SellCheck, db
<1>9. "checked" \in Labels /\ w.base <= Len(owned)
  BY <1>3, <1>7, TableFacts DEF Labels
<1>10. todo' \in [Batches -> SUBSET DOMAIN trades] /\ announced' \subseteq Nat
  BY <1>8, TableFacts
<1>11. Goto(r, "checked", w)
  BY <1>4 DEF w
<1>12. Len(w.trade) = 1 /\ w.entries = <<>> /\ w.touched = {}
  BY <1>2, <1>3, <1>7
<1> QED BY <1>1, <1>7, <1>8, <1>9, <1>10, <1>11, <1>12, QuietStep

(* UpdateBalance and the holding of a quick trade are prepared soundly.    *)
LEMMA ComputeOK ==
  ASSUME IInv, NEW r \in Requests, Compute(r)
  PROVE  IInv'
<1> DEFINE u == uow[r]
           d == u.trade[1]
           bal == [u.bal EXCEPT ![Owner] = IF d.acct = Owner THEN @ ELSE balance[Owner]]
           v == [u EXCEPT !.bal = bal]
           full == [v EXCEPT !.own = owned, !.base = Len(owned)]
<1>1. r \in Sessions /\ pc[r] = "checked"
  BY DEF Compute, Sessions
<1>2. /\ Sound(u) /\ u \in UnitsOfWork /\ u.base \in Nat /\ u.base <= Len(owned)
      /\ u.entries = <<>> /\ u.touched = {} /\ d \in Trade
  BY <1>1, SessionFacts
<1>3. \/ Goto(r, "ready", UpdateBalance(v, d))
      \/ \E w \in Acquire(full, d) : Goto(r, "ready", UpdateBalance(w, d))
  BY DEF Compute
<1>4. UNCHANGED db /\ UNCHANGED <<expired, todo, announced>>
  BY DEF Compute, db
<1> HIDE DEF u
<1>5. bal \in [Accounts -> Int]
  <2>1. u.bal \in [Accounts -> Int] /\ Owner \in Accounts /\ balance \in [Accounts -> Int]
    BY <1>2, TableFacts, BrokerAssumption DEF UnitsOfWork
  <2> QED BY <2>1
<1> HIDE DEF bal, d
<1>6. /\ v \in UnitsOfWork /\ v.own = u.own /\ v.base = u.base /\ v.rows = u.rows
      /\ v.entries = u.entries /\ v.touched = u.touched /\ v.trade = u.trade
  BY <1>2, <1>5 DEF UnitsOfWork
<1> HIDE DEF v
<1>7. Sound(v) /\ v.base <= Len(owned)
  BY <1>2, <1>6 DEF Sound, HoldingsSound, EntriesSound
<1>8. Sound(full) /\ full.base = Len(owned)
  BY <1>7, TrackOwnedSound
<1> HIDE DEF full
<1>9. PICK w : Goto(r, "ready", w) /\ Sound(w) /\ w.base <= Len(owned)
  <2>1. CASE Goto(r, "ready", UpdateBalance(v, d))
    <3>1. Sound(UpdateBalance(v, d)) /\ UpdateBalance(v, d).base = v.base
      BY <1>2, <1>7, UpdateBalanceSound
    <3> QED BY <1>7, <2>1, <3>1
  <2>2. CASE \E w \in Acquire(full, d) : Goto(r, "ready", UpdateBalance(w, d))
    <3>1. PICK w \in Acquire(full, d) : Goto(r, "ready", UpdateBalance(w, d))
      BY <2>2
    <3>2. Sound(w) /\ w.base = full.base
      BY <1>2, <1>8, AcquireSound
    <3>3. Sound(UpdateBalance(w, d)) /\ UpdateBalance(w, d).base = w.base
      BY <1>2, <3>2, UpdateBalanceSound
    <3>4. full.base <= Len(owned)
      BY <1>8, TableFacts
    <3> QED BY <3>1, <3>2, <3>3, <3>4
  <2> QED BY <1>3, <2>1, <2>2
<1>10. "ready" \in Labels
  BY DEF Labels
<1>11. todo' \in [Batches -> SUBSET DOMAIN trades] /\ announced' \subseteq Nat
  BY <1>4, TableFacts
<1> QED BY <1>1, <1>4, <1>9, <1>10, <1>11, QuietStep

(* SaveChangesOrRollback of a request keeps the invariant.                 *)
LEMMA SaveOK ==
  ASSUME IInv, NEW r \in Requests, Save(r)
  PROVE  IInv'
<1>1. r \in Sessions
  BY DEF Sessions
<1>2. Sound(uow[r]) /\ uow[r].base <= Len(owned)
  BY <1>1, SessionFacts
<1>3. Commit(uow[r]) /\ Goto(r, "done", Blank) /\ UNCHANGED <<expired, todo, announced>>
  BY DEF Save
<1> QED BY <1>1, <1>2, <1>3, CommitStep

(* CreateLongTransaction adds one open trade and nothing else.             *)
LEMMA CreateLongOK ==
  ASSUME IInv, NEW r \in Requests, LongStart(r)
  PROVE  IInv'
<1>1. PICK a \in Accounts, i \in Instruments, dir \in {"longbuy", "longsell"},
           q \in Quantities, p \in Prices : CreateLong(r, a, i, dir, q, p)
  BY DEF LongStart
<1> DEFINE d == [acct |-> a, instr |-> i, dir |-> dir, qty |-> q, price |-> p,
                 closed |-> FALSE, happened |-> FALSE]
           trade == <<d>>
           u == [Blank EXCEPT !.trade = trade]
<1>2. trade \in Seq(Trade)
  <2>1. d \in Trade
    BY BrokerAssumption DEF Trade, Directions
  <2> QED BY <2>1
<1>3. Commit(u) /\ Goto(r, "done", Blank) /\ UNCHANGED <<expired, todo, announced>>
  BY <1>1 DEF CreateLong
<1> HIDE DEF trade
<1>4. /\ u \in UnitsOfWork /\ u.own = <<>> /\ u.base = 0 /\ u.rows = {}
      /\ u.entries = <<>> /\ u.touched = {}
  <2>1. u \in UnitsOfWork
    BY <1>2, BlankSound DEF Sound, UnitsOfWork
  <2> QED BY <2>1 DEF Blank
<1> HIDE DEF u
<1>5. Sound(u)
  BY <1>4 DEF Sound, HoldingsSound, EntriesSound
<1>6. u.base <= Len(owned) /\ r \in Sessions
  BY <1>4, TableFacts DEF Sessions
<1> QED BY <1>3, <1>5, <1>6, CommitStep

(* A session that ends without a commit.                                   *)
LEMMA DropOK ==
  ASSUME IInv, NEW s \in Sessions, NEW label \in {"idle", "done"}, Goto(s, label, Blank),
         UNCHANGED db, UNCHANGED expired,
         todo' \in [Batches -> SUBSET DOMAIN trades], announced' \subseteq Nat
  PROVE  IInv'
<1>1. label \in Labels /\ label \notin {"selling", "checked"}
  BY DEF Labels
<1>2. Sound(Blank) /\ Blank.base <= Len(owned)
  BY BlankSound, TableFacts DEF Blank
<1> QED BY <1>1, <1>2, QuietStep

(* A request that is refused or fails drops what it prepared.              *)
LEMMA RequestEndsOK ==
  ASSUME IInv, NEW r \in Requests, SellRefuse(r) \/ Fail(r)
  PROVE  IInv'
<1>1. /\ Goto(r, "done", Blank) /\ UNCHANGED db /\ UNCHANGED <<expired, todo, announced>>
      /\ r \in Sessions
  BY DEF SellRefuse, Fail, db, Sessions
<1>2. todo' \in [Batches -> SUBSET DOMAIN trades] /\ announced' \subseteq Nat
  BY <1>1, TableFacts
<1> QED BY <1>1, <1>2, DropOK

(* A batch begins by reading the tables and closing overdue trades.        *)
LEMMA BatchBeginOK ==
  ASSUME IInv, NEW b \in Batches, BatchBegin(b)
  PROVE  IInv'
<1> DEFINE late == Open \cap expired
           w == [Blank EXCEPT !.bal = balance, !.own = owned, !.base = Len(owned),
                              !.failed = late]
<1>1. Goto(b, "overdue", w) /\ UNCHANGED db /\ UNCHANGED expired
  BY DEF BatchBegin, db
<1>2. late \in SUBSET Nat /\ Open \ expired \in SUBSET DOMAIN trades
  BY TableFacts DEF Open
<1>3. todo' \in [Batches -> SUBSET DOMAIN trades] /\ announced' \subseteq Nat
  BY <1>2, TableFacts DEF BatchBegin
<1> HIDE DEF late
<1>4. /\ w \in UnitsOfWork /\ w.own = owned /\ w.base = Len(owned) /\ w.rows = {}
      /\ w.entries = <<>> /\ w.touched = {}
  <2>1. w \in UnitsOfWork
    BY <1>2, TableFacts, BlankSound DEF Sound, UnitsOfWork
  <2> QED BY <2>1 DEF Blank
<1> HIDE DEF w
<1>5. Sound(w)
  BY <1>4, TableFacts DEF Sound, HoldingsSound, EntriesSound
<1>6. "overdue" \in Labels /\ b \in Sessions /\ w.base <= Len(owned)
  BY <1>4, TableFacts DEF Labels, Sessions
<1> QED BY <1>1, <1>3, <1>5, <1>6, QuietStep

(* The first flush of a batch changes no table a reader can see.           *)
LEMMA BatchSaveOverdueOK ==
  ASSUME IInv, NEW b \in Batches, BatchSaveOverdue(b)
  PROVE  IInv'
<1>1. /\ Goto(b, "running", uow[b]) /\ UNCHANGED db /\ UNCHANGED <<expired, todo, announced>>
      /\ b \in Sessions /\ "running" \in Labels
  BY DEF BatchSaveOverdue, db, Sessions, Labels
<1>2. Sound(uow[b]) /\ uow[b].base <= Len(owned)
  BY <1>1, SessionFacts
<1>3. todo' \in [Batches -> SUBSET DOMAIN trades] /\ announced' \subseteq Nat
  BY <1>1, TableFacts
<1> QED BY <1>1, <1>2, <1>3, QuietStep

(* Handling a trade with a sound result keeps the invariant.               *)
LEMMA HandledOK ==
  ASSUME IInv, NEW b \in Batches, NEW t, NEW v, Sound(v), v.base <= Len(owned),
         Handled(b, t, v)
  PROVE  IInv'
<1>1. /\ Goto(b, "running", v) /\ UNCHANGED db /\ UNCHANGED expired
      /\ b \in Sessions /\ "running" \in Labels
  BY DEF Handled, db, Sessions, Labels
<1>2. todo' \in [Batches -> SUBSET DOMAIN trades]
  BY TableFacts DEF Handled
<1>3. announced' \subseteq Nat
  BY TableFacts DEF Handled, Sound, UnitsOfWork
<1> QED BY <1>1, <1>2, <1>3, QuietStep

(* ProcessLongBuy leaves the unit of work of the batch sound.              *)
LEMMA LongBuyOK ==
  ASSUME IInv, NEW b \in Batches, NEW t \in todo[b], NEW low \in Prices, LongBuy(b, t, low)
  PROVE  IInv'
<1> DEFINE u == uow[b]
           d == trades[t]
<1>1. t \in Nat /\ d \in Trade
  BY TableFacts
<1>2. Sound(u) /\ u.base \in Nat /\ u.base <= Len(owned)
  BY SessionFacts DEF Sessions
<1>3. \/ Handled(b, t, u)
      \/ Handled(b, t, CloseTrade(u, t, FALSE))
      \/ \E v \in Acquire(UpdateBalance(u, d), d) : Handled(b, t, CloseTrade(v, t, TRUE))
  BY DEF LongBuy
<1> HIDE DEF u, d
<1>4. CASE Handled(b, t, u)
  BY <1>2, <1>4, HandledOK
<1>5. CASE Handled(b, t, CloseTrade(u, t, FALSE))
  <2>1. Sound(CloseTrade(u, t, FALSE)) /\ CloseTrade(u, t, FALSE).base = u.base
    BY <1>1, <1>2, CloseTradeSound
  <2> QED BY <1>2, <1>5, <2>1, HandledOK
<1>6. CASE \E v \in Acquire(UpdateBalance(u, d), d) : Handled(b, t, CloseTrade(v, t, TRUE))
  <2>1. PICK v \in Acquire(UpdateBalance(u, d), d) : Handled(b, t, CloseTrade(v, t, TRUE))
    BY <1>6
  <2>2. Sound(UpdateBalance(u, d)) /\ UpdateBalance(u, d).base = u.base
    BY <1>1, <1>2, UpdateBalanceSound
  <2>3. Sound(v) /\ v.base = u.base
    BY <1>1, <2>2, AcquireSound
  <2>4. Sound(CloseTrade(v, t, TRUE)) /\ CloseTrade(v, t, TRUE).base = u.base
    BY <1>1, <2>3, CloseTradeSound
  <2> QED BY <1>2, <2>1, <2>4, HandledOK
<1> QED BY <1>3, <1>4, <1>5, <1>6

(* ProcessLongSell takes only what the tracked row covers.                 *)
LEMMA LongSellOK ==
  ASSUME IInv, NEW b \in Batches, NEW t \in todo[b], NEW high \in Prices, LongSell(b, t, high)
  PROVE  IInv'
<1> DEFINE u == uow[b]
           d == trades[t]
           v == UpdateBalance(u, d)
<1>1. t \in Nat /\ d \in Trade
  BY TableFacts
<1>2. Sound(u) /\ u \in UnitsOfWork /\ u.base \in Nat /\ u.base <= Len(owned)
  BY SessionFacts DEF Sessions
<1>3. \/ Handled(b, t, u)
      \/ Handled(b, t, CloseTrade(u, t, FALSE))
      \/ \E j \in RowsOf(u.own, d) :
           /\ u.own[j].qty >= d.qty
           /\ Handled(b, t, CloseTrade(ChangeOwned(v, j, -d.qty), t, TRUE))
  BY DEF LongSell
<1> HIDE DEF u, d
<1>4. CASE Handled(b, t, u)
  BY <1>2, <1>4, HandledOK
<1>5. CASE Handled(b, t, CloseTrade(u, t, FALSE))
  <2>1. Sound(CloseTrade(u, t, FALSE)) /\ CloseTrade(u, t, FALSE).base = u.base
    BY <1>1, <1>2, CloseTradeSound
  <2> QED BY <1>2, <1>5, <2>1, HandledOK
<1>6. CASE \E j \in RowsOf(u.own, d) :
             /\ u.own[j].qty >= d.qty
             /\ Handled(b, t, CloseTrade(ChangeOwned(v, j, -d.qty), t, TRUE))
  <2>1. PICK j \in RowsOf(u.own, d) :
               /\ u.own[j].qty >= d.qty
               /\ Handled(b, t, CloseTrade(ChangeOwned(v, j, -d.qty), t, TRUE))
    BY <1>6
  <2>2. Sound(v) /\ v.own = u.own /\ v.base = u.base
    BY <1>1, <1>2, UpdateBalanceSound
  <2> HIDE DEF v
  <2>3. j \in DOMAIN v.own
    BY <2>1, <2>2 DEF RowsOf
  <2>4. d.qty \in Nat /\ v.own[j].qty \in Int
    <3>1. v.own \in Seq(OwnedRow)
      BY <2>2 DEF Sound, UnitsOfWork
    <3>2. v.own[j] \in OwnedRow
      BY <2>3, <3>1
    <3> QED BY <1>1, <3>2 DEF Trade, OwnedRow
  <2>5. -d.qty \in Int /\ v.own[j].qty + (-d.qty) >= 0
    BY <2>1, <2>2, <2>4
  <2> DEFINE w == ChangeOwned(v, j, -d.qty)
  <2>6. Sound(w) /\ w.base = v.base
    BY <2>2, <2>3, <2>5, ChangeOwnedSound
  <2>7. Handled(b, t, CloseTrade(w, t, TRUE))
    BY <2>1
  <2> HIDE DEF w
  <2>8. Sound(CloseTrade(w, t, TRUE)) /\ CloseTrade(w, t, TRUE).base = w.base
    BY <1>1, <2>6, CloseTradeSound
  <2> QED BY <1>2, <2>2, <2>6, <2>7, <2>8, HandledOK
<1> QED BY <1>3, <1>4, <1>5, <1>6

(* A trade that is not a long one is closed and moves nothing.             *)
LEMMA NotLongOK ==
  ASSUME IInv, NEW b \in Batches, NEW t \in todo[b], NotLong(b, t)
  PROVE  IInv'
<1> DEFINE u == uow[b]
<1>1. t \in Nat
  BY TableFacts
<1>2. Sound(u) /\ u.base \in Nat /\ u.base <= Len(owned)
  BY SessionFacts DEF Sessions
<1>3. Handled(b, t, CloseTrade(u, t, FALSE))
  BY DEF NotLong
<1> HIDE DEF u
<1>4. Sound(CloseTrade(u, t, FALSE)) /\ CloseTrade(u, t, FALSE).base = u.base
  BY <1>1, <1>2, CloseTradeSound
<1> QED BY <1>2, <1>3, <1>4, HandledOK

(* A batch ends by committing a sound unit of work or dropping it.         *)
LEMMA BatchEndsOK ==
  ASSUME IInv, NEW b \in Batches, BatchCommit(b) \/ BatchFail(b)
  PROVE  IInv'
<1>1. b \in Sessions /\ Sound(uow[b]) /\ uow[b].base <= Len(owned)
  BY SessionFacts DEF Sessions
<1>2. CASE BatchCommit(b)
  <2>1. Commit(uow[b]) /\ Goto(b, "idle", Blank) /\ UNCHANGED <<expired, todo, announced>>
    BY <1>2 DEF BatchCommit
  <2> QED BY <1>1, <2>1, CommitStep
<1>3. CASE BatchFail(b)
  <2>1. Goto(b, "idle", Blank) /\ UNCHANGED db /\ UNCHANGED expired
    BY <1>3 DEF BatchFail, db
  <2>2. todo' \in [Batches -> SUBSET DOMAIN trades]
    BY <1>3, TableFacts DEF BatchFail
  <2>3. announced' \subseteq Nat
    <3>1. todo[b] \subseteq Nat
      BY TableFacts
    <3> QED BY <1>3, <3>1, TableFacts DEF BatchFail
  <2> QED BY <1>1, <2>1, <2>2, <2>3, DropOK
<1> QED BY <1>2, <1>3

(* The clock and a step that changes nothing.                              *)
LEMMA ExpireOK ==
  ASSUME IInv, (\E t \in DOMAIN trades : Expire(t)) \/ UNCHANGED vars
  PROVE  IInv'
<1>1. /\ UNCHANGED <<balance, history, owned, trades, pc, uow, todo, announced>>
      /\ expired' \subseteq DOMAIN trades
  BY DEF Expire, vars, IInv, TypeOK
<1>2. TypeOK'
  BY <1>1, Zenon DEF IInv, TypeOK
<1>3. NoNegativeHolding' /\ LastEntryMatchesBalance' /\ UnitsSound'
  BY <1>1 DEF IInv, NoNegativeHolding, LastEntryMatchesBalance, UnitsSound
<1> QED BY <1>2, <1>3 DEF IInv

-----------------------------------------------------------------------------
(* Theorems                                                                *)

(* Every step of every session, failures included, keeps the invariant.    *)
LEMMA NextOK == IInv /\ [Next]_vars => IInv'
<1> SUFFICES ASSUME IInv, [Next]_vars PROVE IInv'
  OBVIOUS
<1>1. ASSUME NEW r \in Requests, QuickStart(r) PROVE IInv'
  BY <1>1, QuickStartOK
<1>2. ASSUME NEW r \in Requests, MoneyStart(r) PROVE IInv'
  <2>1. PICK a \in Accounts, m \in Amounts : Deposit(r, a, m) \/ Withdraw(r, a, m)
    BY <1>2 DEF MoneyStart
  <2>2. m \in Int /\ -m \in Int /\ "deposit" \in Kinds /\ "withdraw" \in Kinds
    BY BrokerAssumption DEF Kinds
  <2> QED BY <2>1, <2>2, MoneyOK DEF Deposit, Withdraw
<1>3. ASSUME NEW r \in Requests, LongStart(r) PROVE IInv'
  BY <1>3, CreateLongOK
<1>4. ASSUME NEW r \in Requests, Finish(r) PROVE IInv'
  BY <1>4, SellCheckOK, RequestEndsOK, ComputeOK, SaveOK DEF Finish
<1>5. ASSUME NEW b \in Batches, BatchBegin(b) PROVE IInv'
  BY <1>5, BatchBeginOK
<1>6. ASSUME NEW b \in Batches, BatchStep(b) PROVE IInv'
  BY <1>6, BatchSaveOverdueOK, LongBuyOK, LongSellOK, NotLongOK, BatchEndsOK DEF BatchStep
<1>7. ASSUME NEW r \in Requests, Fail(r) PROVE IInv'
  BY <1>7, RequestEndsOK
<1>8. ASSUME NEW b \in Batches, BatchFail(b) PROVE IInv'
  BY <1>8, BatchEndsOK
<1>9. CASE (\E t \in DOMAIN trades : Expire(t)) \/ UNCHANGED vars
  BY <1>9, ExpireOK
<1> QED
  BY <1>1, <1>2, <1>3, <1>4, <1>5, <1>6, <1>7, <1>8, <1>9 DEF Next, Reliable, Failure

(* The invariant holds in every reachable state.                           *)
THEOREM Invariance == Spec => []IInv
  BY InitOK, NextOK, PTL DEF Spec

(* TypeOK holds in every reachable state, for any constants.               *)
THEOREM TypeCorrect == Spec => []TypeOK
<1>1. IInv => TypeOK
  BY DEF IInv
<1> QED BY <1>1, Invariance, PTL

(* However requests, batches and failures interleave, no row of            *)
(* Ownedinstruments gets a negative quantity (SellAssets, ProcessLongSell).*)
THEOREM HoldingsNeverNegative == Spec => []NoNegativeHolding
<1>1. IInv => NoNegativeHolding
  BY DEF IInv
<1> QED BY <1>1, Invariance, PTL

(* However they interleave, the newest Balancehistory row of an account    *)
(* explains its balance: a lost update loses value and explanation alike.  *)
THEOREM HistoryExplainsBalance == Spec => []LastEntryMatchesBalance
<1>1. IInv => LastEntryMatchesBalance
  BY DEF IInv
<1> QED BY <1>1, Invariance, PTL

(* Whatever a request or a batch has prepared can be committed at any      *)
(* moment without breaking the two theorems above.                         *)
THEOREM PreparedWorkIsSound == Spec => []UnitsSound
<1>1. IInv => UnitsSound
  BY DEF IInv
<1> QED BY <1>1, Invariance, PTL

-----------------------------------------------------------------------------
(* The tasks of closed long trades have been started                       *)

\* The tasks of what u is about to close have been started, and u adds no
\* closed long trade.
Promised(u, tasks) ==
  /\ u.executed \cup u.failed \subseteq tasks
  /\ \A n \in DOMAIN u.trade :
       u.trade[n].dir \in {"longbuy", "longsell"} => ~u.trade[n].closed

AllPromised == \A s \in Sessions : Promised(uow[s], announced)

Whole(u) ==
  DOMAIN u = {"bal", "touched", "entries", "own", "base", "rows", "trade", "executed", "failed"}

Keeps(v, u) ==
  Whole(v) /\ v.trade = u.trade /\ v.executed = u.executed /\ v.failed = u.failed

LEMMA UnitIsWhole ==
  ASSUME NEW u \in UnitsOfWork
  PROVE  Whole(u)
BY DEF UnitsOfWork, Whole

LEMMA ChangeOwnedKeeps ==
  ASSUME NEW u, Whole(u), NEW j, NEW amount
  PROVE  Keeps(ChangeOwned(u, j, amount), u)
BY DEF Whole, Keeps, ChangeOwned

LEMMA AcquireKeeps ==
  ASSUME NEW u, Whole(u), NEW d, NEW v \in Acquire(u, d)
  PROVE  Keeps(v, u)
<1>1. Keeps(AddOwned(u, d), u)
  BY DEF Whole, Keeps, AddOwned
<1> QED BY <1>1, ChangeOwnedKeeps DEF Acquire

LEMMA UpdateBalanceKeeps ==
  ASSUME NEW u, Whole(u), NEW d
  PROVE  Keeps(UpdateBalance(u, d), u)
BY DEF Whole, Keeps, UpdateBalance

LEMMA CloseTradePromised ==
  ASSUME NEW u, Whole(u), NEW tasks, Promised(u, tasks), NEW t, NEW happened \in BOOLEAN
  PROVE  LET v == CloseTrade(u, t, happened)
         IN  Promised(v, tasks \cup v.executed \cup v.failed)
BY DEF Whole, Promised, CloseTrade

LEMMA GotoPromised ==
  ASSUME TypeOK, AllPromised, NEW s \in Sessions, NEW label, NEW w, Goto(s, label, w),
         Promised(w, announced'), announced \subseteq announced'
  PROVE  AllPromised'
<1>1. \A x \in Sessions : uow'[x] = IF x = s THEN w ELSE uow[x]
  BY DEF Goto, TypeOK
<1> QED BY <1>1 DEF AllPromised, Promised

LEMMA BlankPromised == \A tasks : Promised(Blank, tasks) /\ Whole(Blank)
BY DEF Blank, Promised, Whole

LEMMA AnnouncedSame ==
  ASSUME ClosedIsAnnounced, UNCHANGED trades, announced \subseteq announced'
  PROVE  ClosedIsAnnounced'
BY DEF ClosedIsAnnounced

LEMMA CommitAnnounced ==
  ASSUME IInv, ClosedIsAnnounced, NEW u \in UnitsOfWork, Promised(u, announced), Commit(u),
         UNCHANGED announced
  PROVE  ClosedIsAnnounced'
<1> DEFINE flag(t) == [trades[t] EXCEPT !.closed = TRUE, !.happened = t \in u.executed]
           old == [t \in DOMAIN trades |-> IF t \in u.executed \cup u.failed
                                             THEN flag(t) ELSE trades[t]]
<1>1. trades \in Seq(Trade) /\ u.trade \in Seq(Trade)
  BY DEF IInv, TypeOK, UnitsOfWork
<1>2. \A t \in DOMAIN trades :
        /\ old[t] \in Trade /\ old[t].dir = trades[t].dir
        /\ old[t].closed => trades[t].closed \/ t \in u.executed \cup u.failed
  <2> TAKE t \in DOMAIN trades
  <2>1. trades[t] \in Trade
    BY <1>1
  <2>2. flag(t) \in Trade /\ flag(t).dir = trades[t].dir
    <3> DEFINE happened == t \in u.executed
    <3>1. happened \in BOOLEAN /\ flag(t) = [trades[t] EXCEPT !.closed = TRUE, !.happened = happened]
      OBVIOUS
    <3> HIDE DEF happened, flag
    <3>2. [trades[t] EXCEPT !.closed = TRUE, !.happened = happened].dir = trades[t].dir
      BY <2>1 DEF Trade
    <3> QED BY <2>1, <3>1, <3>2, ClosingOK
  <2> QED BY <2>1, <2>2
<1>3. old \in Seq(Trade) /\ Len(old) = Len(trades)
  <2>1. DOMAIN trades = 1..Len(trades) /\ Len(trades) \in Nat /\ DOMAIN old = 1..Len(trades)
    BY <1>1
  <2>2. old = [t \in DOMAIN old |-> old[t]]
    OBVIOUS
  <2> HIDE DEF old
  <2> QED BY <1>2, <2>1, <2>2, FunctionIsSeq
<1>4. trades' = old \o u.trade
  BY DEF Commit
<1> HIDE DEF old
<1>5. /\ DOMAIN trades = 1..Len(old) /\ DOMAIN u.trade = 1..Len(u.trade)
      /\ \A t \in 1..Len(old) : trades'[t] = old[t]
      /\ \A t \in 1..Len(u.trade) : trades'[Len(old) + t] = u.trade[t]
      /\ \A t \in DOMAIN trades' : t \notin 1..Len(old) =>
           t - Len(old) \in 1..Len(u.trade) /\ Len(old) + (t - Len(old)) = t
  <2>1. DOMAIN trades = 1..Len(old)
    BY <1>1, <1>3
  <2> DEFINE new == u.trade
  <2>2. new \in Seq(Trade) /\ old \in Seq(Trade) /\ trades' = old \o new
    BY <1>1, <1>3, <1>4
  <2> HIDE DEF new
  <2>3. /\ Len(old) \in Nat /\ DOMAIN new = 1..Len(new) /\ Len(new) \in Nat
        /\ DOMAIN trades' = 1..(Len(old) + Len(new))
        /\ \A t \in 1..Len(old) : trades'[t] = old[t]
        /\ \A t \in 1..Len(new) : trades'[Len(old) + t] = new[t]
        /\ \A t \in DOMAIN trades' : t \notin 1..Len(old) => t - Len(old) \in 1..Len(new)
    BY <2>2, ConcatFacts
  <2> QED BY <2>1, <2>3 DEF new
<1>6. ASSUME NEW t \in DOMAIN trades', trades'[t].dir \in {"longbuy", "longsell"},
             trades'[t].closed, t \in DOMAIN OpeningTrades => ~OpeningTrades[t].closed
      PROVE  t \in announced
  <2>1. CASE t \in 1..Len(old)
    <3>1. trades'[t] = old[t] /\ t \in DOMAIN trades
      BY <1>5, <2>1
    <3>2. trades[t].closed \/ t \in u.executed \cup u.failed
      BY <1>2, <1>6, <3>1
    <3> QED BY <1>2, <1>6, <3>1, <3>2 DEF ClosedIsAnnounced, Promised
  <2>2. CASE t \notin 1..Len(old)
    <3>1. t - Len(old) \in DOMAIN u.trade /\ trades'[t] = u.trade[t - Len(old)]
      BY <1>5, <2>2
    <3> QED BY <1>6, <3>1 DEF Promised
  <2> QED BY <2>1, <2>2
<1> QED BY <1>6 DEF ClosedIsAnnounced

LEMMA RequestAnnounced ==
  ASSUME IInv, ClosedIsAnnounced, AllPromised, NEW r \in Requests,
         QuickStart(r) \/ MoneyStart(r) \/ LongStart(r) \/ Finish(r) \/ Fail(r)
  PROVE  ClosedIsAnnounced' /\ AllPromised'
<1> DEFINE u == uow[r]
<1>1. r \in Sessions /\ TypeOK /\ u \in UnitsOfWork /\ Whole(u) /\ Promised(u, announced)
  BY SessionFacts, UnitIsWhole DEF IInv, AllPromised, Sessions
<1> HIDE DEF u
<1>2. ASSUME NEW label, NEW w, Goto(r, label, w), Promised(w, announced), UNCHANGED <<trades, announced>>
      PROVE  ClosedIsAnnounced' /\ AllPromised'
  BY <1>1, <1>2, GotoPromised, AnnouncedSame
<1>3. ASSUME NEW label, NEW w, Goto(r, label, w), w.trade = u.trade,
             w.executed = u.executed, w.failed = u.failed, UNCHANGED <<trades, announced>>
      PROVE  ClosedIsAnnounced' /\ AllPromised'
  <2>1. Promised(w, announced)
    BY <1>1, <1>3 DEF Promised
  <2> QED BY <1>2, <1>3, <2>1
<1>4. ASSUME NEW d, d.dir \in {"buy", "sell"}, NEW label, NEW w, w.trade = <<d>>,
             w.executed = {}, w.failed = {}, Goto(r, label, w), UNCHANGED <<trades, announced>>
      PROVE  ClosedIsAnnounced' /\ AllPromised'
  <2>1. Promised(w, announced)
    BY <1>4 DEF Promised
  <2> QED BY <1>2, <1>4, <2>1
<1>5. CASE QuickStart(r)
  <2>1. PICK a \in Accounts, i \in Instruments, q \in Quantities, p \in Prices :
          BuyCheck(r, a, i, q, p) \/ SellReadBalance(r, a, i, q, p)
    BY <1>5 DEF QuickStart
  <2>2. ASSUME NEW dir \in {"buy", "sell"}, NEW label,
               Goto(r, label, [Blank EXCEPT !.bal = Track(a), !.trade = <<QuickTrade(a, i, dir, q, p)>>]),
               UNCHANGED <<trades, announced>>
        PROVE  ClosedIsAnnounced' /\ AllPromised'
    <3> DEFINE d == QuickTrade(a, i, dir, q, p)
               w == [Blank EXCEPT !.bal = Track(a), !.trade = <<d>>]
    <3>1. d.dir = dir
      BY DEF QuickTrade
    <3>2. w.trade = <<d>> /\ w.executed = {} /\ w.failed = {}
      BY DEF Blank
    <3>3. Goto(r, label, w)
      BY <2>2
    <3> HIDE DEF d, w
    <3> QED BY <1>4, <2>2, <3>1, <3>2, <3>3
  <2>3. CASE BuyCheck(r, a, i, q, p)
    BY <2>2, <2>3 DEF BuyCheck
  <2>4. CASE SellReadBalance(r, a, i, q, p)
    BY <2>2, <2>4 DEF SellReadBalance
  <2> QED BY <2>1, <2>3, <2>4
<1>6. CASE MoneyStart(r)
  <2>1. ASSUME NEW a, NEW difference, NEW kind, ModifyBalance(r, a, difference, kind)
        PROVE  ClosedIsAnnounced' /\ AllPromised'
    <3> DEFINE w == [Blank EXCEPT !.bal[a] = balance[a] + difference, !.touched = {a},
                                  !.entries = <<Entry(a, balance[a], difference, kind)>>]
    <3>1. Goto(r, "ready", w) /\ UNCHANGED <<trades, announced>>
      BY <2>1 DEF ModifyBalance
    <3>2. Promised(w, announced)
      BY DEF Blank, Promised
    <3> HIDE DEF w
    <3> QED BY <1>2, <3>1, <3>2
  <2> QED BY <1>6, <2>1 DEF MoneyStart, Deposit, Withdraw
<1>7. CASE LongStart(r)
  <2>1. PICK a \in Accounts, i \in Instruments, dir \in {"longbuy", "longsell"},
             q \in Quantities, p \in Prices : CreateLong(r, a, i, dir, q, p)
    BY <1>7 DEF LongStart
  <2> DEFINE d == [acct |-> a, instr |-> i, dir |-> dir, qty |-> q, price |-> p,
                   closed |-> FALSE, happened |-> FALSE]
             w == [Blank EXCEPT !.trade = <<d>>]
  <2>2. d \in Trade /\ ~d.closed
    BY BrokerAssumption DEF Trade, Directions
  <2>3. Commit(w) /\ Goto(r, "done", Blank) /\ UNCHANGED announced
    BY <2>1 DEF CreateLong
  <2> HIDE DEF d
  <2>4. w \in UnitsOfWork /\ Promised(w, announced)
    <3>1. Blank \in UnitsOfWork
      BY BlankSound DEF Sound
    <3>2. <<d>> \in Seq(Trade)
      BY <2>2
    <3>3. w \in UnitsOfWork
      BY <3>1, <3>2 DEF UnitsOfWork
    <3> QED BY <2>2, <3>3 DEF Blank, Promised
  <2> HIDE DEF w
  <2>5. AllPromised'
    BY <1>1, <2>3, BlankPromised, GotoPromised
  <2> QED BY <2>3, <2>4, <2>5, CommitAnnounced
<1>8. CASE SellCheck(r)
  <2> DEFINE d == u.trade[1]
             v == [u EXCEPT !.own = owned, !.base = Len(owned)]
  <2>1. PICK j \in RowsOf(owned, d) : Goto(r, "checked", ChangeOwned(v, j, -d.qty))
    BY <1>8 DEF SellCheck, u
  <2>2. Keeps(v, u)
    BY <1>1 DEF Whole, Keeps
  <2> HIDE DEF v, d
  <2>3. Keeps(ChangeOwned(v, j, -d.qty), v)
    BY <2>2, ChangeOwnedKeeps DEF Keeps
  <2> QED BY <1>3, <1>8, <2>1, <2>2, <2>3 DEF SellCheck, Keeps
<1>9. CASE Compute(r)
  <2> DEFINE d == u.trade[1]
             v == [u EXCEPT !.bal[Owner] = IF d.acct = Owner THEN @ ELSE balance[Owner]]
             full == [v EXCEPT !.own = owned, !.base = Len(owned)]
  <2>1. \/ Goto(r, "ready", UpdateBalance(v, d))
        \/ \E w \in Acquire(full, d) : Goto(r, "ready", UpdateBalance(w, d))
    BY <1>9 DEF Compute, u
  <2>2. Keeps(v, u)
    BY <1>1 DEF Whole, Keeps
  <2> HIDE DEF v
  <2>3. Keeps(full, v)
    BY <2>2 DEF Whole, Keeps
  <2> HIDE DEF full, d
  <2>4. Keeps(UpdateBalance(v, d), v)
    BY <2>2, UpdateBalanceKeeps DEF Keeps
  <2>5. \A w \in Acquire(full, d) : Keeps(w, full) /\ Keeps(UpdateBalance(w, d), w)
    BY <2>3, AcquireKeeps, UpdateBalanceKeeps DEF Keeps
  <2> QED BY <1>3, <1>9, <2>1, <2>2, <2>3, <2>4, <2>5 DEF Compute, Keeps
<1>10. CASE Save(r)
  <2>1. Commit(u) /\ Goto(r, "done", Blank) /\ UNCHANGED announced
    BY <1>10 DEF Save, u
  <2>2. AllPromised'
    BY <1>1, <2>1, BlankPromised, GotoPromised
  <2> QED BY <1>1, <2>1, <2>2, CommitAnnounced
<1>11. CASE SellRefuse(r) \/ Fail(r)
  BY <1>2, <1>11, BlankPromised DEF SellRefuse, Fail
<1> QED BY <1>5, <1>6, <1>7, <1>8, <1>9, <1>10, <1>11 DEF Finish

LEMMA BatchAnnounced ==
  ASSUME IInv, ClosedIsAnnounced, AllPromised, NEW b \in Batches,
         BatchBegin(b) \/ BatchStep(b) \/ BatchFail(b)
  PROVE  ClosedIsAnnounced' /\ AllPromised'
<1> DEFINE u == uow[b]
<1>1. b \in Sessions /\ TypeOK /\ u \in UnitsOfWork /\ Whole(u) /\ Promised(u, announced)
  BY SessionFacts, UnitIsWhole DEF IInv, AllPromised, Sessions
<1> HIDE DEF u
<1>2. ASSUME NEW label, NEW w, Goto(b, label, w), Promised(w, announced'),
             UNCHANGED trades, announced \subseteq announced'
      PROVE  ClosedIsAnnounced' /\ AllPromised'
  BY <1>1, <1>2, GotoPromised, AnnouncedSame
<1>3. ASSUME NEW t, NEW v, Handled(b, t, v), Promised(v, announced \cup v.executed \cup v.failed)
      PROVE  ClosedIsAnnounced' /\ AllPromised'
  BY <1>2, <1>3 DEF Handled
<1>4. ASSUME NEW t, Handled(b, t, u) PROVE ClosedIsAnnounced' /\ AllPromised'
  BY <1>1, <1>3, <1>4 DEF Promised
<1>5. ASSUME NEW t, NEW v, Keeps(v, u), NEW happened \in BOOLEAN, Handled(b, t, CloseTrade(v, t, happened))
      PROVE  ClosedIsAnnounced' /\ AllPromised'
  <2>1. Whole(v) /\ Promised(v, announced)
    BY <1>1, <1>5 DEF Keeps, Promised
  <2> QED BY <1>3, <1>5, <2>1, CloseTradePromised
<1>6. Keeps(u, u)
  BY <1>1 DEF Keeps
<1>7. CASE BatchBegin(b)
  <2> DEFINE w == [Blank EXCEPT !.bal = balance, !.own = owned, !.base = Len(owned),
                                !.failed = Open \cap expired]
  <2>1. Goto(b, "overdue", w) /\ announced' = announced \cup (Open \cap expired) /\ UNCHANGED trades
    BY <1>7 DEF BatchBegin
  <2>2. Promised(w, announced')
    BY <2>1 DEF Blank, Promised
  <2> HIDE DEF w
  <2> QED BY <1>2, <2>1, <2>2
<1>8. CASE BatchSaveOverdue(b)
  BY <1>1, <1>2, <1>8 DEF BatchSaveOverdue, u
<1>9. ASSUME NEW t \in todo[b], NEW low \in Prices, LongBuy(b, t, low)
      PROVE  ClosedIsAnnounced' /\ AllPromised'
  <2> DEFINE d == trades[t]
             v == UpdateBalance(u, d)
  <2>1. \/ Handled(b, t, u)
        \/ Handled(b, t, CloseTrade(u, t, FALSE))
        \/ \E w \in Acquire(v, d) : Handled(b, t, CloseTrade(w, t, TRUE))
    BY <1>9 DEF LongBuy, u
  <2>2. Keeps(v, u)
    BY <1>1, UpdateBalanceKeeps
  <2> HIDE DEF v, d
  <2>3. \A w \in Acquire(v, d) : Keeps(w, u)
    BY <2>2, AcquireKeeps DEF Keeps
  <2> QED BY <1>4, <1>5, <1>6, <2>1, <2>3
<1>10. ASSUME NEW t \in todo[b], NEW high \in Prices, LongSell(b, t, high)
       PROVE  ClosedIsAnnounced' /\ AllPromised'
  <2> DEFINE d == trades[t]
             v == UpdateBalance(u, d)
  <2>1. \/ Handled(b, t, u)
        \/ Handled(b, t, CloseTrade(u, t, FALSE))
        \/ \E j : Handled(b, t, CloseTrade(ChangeOwned(v, j, -d.qty), t, TRUE))
    BY <1>10 DEF LongSell, u
  <2>2. Keeps(v, u)
    BY <1>1, UpdateBalanceKeeps
  <2> HIDE DEF v, d
  <2>3. \A j : Keeps(ChangeOwned(v, j, -d.qty), u)
    BY <2>2, ChangeOwnedKeeps DEF Keeps
  <2> QED BY <1>4, <1>5, <1>6, <2>1, <2>3
<1>11. CASE BatchCommit(b)
  <2>1. Commit(u) /\ Goto(b, "idle", Blank) /\ UNCHANGED announced
    BY <1>11 DEF BatchCommit, u
  <2>2. AllPromised'
    BY <1>1, <2>1, BlankPromised, GotoPromised
  <2> QED BY <1>1, <2>1, <2>2, CommitAnnounced
<1>12. CASE BatchFail(b)
  <2>1. Goto(b, "idle", Blank) /\ UNCHANGED trades /\ announced \subseteq announced'
    BY <1>12 DEF BatchFail
  <2> QED BY <1>2, <2>1, BlankPromised
<1>13. ASSUME NEW t \in todo[b], NotLong(b, t)
       PROVE  ClosedIsAnnounced' /\ AllPromised'
  BY <1>5, <1>6, <1>13 DEF NotLong, u
<1> QED BY <1>7, <1>8, <1>9, <1>10, <1>11, <1>12, <1>13 DEF BatchStep

(* However batches interleave, fail and are repeated, no long trade is     *)
(* closed in the table before the task that posts it to the engine has     *)
(* been started (OnTradeClosed).  Nothing follows about the POST, which    *)
(* may fail or be lost.                                                    *)
THEOREM ClosingsAreAnnounced == Spec => []ClosedIsAnnounced
<1>1. Init => ClosedIsAnnounced /\ AllPromised
  BY BlankPromised DEF Init, ClosedIsAnnounced, AllPromised
<1>2. ASSUME IInv, ClosedIsAnnounced, AllPromised, [Next]_vars
      PROVE  ClosedIsAnnounced' /\ AllPromised'
  <2>1. CASE (\E t \in DOMAIN trades : Expire(t)) \/ UNCHANGED vars
    BY <1>2, <2>1 DEF Expire, vars, ClosedIsAnnounced, AllPromised
  <2> QED BY <1>2, <2>1, RequestAnnounced, BatchAnnounced DEF Next, Reliable, Failure
<1> QED BY <1>1, <1>2, Invariance, PTL DEF Spec

=============================================================================
