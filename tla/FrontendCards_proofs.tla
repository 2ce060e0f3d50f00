------------------------ MODULE FrontendCards_proofs -------------------------
(***************************************************************************)
(* Theorems about the credit card pages, for any number of calls, orders   *)
(* and faults: types, forms that are released, revocations of the card     *)
(* that is shown, the one way in which a page throws, and that what has    *)
(* settled is current.                                                     *)
(***************************************************************************)
EXTENDS FrontendCards, TLAPS

Pages == CardPages \cup {"home", "error", "start"}

Navs == [to : CardPages \cup {"home"}, await : SUBSET Queries]

Calls == [kind : {"none", "order", "revoke"}, for : 0..MaxOrders, mounted : BOOLEAN,
          at : {"idle", "sent", "done", "refused", "refreshing", "lost"}]

Causes == {"hasty", "astray", "failed", "abandoned", "meddled"}

Orders == {None} \cup {Order(id, s) : id \in 1..MaxOrders, s \in Stages}

Readings == {None, Error} \cup {Order(id, s) : id \in 1..MaxOrders, s \in Stages}

-----------------------------------------------------------------------------
(* What the API answers                                                    *)

LEMMA ReadingFields ==
  ASSUME NEW x \in Readings
  PROVE  /\ x.id \in 0..MaxOrders /\ x = Order(x.id, x.stage)
         /\ \/ x = None /\ x.id = 0 /\ x.stage = "none"
            \/ x = Error /\ x.id = 0 /\ x.stage = "error"
            \/ x.id # 0 /\ x.stage \in {"ordered", "card_delivered"}
<1>1. CASE x = None \/ x = Error
  BY <1>1, CardPagesAssumption DEF None, Error, Order
<1>2. CASE x \in {Order(id, s) : id \in 1..MaxOrders, s \in Stages}
  <2>1. PICK id \in 1..MaxOrders, s \in Stages : x = Order(id, s)
    BY <1>2
  <2>2. x.id = id /\ x.stage = s
    BY <2>1 DEF Order
  <2> QED BY <2>1, <2>2, CardPagesAssumption DEF Stages
<1> QED BY <1>1, <1>2 DEF Readings

LEMMA OrderFields ==
  /\ Orders \subseteq Readings /\ None \in Orders /\ Error \in Readings
  /\ None.id = 0 /\ None.stage = "none" /\ Error.id = 0 /\ Error.stage = "error"
  /\ \A x \in Orders : x.id = 0 <=> x = None
  /\ \A id \in 1..MaxOrders, s \in Stages :
       Order(id, s) \in Orders /\ Order(id, s).id = id /\ Order(id, s).stage = s
<1>1. None.id = 0 /\ None.stage = "none" /\ Error.id = 0 /\ Error.stage = "error"
  BY DEF None, Error, Order
<1>2. Orders \subseteq Readings /\ None \in Orders /\ Error \in Readings
  BY DEF Orders, Readings
<1>3. \A id \in 1..MaxOrders, s \in Stages :
        Order(id, s) \in Orders /\ Order(id, s).id = id /\ Order(id, s).stage = s
  BY DEF Order, Orders
<1>4. ASSUME NEW x \in Orders PROVE x.id = 0 <=> x = None
  <2>1. CASE x = None
    BY <2>1, <1>1
  <2>2. CASE x \in {Order(id, s) : id \in 1..MaxOrders, s \in Stages}
    <3>1. PICK id \in 1..MaxOrders, s \in Stages : x = Order(id, s)
      BY <2>2
    <3>2. x.id = id /\ id # 0
      BY <3>1, <1>3, CardPagesAssumption
    <3> QED BY <3>2, <1>1
  <2> QED BY <2>1, <2>2 DEF Orders
<1> QED BY <1>1, <1>2, <1>3, <1>4

-----------------------------------------------------------------------------
(* The entries of the cache                                                *)

\* The answers that an entry holds, and those on their way to it.
Read(e) == {d.ver : d \in e.data}

Got(e) == UNION {f.got : f \in e.fetch}

Seen(e) == Read(e) \cup Got(e)

Fetches == [for : {"account"}, got : QC!AtMostOne(Readings)]

Values == [owner : {"account"}, ver : Readings]

LEMMA AtMostOneIntro ==
  ASSUME NEW S, NEW x \in S
  PROVE  {} \in QC!AtMostOne(S) /\ {x} \in QC!AtMostOne(S)
BY DEF QC!AtMostOne

LEMMA AtMostOneElim ==
  ASSUME NEW S, NEW T \in QC!AtMostOne(S)
  PROVE  T = {} \/ \E x \in S : T = {x}
BY DEF QC!AtMostOne

LEMMA NothingIsOne ==
  ASSUME NEW S
  PROVE  {} \in QC!AtMostOne(S)
BY DEF QC!AtMostOne

LEMMA EntryFields ==
  ASSUME NEW e \in QC!Entries
  PROVE  /\ e.data \in QC!AtMostOne(Values) /\ e.fresh \in BOOLEAN
         /\ e.fetch \in QC!AtMostOne(Fetches)
         /\ e = [data |-> e.data, fresh |-> e.fresh, fetch |-> e.fetch]
BY DEF QC!Entries, Readings, Values, Fetches

LEMMA EntryIntro ==
  ASSUME NEW d \in QC!AtMostOne(Values), NEW b \in BOOLEAN, NEW f \in QC!AtMostOne(Fetches)
  PROVE  [data |-> d, fresh |-> b, fetch |-> f] \in QC!Entries
BY DEF QC!Entries, Readings, Values, Fetches

\* An entry shows one answer at most, and waits for one at most.
LEMMA EntryShows ==
  ASSUME NEW e \in QC!Entries
  PROVE  /\ e.data = {} \/ \E d \in Values : e.data = {d} /\ Read(e) = {d.ver}
         /\ e.fetch = {} \/ \E f \in Fetches : e.fetch = {f} /\ Got(e) = f.got
         /\ Seen(e) \subseteq Readings
         /\ QC!HasData(e) <=> Read(e) # {}
<1>1. e.data = {} \/ \E d \in Values : e.data = {d}
  BY EntryFields, AtMostOneElim
<1>2. e.fetch = {} \/ \E f \in Fetches : e.fetch = {f}
  BY EntryFields, AtMostOneElim
<1>3. e.data = {} \/ \E d \in Values : e.data = {d} /\ Read(e) = {d.ver}
  BY <1>1 DEF Read
<1>4. e.fetch = {} \/ \E f \in Fetches : e.fetch = {f} /\ Got(e) = f.got
  BY <1>2 DEF Got
<1>5. \A f \in Fetches : f.got \subseteq Readings
  <2> SUFFICES ASSUME NEW f \in Fetches PROVE f.got \subseteq Readings
    OBVIOUS
  <2> DEFINE got == f.got
  <2>1. got \in QC!AtMostOne(Readings)
    BY DEF Fetches
  <2> HIDE DEF got
  <2>2. got = {} \/ \E x \in Readings : got = {x}
    BY <2>1, AtMostOneElim
  <2>3. got \subseteq Readings
    BY <2>2
  <2> QED BY <2>3 DEF got
<1>6. \A d \in Values : d.ver \in Readings
  BY DEF Values
<1>7. Read(e) \subseteq Readings
  BY <1>3, <1>6 DEF Read
<1>8. Got(e) \subseteq Readings
  <2>1. CASE e.fetch = {}
    BY <2>1 DEF Got
  <2> QED BY <2>1, <1>4, <1>5
<1>9. QC!HasData(e) <=> Read(e) # {}
  BY <1>3 DEF QC!HasData, Read
<1> QED BY <1>3, <1>4, <1>7, <1>8, <1>9 DEF Seen

LEMMA FreshOrNot ==
  ASSUME NEW e \in QC!Entries, NEW b \in BOOLEAN
  PROVE  [e EXCEPT !.fresh = b] \in QC!Entries
<1>1. /\ e.data \in QC!AtMostOne(Values) /\ e.fetch \in QC!AtMostOne(Fetches)
      /\ e = [data |-> e.data, fresh |-> e.fresh, fetch |-> e.fetch]
  BY EntryFields
<1>2. [e EXCEPT !.fresh = b] = [data |-> e.data, fresh |-> b, fetch |-> e.fetch]
  BY <1>1
<1> QED BY <1>1, <1>2, EntryIntro

LEMMA AbsentIsEntry ==
  /\ QC!Absent \in QC!Entries /\ Seen(QC!Absent) = {} /\ ~QC!Absent.fresh
  /\ ~QC!HasData(QC!Absent) /\ ~QC!Fetching(QC!Absent)
<1>1. QC!Absent \in QC!Entries
  BY NothingIsOne, EntryIntro DEF QC!Absent
<1>2. /\ QC!Absent.data = {} /\ QC!Absent.fetch = {} /\ ~QC!Absent.fresh
  BY DEF QC!Absent
<1> QED BY <1>1, <1>2 DEF Seen, Read, Got, QC!HasData, QC!Fetching

\* Entry f comes from e by reads that are started; none in flight is given up.
Touched(e, f) ==
  /\ f \in QC!Entries
  /\ f.data = e.data /\ (f.fresh => e.fresh)
  /\ \A x \in f.fetch : x \in e.fetch \/ x.got = {}
  /\ QC!Fetching(e) => QC!Fetching(f)

LEMMA TouchedSees ==
  ASSUME NEW e, NEW f, Touched(e, f)
  PROVE  /\ Read(f) = Read(e) /\ Got(f) \subseteq Got(e) /\ Seen(f) \subseteq Seen(e)
         /\ QC!HasData(f) <=> QC!HasData(e)
BY DEF Touched, Read, Got, Seen, QC!HasData

LEMMA TouchedAgain ==
  ASSUME NEW e, NEW f, NEW g, Touched(e, f), Touched(f, g)
  PROVE  Touched(e, g)
BY DEF Touched

\* Reading, marking and invalidating touch an entry.
LEMMA TouchingOperators ==
  ASSUME NEW e \in QC!Entries, NEW w \in BOOLEAN
  PROVE  /\ Touched(e, e)
         /\ Touched(e, QC!Aged(e)) /\ ~QC!Aged(e).fresh
         /\ QC!Aged(e).fetch = e.fetch
         /\ Touched(e, QC!Ensure(e, "account"))
         /\ ~QC!HasData(e) => QC!Fetching(QC!Ensure(e, "account"))
         /\ Touched(e, QC!Watch(e, "account"))
         /\ Touched(e, QC!Invalidate(e, "account", w))
         /\ ~QC!Invalidate(e, "account", w).fresh
         /\ ~w => QC!Invalidate(e, "account", w).fetch = e.fetch
         /\ w => QC!Fetching(QC!Invalidate(e, "account", w))
         /\ w /\ QC!HasData(e) => Got(QC!Invalidate(e, "account", w)) = {}
<1> DEFINE Asked == [for |-> "account", got |-> {}]
<1>1. {Asked} \in QC!AtMostOne(Fetches) /\ Asked.got = {}
  <2>1. Asked \in Fetches
    BY NothingIsOne DEF Fetches
  <2>2. Asked.got = {}
    OBVIOUS
  <2> HIDE DEF Asked
  <2> QED BY <2>1, <2>2, AtMostOneIntro
<1>2. ASSUME NEW d \in QC!Entries
      PROVE  /\ QC!Aged(d) \in QC!Entries /\ ~QC!Aged(d).fresh
             /\ QC!Aged(d).data = d.data /\ QC!Aged(d).fetch = d.fetch
             /\ QC!Request(d, "account") \in QC!Entries
             /\ QC!Request(d, "account").data = d.data
             /\ QC!Request(d, "account").fresh = d.fresh
             /\ QC!Request(d, "account").fetch = {Asked}
  <2>1. QC!Aged(d) \in QC!Entries
    BY FreshOrNot DEF QC!Aged
  <2>2. /\ d.data \in QC!AtMostOne(Values) /\ d.fresh \in BOOLEAN
        /\ d = [data |-> d.data, fresh |-> d.fresh, fetch |-> d.fetch]
    BY EntryFields
  <2>3. QC!Aged(d).data = d.data /\ QC!Aged(d).fetch = d.fetch /\ QC!Aged(d).fresh = FALSE
    BY <2>2 DEF QC!Aged
  <2>4. QC!Request(d, "account") = [data |-> d.data, fresh |-> d.fresh, fetch |-> {Asked}]
    BY <2>2 DEF QC!Request
  <2> HIDE DEF Asked
  <2>5. QC!Request(d, "account") \in QC!Entries
    BY <1>1, <2>2, <2>4, EntryIntro
  <2> QED BY <2>1, <2>3, <2>4, <2>5
<1> HIDE DEF Asked
<1>3. Touched(e, e) /\ Touched(e, QC!Aged(e)) /\ ~QC!Aged(e).fresh /\ QC!Aged(e).fetch = e.fetch
  BY <1>2 DEF Touched, QC!Fetching
<1>4. ASSUME NEW d \in QC!Entries
      PROVE  /\ Touched(d, QC!Request(d, "account")) /\ Touched(d, QC!Join(d, "account"))
             /\ QC!Fetching(QC!Request(d, "account")) /\ QC!Fetching(QC!Join(d, "account"))
             /\ QC!Join(d, "account").fresh = d.fresh
             /\ Got(QC!Request(d, "account")) = {}
  <2>1. Touched(d, QC!Request(d, "account")) /\ QC!Fetching(QC!Request(d, "account"))
    BY <1>1, <1>2 DEF Touched, QC!Fetching
  <2>2. Touched(d, d)
    BY DEF Touched
  <2>3. Got(QC!Request(d, "account")) = {}
    BY <1>1, <1>2 DEF Got
  <2> QED BY <2>1, <2>2, <2>3, <1>2 DEF QC!Join
<1>5. /\ Touched(e, QC!Ensure(e, "account")) /\ Touched(e, QC!Watch(e, "account"))
      /\ ~QC!HasData(e) => QC!Fetching(QC!Ensure(e, "account"))
  BY <1>3, <1>4 DEF QC!Ensure, QC!Watch
<1>6. /\ Touched(e, QC!Request(QC!Aged(e), "account")) /\ Touched(e, QC!Join(QC!Aged(e), "account"))
      /\ ~QC!Request(QC!Aged(e), "account").fresh /\ ~QC!Join(QC!Aged(e), "account").fresh
      /\ QC!Fetching(QC!Request(QC!Aged(e), "account")) /\ QC!Fetching(QC!Join(QC!Aged(e), "account"))
      /\ Got(QC!Request(QC!Aged(e), "account")) = {}
  BY <1>2, <1>3, <1>4, TouchedAgain
<1>7. /\ Touched(e, QC!Invalidate(e, "account", w)) /\ ~QC!Invalidate(e, "account", w).fresh
      /\ ~w => QC!Invalidate(e, "account", w).fetch = e.fetch
      /\ w => QC!Fetching(QC!Invalidate(e, "account", w))
      /\ w /\ QC!HasData(e) => Got(QC!Invalidate(e, "account", w)) = {}
  BY <1>3, <1>6 DEF QC!Invalidate
<1> QED BY <1>3, <1>5, <1>7

\* The server answers, or an answer lands.
LEMMA AnsweringOperators ==
  ASSUME NEW e \in QC!Entries, NEW v \in Readings
  PROVE  /\ QC!Served(e, v) \in QC!Entries
         /\ QC!Served(e, v).data = e.data /\ QC!Served(e, v).fresh = e.fresh
         /\ QC!Fetching(QC!Served(e, v)) <=> QC!Fetching(e)
         /\ Got(QC!Served(e, v)) \subseteq {v}
         /\ \A f \in e.fetch : f.got # {} =>
              /\ QC!Landed(f) \in QC!Entries
              /\ Read(QC!Landed(f)) = Got(e) /\ Got(QC!Landed(f)) = {}
              /\ QC!HasData(QC!Landed(f)) /\ ~QC!Fetching(QC!Landed(f))
<1> DEFINE Filled(f) == [for |-> f.for, got |-> {v}]
           Answers == {Filled(f) : f \in e.fetch}
<1>1. /\ e.data \in QC!AtMostOne(Values) /\ e.fresh \in BOOLEAN
      /\ e = [data |-> e.data, fresh |-> e.fresh, fetch |-> e.fetch]
  BY EntryFields
<1>2. QC!Served(e, v) = [data |-> e.data, fresh |-> e.fresh, fetch |-> Answers]
  BY <1>1 DEF QC!Served
<1>3. \A f \in Fetches : Filled(f) \in Fetches /\ Filled(f).got = {v}
  <2>1. {v} \in QC!AtMostOne(Readings)
    BY AtMostOneIntro
  <2> QED BY <2>1 DEF Fetches
<1>4. (Answers = {} /\ e.fetch = {}) \/ \E f \in Fetches : e.fetch = {f} /\ Answers = {Filled(f)}
  BY EntryShows
<1> HIDE DEF Answers, Reply
<1>5. Answers \in QC!AtMostOne(Fetches)
  BY <1>3, <1>4, NothingIsOne, AtMostOneIntro
<1>6. QC!Served(e, v) \in QC!Entries
  BY <1>1, <1>2, <1>5, EntryIntro
<1>7. /\ QC!Served(e, v).data = e.data /\ QC!Served(e, v).fresh = e.fresh
      /\ QC!Served(e, v).fetch = Answers
  BY <1>2
<1>8. QC!Fetching(QC!Served(e, v)) <=> QC!Fetching(e)
  BY <1>4, <1>7 DEF QC!Fetching
<1>9. Got(QC!Served(e, v)) \subseteq {v}
  BY <1>3, <1>4, <1>7 DEF Got
<1>10. ASSUME NEW f \in e.fetch, f.got # {}
       PROVE  /\ QC!Landed(f) \in QC!Entries
              /\ Read(QC!Landed(f)) = Got(e) /\ Got(QC!Landed(f)) = {}
              /\ QC!HasData(QC!Landed(f)) /\ ~QC!Fetching(QC!Landed(f))
  <2> DEFINE Landing == {QC!Value(f.for, x) : x \in f.got}
             got == f.got
  <2>1. e.fetch = {f} /\ f \in Fetches /\ Got(e) = f.got
    BY EntryShows
  <2>2. got \in QC!AtMostOne(Readings) /\ f.for = "account"
    BY <2>1 DEF Fetches
  <2>3. PICK x \in Readings : f.got = {x}
    <3> HIDE DEF got
    <3>1. got = {} \/ \E x \in Readings : got = {x}
      BY <2>2, AtMostOneElim
    <3> QED BY <3>1, <1>10 DEF got
  <2>4. Landing = {QC!Value("account", x)}
    BY <2>2, <2>3
  <2>5. QC!Value("account", x) \in Values /\ QC!Value("account", x).ver = x
    BY DEF QC!Value, Values
  <2> HIDE DEF Landing, got
  <2>6. Landing \in QC!AtMostOne(Values)
    BY <2>4, <2>5, AtMostOneIntro
  <2>7. QC!Landed(f) = [data |-> Landing, fresh |-> TRUE, fetch |-> {}]
    BY DEF QC!Landed, Landing
  <2>8. QC!Landed(f) \in QC!Entries
    BY <2>6, <2>7, NothingIsOne, EntryIntro
  <2>9. QC!Landed(f).data = Landing /\ QC!Landed(f).fetch = {}
    BY <2>7
  <2> QED BY <2>1, <2>3, <2>4, <2>5, <2>8, <2>9 DEF Read, Got, QC!HasData, QC!Fetching
<1> QED BY <1>6, <1>7, <1>8, <1>9, <1>10
-----------------------------------------------------------------------------
(* What is rendered, and where to go                                       *)

\* The calls are the same, up to the forms that are mounted.
SameCalls(cs, cs2) ==
  \A s \in Slots : cs2[s].kind = cs[s].kind /\ cs2[s].for = cs[s].for /\ cs2[s].at = cs[s].at

Typed(c, cs) == c \in [Queries -> QC!Entries] /\ cs \in [Slots -> Calls]

LEMMA TypesNamed ==
  TypeOK <=> /\ page \in Pages /\ nav \in QC!AtMostOne(Navs)
             /\ Typed(cache, calls)
             /\ order \in Orders /\ last \in 0..MaxOrders /\ faults \in 0..MaxFaults
             /\ untimely \subseteq Queries /\ causes \subseteq Causes
BY DEF TypeOK, Typed, Pages, Navs, Calls, Orders, Causes

LEMMA TypesPrimed ==
  ASSUME page' \in Pages, nav' \in QC!AtMostOne(Navs),
         cache' \in [Queries -> QC!Entries], calls' \in [Slots -> Calls],
         order' \in Orders, last' \in 0..MaxOrders, faults' \in 0..MaxFaults,
         untimely' \subseteq Queries, causes' \subseteq Causes
  PROVE  TypeOK'
BY DEF TypeOK, Pages, Navs, Calls, Orders, Causes

LEMMA MountedOrNot ==
  ASSUME NEW x \in Calls, NEW b \in BOOLEAN
  PROVE  /\ [x EXCEPT !.mounted = b] \in Calls
         /\ [x EXCEPT !.mounted = b].kind = x.kind
         /\ [x EXCEPT !.mounted = b].for = x.for
         /\ [x EXCEPT !.mounted = b].at = x.at
BY DEF Calls

LEMMA Renderings ==
  ASSUME NEW p \in Pages, NEW c, NEW cs, Typed(c, cs), Render(p, c, cs)
  PROVE  /\ page' \in Pages /\ page' \in {p, "error"}
         /\ page' = "error" => p = "error" \/ Throws(p, c)
         /\ Typed(cache, calls)' /\ SameCalls(cs, calls')
         /\ \A q \in Queries : Touched(c[q], cache'[q])
         /\ QC!Fetching(cache'["history"]) =>
              QC!Fetching(c["history"]) \/ (page' = "status" /\ Renders("status", c))
<1> DEFINE shown == IF Throws(p, c) THEN "error" ELSE p
           form(x) == x.mounted /\ Renders(shown, c)
                      /\ shown = (IF x.kind = "revoke" THEN "active" ELSE "order")
           seen == (IF shown \in CardPages /\ page \notin CardPages THEN {"status"} ELSE {})
                   \cup (IF shown = "status" /\ Renders(shown, c) /\ "history" \notin Observed
                         THEN {"history"} ELSE {})
<1>1. /\ page' = shown
      /\ cache' = [q \in Queries |-> IF q \in seen THEN QC!Watch(c[q], "account") ELSE c[q]]
      /\ calls' = [s \in Slots |-> [cs[s] EXCEPT !.mounted = form(cs[s])]]
  BY DEF Render
<1>2. page' \in Pages /\ page' \in {p, "error"} /\ (page' = "error" => p = "error" \/ Throws(p, c))
  BY <1>1 DEF Pages
<1>3. "history" \in seen => page' = "status" /\ Renders("status", c)
  BY <1>1
<1>4. /\ cache' \in [Queries -> QC!Entries]
      /\ \A q \in Queries : Touched(c[q], cache'[q])
      /\ \A q \in Queries : q \notin seen => cache'[q] = c[q]
  <2> HIDE DEF seen
  <2>1. \A q \in Queries : c[q] \in QC!Entries
    BY DEF Typed
  <2>2. \A q \in Queries : Touched(c[q], c[q]) /\ Touched(c[q], QC!Watch(c[q], "account"))
    BY <2>1, TouchingOperators
  <2>3. \A q \in Queries : /\ Touched(c[q], cache'[q])
                           /\ q \notin seen => cache'[q] = c[q]
    BY <1>1, <2>2
  <2>4. \A q \in Queries : cache'[q] \in QC!Entries
    BY <2>3 DEF Touched
  <2> QED BY <1>1, <2>3, <2>4
<1>5. calls' \in [Slots -> Calls] /\ SameCalls(cs, calls')
  <2>1. \A s \in Slots : form(cs[s]) \in BOOLEAN
    OBVIOUS
  <2> HIDE DEF form
  <2>2. \A s \in Slots : cs[s] \in Calls
    BY DEF Typed
  <2>3. \A s \in Slots : /\ calls'[s] = [cs[s] EXCEPT !.mounted = form(cs[s])]
                         /\ calls'[s] \in Calls
                         /\ calls'[s].kind = cs[s].kind /\ calls'[s].for = cs[s].for
                         /\ calls'[s].at = cs[s].at
    BY <1>1, <2>1, <2>2, MountedOrNot
  <2> QED BY <1>1, <2>3 DEF SameCalls
<1>6. QC!Fetching(cache'["history"]) =>
        QC!Fetching(c["history"]) \/ (page' = "status" /\ Renders("status", c))
  BY <1>3, <1>4 DEF Queries
<1> QED BY <1>2, <1>4, <1>5, <1>6 DEF Typed

LEMMA DestinationFact ==
  ASSUME NEW c
  PROVE  /\ Destination(c) \in CardPages
         /\ Destination(c) = "active" => \E d \in c["status"].data : d.ver.stage = "card_delivered"
         /\ Destination(c) = "status" =>
              /\ ~Holds(c, "status", None)
              /\ ~\E d \in c["status"].data : d.ver.stage = "card_delivered"
BY DEF Destination, CardPages

LEMMA Goings ==
  ASSUME NEW from \in Pages, NEW p \in CardPages \cup {"home"}, NEW c \in [Queries -> QC!Entries],
         GoTo(from, p, c)
  PROVE  /\ nav' \in QC!AtMostOne(Navs) /\ cache' \in [Queries -> QC!Entries]
         /\ \A q \in Queries : Touched(c[q], cache'[q])
         /\ \A n \in nav' : /\ n.to = p
                            /\ p \in CardPages /\ from \notin CardPages /\ "status" \notin n.await =>
                                 QC!HasData(c["status"])
         /\ QC!Fetching(cache'["history"]) => QC!Fetching(c["history"]) \/ p = "status"
<1> DEFINE needed == Awaited(from, p)
           n0 == [to |-> p, await |-> {q \in needed : ~QC!HasData(c[q])}]
<1>1. /\ cache' = [q \in Queries |-> IF q \in needed THEN QC!Ensure(c[q], "account") ELSE c[q]]
      /\ nav' = {n0}
  BY DEF GoTo
<1>2. needed \subseteq Queries /\ ("history" \in needed => p = "status")
      /\ (p \in CardPages /\ from \notin CardPages => "status" \in needed)
  BY DEF Awaited, Queries
<1>3. nav' \in QC!AtMostOne(Navs)
  <2>1. n0 \in Navs
    BY <1>2 DEF Navs
  <2> HIDE DEF n0
  <2> QED BY <1>1, <2>1, AtMostOneIntro
<1>4. \A n \in nav' : /\ n.to = p
                      /\ p \in CardPages /\ from \notin CardPages /\ "status" \notin n.await =>
                           QC!HasData(c["status"])
  BY <1>1, <1>2
<1> HIDE DEF needed, n0
<1>5. \A q \in Queries : Touched(c[q], c[q]) /\ Touched(c[q], QC!Ensure(c[q], "account"))
  BY TouchingOperators
<1>6. \A q \in Queries : /\ Touched(c[q], cache'[q])
                         /\ q \notin needed => cache'[q] = c[q]
  BY <1>1, <1>5
<1>7. cache' \in [Queries -> QC!Entries]
  BY <1>1, <1>6 DEF Touched
<1>8. QC!Fetching(cache'["history"]) => QC!Fetching(c["history"]) \/ p = "status"
  BY <1>2, <1>6 DEF Queries
<1> QED BY <1>3, <1>4, <1>6, <1>7, <1>8

-----------------------------------------------------------------------------
(* What the steps do                                                       *)

\* A card page, and one that a navigation may arrive at, has a status.
Shown ==
  page \in CardPages \/ (\E n \in nav : n.to \in CardPages /\ "status" \notin n.await)
  => QC!HasData(cache["status"])

\* The status that is cached calls for the status page.
StatusShown(c) == Destination(c) = "status" /\ QC!HasData(c["status"])

\* Reads are started and values age; nothing else happens.
Touching ==
  \/ Navigate("home") \/ Navigate("index") \/ Redirect \/ Arrive \/ Focus
  \/ \E q \in Queries : Age(q)
  \/ UNCHANGED vars

\* A fault is counted, and its cause recorded for good.
LEMMA FaultFact ==
  ASSUME TypeOK, NEW cause \in Causes, Fault(cause)
  PROVE  faults' \in 0..MaxFaults /\ causes' = causes \cup {cause} /\ causes' \subseteq Causes
BY TypesNamed, CardPagesAssumption DEF Fault

LEMMA OrphanedFact ==
  ASSUME TypeOK, NEW s \in Slots
  PROVE  /\ Orphaned(s) \in Calls
         /\ \/ Orphaned(s) = Idle
            \/ /\ calls[s].at \in {"sent", "lost"} /\ Orphaned(s).at = "lost"
               /\ Orphaned(s).kind = calls[s].kind /\ Orphaned(s).for = calls[s].for
<1>1. calls[s] \in Calls /\ Idle \in Calls
  BY TypesNamed, CardPagesAssumption DEF Typed, Idle, Calls
<1>2. PICK x : x = [calls[s] EXCEPT !.at = "lost", !.mounted = FALSE]
  OBVIOUS
<1>3. x \in Calls /\ x.at = "lost" /\ x.kind = calls[s].kind /\ x.for = calls[s].for
  BY <1>1, <1>2 DEF Calls
<1>4. Orphaned(s) = IF calls[s].at \in {"sent", "lost"} THEN x ELSE Idle
  BY <1>2 DEF Orphaned
<1> QED BY <1>1, <1>3, <1>4

LEMMA StepCases ==
  ASSUME [Next]_vars
  PROVE  \/ Touching
         \/ \E p \in Entrances : Reload(p)
         \/ \E q \in Queries : Collect(q) \/ Serve(q) \/ Land(q)
         \/ OrderCard \/ RevokeCard
         \/ \E s \in Slots : CarryOut(s) \/ Answered(s) \/ Refused(s) \/ AnswerLost(s)
         \/ Delivered \/ Meddle
BY DEF Next, Moves, Reads, CallSteps, Touching

Touches ==
  /\ \A q \in Queries : Touched(cache[q], cache'[q])
  /\ SameCalls(calls, calls')
  /\ UNCHANGED <<order, last, faults, untimely, causes>>

LEMMA GoingTouches ==
  ASSUME TypeOK, NEW p \in CardPages \cup {"home"}, GoTo(page, p, cache),
         UNCHANGED <<page, calls, order, last, faults, untimely, causes>>
  PROVE  /\ TypeOK' /\ Touches /\ page' = page
         /\ Shown => Shown'
         /\ QC!Fetching(cache'["history"]) => QC!Fetching(cache["history"]) \/ p = "status"
<1>1. /\ nav' \in QC!AtMostOne(Navs) /\ cache' \in [Queries -> QC!Entries]
      /\ \A q \in Queries : Touched(cache[q], cache'[q])
      /\ \A n \in nav' : /\ n.to = p
                         /\ p \in CardPages /\ page \notin CardPages /\ "status" \notin n.await =>
                              QC!HasData(cache["status"])
      /\ QC!Fetching(cache'["history"]) => QC!Fetching(cache["history"]) \/ p = "status"
  BY Goings, TypesNamed DEF Typed
<1>2. Touches
  BY <1>1 DEF Touches, SameCalls
<1>3. TypeOK'
  BY <1>1, TypesNamed, TypesPrimed DEF Typed
<1>4. QC!HasData(cache'["status"]) <=> QC!HasData(cache["status"])
  BY <1>1, TouchedSees DEF Queries
<1>5. Shown => Shown'
  BY <1>1, <1>4 DEF Shown
<1> QED BY <1>1, <1>2, <1>3, <1>5

LEMMA ArrivalTouches ==
  ASSUME TypeOK, Arrive
  PROVE  /\ TypeOK' /\ Touches
         /\ Shown => Shown'
         /\ Shown /\ QC!Fetching(cache'["history"]) =>
              QC!Fetching(cache["history"]) \/ StatusShown(cache)
         /\ page' = "error" => \E p \in CardPages : Throws(p, cache)
<1>1. PICK n \in nav : /\ n.await = {} /\ nav' = {}
                       /\ Render(n.to, cache, calls) /\ UNCHANGED <<order, last, faults, untimely, causes>>
  BY DEF Arrive
<1>2. n \in Navs /\ n.to \in Pages /\ n.to # "error"
  <2>1. n \in Navs
    BY TypesNamed, AtMostOneElim
  <2> QED BY <2>1 DEF Navs, Pages, CardPages
<1>3. Typed(cache, calls)
  BY TypesNamed
<1> DEFINE to == n.to
<1>4. to \in Pages /\ Render(to, cache, calls)
  BY <1>1, <1>2
<1> HIDE DEF to
<1>5. /\ page' \in Pages /\ page' \in {to, "error"}
      /\ page' = "error" => to = "error" \/ Throws(to, cache)
      /\ Typed(cache, calls)' /\ SameCalls(calls, calls')
      /\ \A q \in Queries : Touched(cache[q], cache'[q])
      /\ QC!Fetching(cache'["history"]) =>
           QC!Fetching(cache["history"]) \/ (page' = "status" /\ Renders("status", cache))
  BY <1>3, <1>4, Renderings
<1>6. TypeOK'
  BY <1>1, <1>5, TypesNamed, TypesPrimed, NothingIsOne DEF Typed
<1>7. Touches
  BY <1>1, <1>5 DEF Touches
<1>8. page' \in CardPages /\ Shown => QC!HasData(cache["status"])
  BY <1>1, <1>5 DEF Shown, to, CardPages
<1>9. Shown => Shown'
  <2>1. QC!HasData(cache'["status"]) <=> QC!HasData(cache["status"])
    BY <1>5, TouchedSees DEF Queries
  <2> QED BY <1>1, <1>8, <2>1 DEF Shown
<1>10. Shown /\ QC!Fetching(cache'["history"]) => QC!Fetching(cache["history"]) \/ StatusShown(cache)
  BY <1>5, <1>8 DEF Renders, StatusShown, CardPages
<1>11. page' = "error" => \E p \in CardPages : Throws(p, cache)
  <2>1. Throws(to, cache) => to \in CardPages
    BY DEF Throws
  <2> QED BY <1>2, <1>5, <2>1 DEF to
<1> QED BY <1>6, <1>7, <1>9, <1>10, <1>11

LEMMA TouchingStep ==
  ASSUME TypeOK, Touching
  PROVE  /\ TypeOK' /\ Touches
         /\ Shown => Shown'
         /\ Shown /\ QC!Fetching(cache'["history"]) =>
              QC!Fetching(cache["history"]) \/ StatusShown(cache)
         /\ page' = "error" => page = "error" \/ \E p \in CardPages : Throws(p, cache)
<1>1. ASSUME NEW p \in {"home", "index"}, Navigate(p)
      PROVE  /\ TypeOK' /\ Touches /\ page' = page
             /\ Shown => Shown'
             /\ QC!Fetching(cache'["history"]) => QC!Fetching(cache["history"])
  <2>1. p \in CardPages \cup {"home"} /\ p # "status"
    BY DEF CardPages
  <2>2. GoTo(page, p, cache) /\ UNCHANGED <<page, calls, order, last, faults, untimely, causes>>
    BY <1>1 DEF Navigate
  <2> QED BY <2>1, <2>2, GoingTouches
<1>2. CASE Redirect
  <2>1. /\ Misdirected /\ GoTo(page, Destination(cache), cache)
        /\ UNCHANGED <<page, calls, order, last, faults, untimely, causes>>
    BY <1>2 DEF Redirect
  <2>2. Destination(cache) \in CardPages \cup {"home"}
    BY DestinationFact
  <2>3. /\ TypeOK' /\ Touches /\ page' = page
        /\ Shown => Shown'
        /\ QC!Fetching(cache'["history"]) =>
             QC!Fetching(cache["history"]) \/ Destination(cache) = "status"
    BY <2>1, <2>2, GoingTouches
  <2>4. Shown => QC!HasData(cache["status"])
    BY <2>1 DEF Shown, Misdirected
  <2> QED BY <2>3, <2>4 DEF StatusShown
<1>3. CASE Focus
  <2>1. /\ cache' = [q \in Queries |->
                      IF q \in Observed THEN QC!Watch(cache[q], "account") ELSE cache[q]]
        /\ UNCHANGED <<page, nav, calls, order, last, faults, untimely, causes>>
    BY <1>3 DEF Focus
  <2>2. \A q \in Queries : cache[q] \in QC!Entries
    BY TypesNamed DEF Typed
  <2>3. \A q \in Queries : Touched(cache[q], cache[q]) /\ Touched(cache[q], QC!Watch(cache[q], "account"))
    BY <2>2, TouchingOperators
  <2>4. \A q \in Queries : /\ Touched(cache[q], cache'[q])
                           /\ q \notin Observed => cache'[q] = cache[q]
    BY <2>1, <2>3
  <2>5. TypeOK'
    <3>1. cache' \in [Queries -> QC!Entries]
      BY <2>1, <2>4 DEF Touched
    <3> QED BY <2>1, <3>1, TypesNamed, TypesPrimed DEF Typed
  <2>6. Touches
    BY <2>1, <2>4 DEF Touches, SameCalls
  <2>7. QC!HasData(cache'["status"]) <=> QC!HasData(cache["status"])
    BY <2>4, TouchedSees DEF Queries
  <2>8. Shown => Shown'
    BY <2>1, <2>7 DEF Shown
  <2>9. "history" \in Observed => page = "status" /\ Destination(cache) = "status"
    BY DEF Observed, Misdirected, Renders, CardPages
  <2>10. "history" \in Observed /\ Shown => StatusShown(cache)
    BY <2>9 DEF StatusShown, Shown, CardPages
  <2> QED BY <2>1, <2>4, <2>5, <2>6, <2>8, <2>10 DEF Queries
<1>4. ASSUME NEW r \in Queries, Age(r)
      PROVE  /\ TypeOK' /\ Touches /\ page' = page
             /\ Shown => Shown'
             /\ QC!Fetching(cache'["history"]) => QC!Fetching(cache["history"])
  <2>1. /\ cache' = [cache EXCEPT ![r] = QC!Aged(cache[r])]
        /\ UNCHANGED <<page, nav, calls, order, last, faults, untimely, causes>>
    BY <1>4 DEF Age
  <2>2. cache \in [Queries -> QC!Entries]
    BY TypesNamed DEF Typed
  <2>3. \A q \in Queries : /\ Touched(cache[q], cache[q]) /\ Touched(cache[q], QC!Aged(cache[q]))
                           /\ QC!Aged(cache[q]).fetch = cache[q].fetch
    BY <2>2, TouchingOperators
  <2>4. \A q \in Queries : Touched(cache[q], cache'[q]) /\ cache'[q].fetch = cache[q].fetch
    BY <2>1, <2>2, <2>3
  <2>5. TypeOK'
    <3>1. cache' \in [Queries -> QC!Entries]
      BY <2>1, <2>2, <2>4 DEF Touched
    <3> QED BY <2>1, <3>1, TypesNamed, TypesPrimed DEF Typed
  <2>6. Touches
    BY <2>1, <2>4 DEF Touches, SameCalls
  <2>7. QC!HasData(cache'["status"]) <=> QC!HasData(cache["status"])
    BY <2>4, TouchedSees DEF Queries
  <2>8. Shown => Shown'
    BY <2>1, <2>7 DEF Shown
  <2> QED BY <2>1, <2>4, <2>5, <2>6, <2>8 DEF Queries, QC!Fetching
<1>5. CASE UNCHANGED vars
  <2>1. \A q \in Queries : Touched(cache[q], cache[q])
    <3>1. \A q \in Queries : cache[q] \in QC!Entries
      BY TypesNamed DEF Typed
    <3> QED BY <3>1, TouchingOperators
  <2>2. Touches
    BY <1>5, <2>1 DEF vars, Touches, SameCalls
  <2>3. TypeOK' /\ (Shown => Shown') /\ page' = page /\ cache' = cache
    BY <1>5 DEF vars, TypeOK, Shown
  <2> QED BY <2>2, <2>3
<1> QED BY <1>1, <1>2, <1>3, <1>4, <1>5, ArrivalTouches DEF Touching

LEMMA ReloadStep ==
  ASSUME TypeOK, NEW p \in Entrances, Reload(p)
  PROVE  /\ TypeOK' /\ Shown' /\ page' = "start"
         /\ \A q \in Queries : Seen(cache'[q]) = {} /\ ~cache'[q].fresh
         /\ QC!Fetching(cache'["history"]) => p = "status"
         /\ calls' = [s \in Slots |-> Orphaned(s)]
         /\ untimely' = IF p = "status" /\ order = None THEN {"history"} ELSE {}
         /\ \/ causes' = causes /\ \A s \in Slots : calls[s].at # "sent"
            \/ causes' = causes \cup {"abandoned"}
         /\ UNCHANGED <<order, last>>
<1> DEFINE start == "start"
           empty == [q \in Queries |-> QC!Absent]
<1>1. /\ page' = start /\ GoTo(start, p, empty) /\ calls' = [s \in Slots |-> Orphaned(s)]
      /\ untimely' = IF p = "status" /\ order = None THEN {"history"} ELSE {}
      /\ \/ UNCHANGED <<faults, causes>> /\ \A s \in Slots : calls[s].at # "sent"
         \/ Fault("abandoned")
      /\ UNCHANGED <<order, last>>
  BY DEF Reload
<1>2. start \in Pages /\ start \notin CardPages /\ p \in CardPages \cup {"home"}
      /\ empty \in [Queries -> QC!Entries] /\ \A q \in Queries : empty[q] = QC!Absent
  BY AbsentIsEntry, CardPagesAssumption DEF Pages, CardPages
<1> HIDE DEF start, empty
<1>3. /\ nav' \in QC!AtMostOne(Navs) /\ cache' \in [Queries -> QC!Entries]
      /\ \A q \in Queries : Touched(empty[q], cache'[q])
      /\ \A n \in nav' : /\ n.to = p
                         /\ p \in CardPages /\ start \notin CardPages /\ "status" \notin n.await =>
                              QC!HasData(empty["status"])
      /\ QC!Fetching(cache'["history"]) => QC!Fetching(empty["history"]) \/ p = "status"
  BY <1>1, <1>2, Goings
<1>4. \A q \in Queries : Seen(cache'[q]) = {} /\ ~cache'[q].fresh
  <2>1. \A q \in Queries : Seen(cache'[q]) \subseteq Seen(QC!Absent)
    BY <1>2, <1>3, TouchedSees
  <2>2. \A q \in Queries : cache'[q].fresh => QC!Absent.fresh
    BY <1>2, <1>3 DEF Touched
  <2> QED BY <2>1, <2>2, AbsentIsEntry
<1>5. QC!Fetching(cache'["history"]) => p = "status"
  BY <1>2, <1>3, AbsentIsEntry DEF Queries
<1>6. Shown'
  BY <1>1, <1>2, <1>3, AbsentIsEntry DEF Shown, Queries
<1>7. causes' \subseteq Causes /\ faults' \in 0..MaxFaults /\ untimely' \subseteq Queries
  <2>1. "abandoned" \in Causes
    BY DEF Causes
  <2>2. Fault("abandoned") => causes' \subseteq Causes /\ faults' \in 0..MaxFaults
    BY <2>1, FaultFact
  <2>3. causes \subseteq Causes /\ faults \in 0..MaxFaults
    BY TypesNamed
  <2>4. untimely' \subseteq Queries
    BY <1>1 DEF Queries
  <2> QED BY <1>1, <2>2, <2>3, <2>4
<1>8. TypeOK'
  <2>1. calls' \in [Slots -> Calls]
    BY <1>1, OrphanedFact
  <2> QED BY <1>1, <1>2, <1>3, <1>7, <2>1, TypesNamed, TypesPrimed DEF Typed
<1>9. \/ causes' = causes /\ \A s \in Slots : calls[s].at # "sent"
      \/ causes' = causes \cup {"abandoned"}
  BY <1>1 DEF Fault
<1> QED BY <1>1, <1>4, <1>5, <1>6, <1>8, <1>9 DEF start

LEMMA CollectStep ==
  ASSUME TypeOK, NEW q \in Queries, Collect(q)
  PROVE  /\ TypeOK' /\ (Shown => Shown')
         /\ cache' = [cache EXCEPT ![q] = QC!Absent] /\ ~QC!Fetching(cache[q])
         /\ untimely' = untimely \ {q}
         /\ UNCHANGED <<page, nav, calls, order, last, faults, causes>>
<1>1. /\ ~QC!Fetching(cache[q]) /\ q \notin Observed /\ nav = {}
      /\ cache' = [cache EXCEPT ![q] = QC!Absent] /\ untimely' = untimely \ {q}
      /\ UNCHANGED <<page, nav, calls, order, last, faults, causes>>
  BY DEF Collect
<1>2. cache \in [Queries -> QC!Entries]
  BY TypesNamed DEF Typed
<1>3. TypeOK'
  <2>1. cache' \in [Queries -> QC!Entries]
    BY <1>1, <1>2, AbsentIsEntry
  <2> QED BY <1>1, <2>1, TypesNamed, TypesPrimed DEF Typed
<1>4. Shown => Shown'
  <2>1. page \in CardPages => "status" \in Observed
    BY DEF Observed, Queries
  <2>2. page \in CardPages => cache'["status"] = cache["status"]
    BY <1>1, <1>2, <2>1 DEF Queries
  <2> QED BY <1>1, <2>2 DEF Shown
<1> QED BY <1>1, <1>3, <1>4

LEMMA ServeStep ==
  ASSUME TypeOK, NEW q \in Queries, Serve(q)
  PROVE  /\ TypeOK' /\ (Shown => Shown')
         /\ QC!Fetching(cache[q]) /\ Answer(q) \in Readings
         /\ \E v \in Readings :
              /\ cache' = [cache EXCEPT ![q] = QC!Served(cache[q], v)]
              /\ \/ causes' = causes /\ v = Answer(q)
                 \/ causes' = causes \cup {"failed"} /\ v = Error
         /\ UNCHANGED <<page, nav, calls, order, last, untimely>>
<1>1. /\ \E f \in cache[q].fetch : f.got = {}
      /\ UNCHANGED <<page, nav, calls, order, last, untimely>>
      /\ \/ cache' = [cache EXCEPT ![q] = QC!Served(cache[q], Answer(q))] /\ UNCHANGED <<faults, causes>>
         \/ Fault("failed") /\ cache' = [cache EXCEPT ![q] = QC!Served(cache[q], Error)]
  BY DEF Serve
<1>2. Answer(q) \in Readings /\ Error \in Readings
  BY TypesNamed, OrderFields DEF Answer
<1>3. PICK v \in Readings : /\ cache' = [cache EXCEPT ![q] = QC!Served(cache[q], v)]
                            /\ \/ UNCHANGED <<faults, causes>> /\ v = Answer(q)
                               \/ Fault("failed") /\ v = Error
  BY <1>1, <1>2
<1>4. cache \in [Queries -> QC!Entries] /\ cache[q] \in QC!Entries
  BY TypesNamed DEF Typed
<1>5. QC!Served(cache[q], v) \in QC!Entries /\ QC!Served(cache[q], v).data = cache[q].data
  BY <1>4, AnsweringOperators
<1>6. TypeOK'
  <2>1. cache' \in [Queries -> QC!Entries]
    BY <1>3, <1>4, <1>5
  <2>2. "failed" \in Causes
    BY DEF Causes
  <2>3. faults' \in 0..MaxFaults /\ causes' \subseteq Causes
    BY <1>3, <2>2, FaultFact, TypesNamed
  <2> QED BY <1>1, <2>1, <2>3, TypesNamed, TypesPrimed DEF Typed
<1>7. Shown => Shown'
  <2>1. cache'["status"].data = cache["status"].data
    BY <1>3, <1>4, <1>5 DEF Queries
  <2> QED BY <1>1, <2>1 DEF Shown, QC!HasData
<1> QED BY <1>1, <1>2, <1>3, <1>6, <1>7 DEF QC!Fetching, Fault

\* Forms that have been released are the same in what matters.
LEMMA Releases ==
  ASSUME NEW cs \in [Slots -> Calls]
  PROVE  /\ Release(cs) \in [Slots -> Calls]
         /\ \A s \in Slots : Release(cs)[s] = cs[s] \/ (cs[s].at = "refreshing" /\ Release(cs)[s] = Idle)
         /\ \A s \in Slots : Release(cs)[s].at # "refreshing"
         /\ Idle \in Calls /\ Idle.kind = "none" /\ Idle.at = "idle"
<1>1. Idle \in Calls /\ Idle.kind = "none" /\ Idle.at = "idle"
  BY CardPagesAssumption DEF Idle, Calls
<1> QED BY <1>1 DEF Release

LEMMA LandStep ==
  ASSUME TypeOK, NEW q \in Queries, Land(q)
  PROVE  /\ TypeOK' /\ (Shown => Shown')
         /\ \E f \in cache[q].fetch : \E c :
              /\ f.got # {} /\ c = [cache EXCEPT ![q] = QC!Landed(f)]
              /\ \A r \in Queries : Touched(c[r], cache'[r])
              /\ page' = "error" => page = "error" \/ \E p \in CardPages : Throws(p, c)
              /\ Shown /\ QC!Fetching(cache'["history"]) =>
                   QC!Fetching(c["history"]) \/ StatusShown(c)
              /\ q \notin untimely' => q \notin untimely \/ \A v \in f.got : v # Error /\ v.id = order.id
         /\ \A r \in Queries : r # q => (r \in untimely' <=> r \in untimely)
         /\ SameCalls(IF q = "status" THEN Release(calls) ELSE calls, calls')
         /\ UNCHANGED <<order, last, faults, causes>>
<1>1. PICK f \in cache[q].fetch :
        /\ f.got # {}
        /\ nav' = {[n EXCEPT !.await = n.await \ {q}] : n \in nav}
        /\ Render(page, [cache EXCEPT ![q] = QC!Landed(f)], IF q = "status" THEN Release(calls) ELSE calls)
        /\ untimely' = untimely \ {r \in {q} : \A v \in f.got : v # Error /\ v.id = order.id}
        /\ UNCHANGED <<order, last, faults, causes>>
  BY DEF Land
<1>2. PICK c : c = [cache EXCEPT ![q] = QC!Landed(f)]
  OBVIOUS
<1>3. PICK cs : cs = IF q = "status" THEN Release(calls) ELSE calls
  OBVIOUS
<1>4. cache \in [Queries -> QC!Entries] /\ cache[q] \in QC!Entries /\ calls \in [Slots -> Calls]
  BY TypesNamed DEF Typed
<1>5. QC!Landed(f) \in QC!Entries /\ QC!HasData(QC!Landed(f))
  <2>1. None \in Readings
    BY OrderFields
  <2> QED BY <1>1, <1>4, <2>1, AnsweringOperators
<1>6. /\ Typed(c, cs) /\ c[q] = QC!Landed(f)
      /\ \A r \in Queries : r # q => c[r] = cache[r]
  <2>1. Release(calls) \in [Slots -> Calls]
    BY <1>4, Releases
  <2>2. cs \in [Slots -> Calls]
    BY <1>3, <1>4, <2>1
  <2>3. c \in [Queries -> QC!Entries] /\ c[q] = QC!Landed(f) /\ \A r \in Queries : r # q => c[r] = cache[r]
    BY <1>2, <1>4, <1>5
  <2> QED BY <2>2, <2>3 DEF Typed
<1>7. Render(page, c, cs) /\ page \in Pages
  BY <1>1, <1>2, <1>3, TypesNamed
<1>8. /\ page' \in Pages /\ page' \in {page, "error"}
      /\ page' = "error" => page = "error" \/ Throws(page, c)
      /\ Typed(cache, calls)' /\ SameCalls(cs, calls')
      /\ \A r \in Queries : Touched(c[r], cache'[r])
      /\ QC!Fetching(cache'["history"]) =>
           QC!Fetching(c["history"]) \/ (page' = "status" /\ Renders("status", c))
  BY <1>6, <1>7, Renderings
<1>9. nav' \in QC!AtMostOne(Navs)
  <2>1. nav = {} \/ \E n \in Navs : nav = {n}
    BY TypesNamed, AtMostOneElim
  <2>2. CASE nav = {}
    <3>1. nav' = {}
      BY <1>1, <2>2
    <3> QED BY <3>1, NothingIsOne
  <2>3. CASE \E n \in Navs : nav = {n}
    <3>1. PICK n \in Navs : nav = {n}
      BY <2>3
    <3>2. PICK m : m = [n EXCEPT !.await = n.await \ {q}]
      OBVIOUS
    <3>3. m \in Navs /\ nav' = {m}
      BY <1>1, <3>1, <3>2 DEF Navs
    <3> QED BY <3>3, AtMostOneIntro
  <2> QED BY <2>1, <2>2, <2>3
<1>10. TypeOK'
  BY <1>1, <1>8, <1>9, TypesNamed, TypesPrimed DEF Typed
<1>11. Shown => (page \in CardPages => QC!HasData(c["status"]))
  <2>1. CASE q = "status"
    BY <1>5, <1>6, <2>1
  <2>2. CASE q # "status"
    BY <1>6, <2>2 DEF Shown, Queries
  <2> QED BY <2>1, <2>2
<1>12. Shown => Shown'
  <2>1. QC!HasData(cache'["status"]) <=> QC!HasData(c["status"])
    BY <1>8, TouchedSees DEF Queries
  <2>2. CASE q = "status"
    BY <1>5, <1>6, <2>1, <2>2 DEF Shown
  <2>3. CASE q # "status"
    <3>1. c["status"] = cache["status"]
      BY <1>6, <2>3 DEF Queries
    <3>2. \A m \in nav' : \E n \in nav : m.to = n.to /\ ("status" \notin m.await => "status" \notin n.await)
      <4> SUFFICES ASSUME NEW m \in nav'
                   PROVE  \E n \in nav : m.to = n.to /\ ("status" \notin m.await => "status" \notin n.await)
        OBVIOUS
      <4>1. PICK n \in nav : m = [n EXCEPT !.await = n.await \ {q}]
        BY <1>1
      <4>2. n \in Navs
        BY TypesNamed, AtMostOneElim
      <4>3. m.to = n.to /\ m.await = n.await \ {q}
        BY <4>1, <4>2 DEF Navs
      <4> QED BY <4>3, <2>3
    <3>3. page' \in CardPages => page \in CardPages
      BY <1>8 DEF CardPages
    <3> QED BY <2>1, <3>1, <3>2, <3>3 DEF Shown
  <2> QED BY <2>2, <2>3
<1>13. page' = "error" => page = "error" \/ \E p \in CardPages : Throws(p, c)
  BY <1>8 DEF Throws
<1>15. /\ q \notin untimely' => q \notin untimely \/ \A v \in f.got : v # Error /\ v.id = order.id
       /\ \A r \in Queries : r # q => (r \in untimely' <=> r \in untimely)
  BY <1>1
<1>14. Shown /\ QC!Fetching(cache'["history"]) => QC!Fetching(c["history"]) \/ StatusShown(c)
  <2>1. page' = "status" => page \in CardPages
    BY <1>8 DEF CardPages
  <2> QED BY <1>8, <1>11, <2>1 DEF StatusShown, Renders
<1> QED BY <1>1, <1>2, <1>3, <1>8, <1>10, <1>12, <1>13, <1>14, <1>15

\* A call is set to x; the others stay.
Set(s, x) == calls' = [calls EXCEPT ![s] = x]

LEMMA SendStep ==
  ASSUME TypeOK, NEW kind \in {"order", "revoke"}, NEW p, NEW id \in 0..MaxOrders, Send(kind, p, id),
         causes' \subseteq Causes
  PROVE  /\ TypeOK' /\ page = p /\ ~Misdirected
         /\ \A s \in Slots : ~(calls[s].kind = kind /\ calls[s].mounted)
         /\ \E s \in Slots, x \in Calls :
              /\ calls[s] = Idle /\ Set(s, x)
              /\ x = [kind |-> kind, for |-> id, mounted |-> TRUE, at |-> "sent"]
              /\ x.kind = kind /\ x.for = id /\ x.at = "sent"
         /\ UNCHANGED <<page, nav, cache, order, last, faults, untimely>>
<1>1. PICK s \in Slots :
        /\ calls[s] = Idle
        /\ calls' = [calls EXCEPT ![s] = [kind |-> kind, for |-> id, mounted |-> TRUE, at |-> "sent"]]
  BY DEF Send
<1>2. PICK x : x = [kind |-> kind, for |-> id, mounted |-> TRUE, at |-> "sent"]
  OBVIOUS
<1>3. x \in Calls /\ x.kind = kind /\ x.for = id /\ x.at = "sent"
  BY <1>2 DEF Calls
<1>4. calls' = [calls EXCEPT ![s] = x]
  BY <1>1, <1>2
<1>5. /\ UNCHANGED <<page, nav, cache, order, last, faults, untimely>> /\ page = p /\ ~Misdirected
      /\ \A t \in Slots : ~(calls[t].kind = kind /\ calls[t].mounted)
  BY DEF Send
<1>6. TypeOK'
  <2>1. calls' \in [Slots -> Calls]
    BY <1>3, <1>4, TypesNamed DEF Typed
  <2> QED BY <1>5, <2>1, TypesNamed, TypesPrimed DEF Typed
<1> QED BY <1>1, <1>2, <1>3, <1>4, <1>5, <1>6 DEF Set

LEMMA CallAt ==
  ASSUME TypeOK, NEW s \in Slots, NEW at \in {"sent", "done", "refused", "refreshing"}
  PROVE  \E x \in Calls : /\ x = [calls[s] EXCEPT !.at = at]
                          /\ x.kind = calls[s].kind /\ x.for = calls[s].for /\ x.at = at
<1>1. calls[s] \in Calls
  BY TypesNamed DEF Typed
<1>2. [calls[s] EXCEPT !.at = at] \in Calls
  BY <1>1 DEF Calls
<1>3. /\ [calls[s] EXCEPT !.at = at].kind = calls[s].kind
      /\ [calls[s] EXCEPT !.at = at].for = calls[s].for
      /\ [calls[s] EXCEPT !.at = at].at = at
  BY <1>1 DEF Calls
<1> QED BY <1>2, <1>3

\* What the order service does to the order of the account.
LEMMA OrderMoves ==
  ASSUME TypeOK
  PROVE  /\ Created => /\ order = None /\ last' = last + 1 /\ last' \in 0..MaxOrders /\ order' \in Orders
                       /\ order'.id = last + 1 /\ order'.stage = "ordered"
         /\ Deleted => order' = None /\ last' = last /\ order' \in Orders
<1>1. ASSUME Created
      PROVE  /\ order = None /\ last' = last + 1 /\ last' \in 0..MaxOrders /\ order' \in Orders
             /\ order'.id = last + 1 /\ order'.stage = "ordered"
  <2>1. order = None /\ last < MaxOrders /\ last' = last + 1 /\ order' = Order(last + 1, "ordered")
    BY <1>1 DEF Created
  <2>2. last + 1 \in 1..MaxOrders /\ "ordered" \in Stages
    BY <2>1, TypesNamed, CardPagesAssumption DEF Stages
  <2> QED BY <2>1, <2>2, OrderFields
<1>2. Deleted => order' = None /\ last' = last /\ order' \in Orders
  BY OrderFields DEF Deleted
<1> QED BY <1>1, <1>2

LEMMA CarryOutStep ==
  ASSUME TypeOK, NEW s \in Slots, CarryOut(s)
  PROVE  /\ TypeOK' /\ calls[s].at \in {"sent", "lost"}
         /\ \/ Created /\ calls[s].kind = "order"
            \/ order # None /\ UNCHANGED <<order, last>> /\ calls[s].kind = "order"
            \/ Deleted /\ calls[s].kind = "revoke"
         /\ \E x \in Calls :
              /\ Set(s, x)
              /\ \/ calls[s].at = "lost" /\ x = Idle
                 \/ /\ x.kind = calls[s].kind /\ x.for = calls[s].for
                    /\ x.at = "done" \/ (x.at = "refused" /\ UNCHANGED <<order, last>>)
         /\ untimely' = untimely \cup {q \in Queries : order' # order /\ QC!Fetching(cache[q])}
         /\ causes' = IF calls[s].kind = "revoke" /\ order.id \notin {0, calls[s].for}
                        THEN causes \cup {"astray"} ELSE causes
         /\ UNCHANGED <<page, nav, cache, faults>>
<1>1. /\ calls[s].at \in {"sent", "lost"}
      /\ \/ Created /\ Reply(s, "done") /\ calls[s].kind = "order"
         \/ order # None /\ UNCHANGED <<order, last>> /\ Reply(s, "refused") /\ calls[s].kind = "order"
         \/ Deleted /\ Reply(s, "done") /\ calls[s].kind = "revoke"
      /\ untimely' = untimely \cup {q \in Queries : order' # order /\ QC!Fetching(cache[q])}
      /\ causes' = IF calls[s].kind = "revoke" /\ order.id \notin {0, calls[s].for}
                     THEN causes \cup {"astray"} ELSE causes
      /\ UNCHANGED <<page, nav, cache, faults>>
  BY DEF CarryOut
<1>2. ASSUME NEW at \in {"done", "refused"}, Reply(s, at)
      PROVE  \E x \in Calls : /\ Set(s, x)
                              /\ \/ calls[s].at = "lost" /\ x = Idle
                                 \/ x.kind = calls[s].kind /\ x.for = calls[s].for /\ x.at = at
  <2>1. calls \in [Slots -> Calls] /\ Idle \in Calls
    BY TypesNamed, CardPagesAssumption DEF Typed, Idle, Calls
  <2>2. PICK x \in Calls : /\ x = [calls[s] EXCEPT !.at = at]
                           /\ x.kind = calls[s].kind /\ x.for = calls[s].for /\ x.at = at
    BY CallAt
  <2>3. calls' = [calls EXCEPT ![s] = IF calls[s].at = "lost" THEN Idle ELSE x]
    BY <1>2, <2>2 DEF Reply
  <2> QED BY <2>1, <2>2, <2>3 DEF Set
<1>3. \E x \in Calls :
        /\ Set(s, x)
        /\ \/ calls[s].at = "lost" /\ x = Idle
           \/ /\ x.kind = calls[s].kind /\ x.for = calls[s].for
              /\ x.at = "done" \/ (x.at = "refused" /\ UNCHANGED <<order, last>>)
  BY <1>1, <1>2
<1>4. calls' \in [Slots -> Calls]
  BY <1>3, TypesNamed DEF Set, Typed
<1>5. order' \in Orders /\ last' \in 0..MaxOrders
  BY <1>1, OrderMoves, TypesNamed
<1>6. untimely' \subseteq Queries /\ causes' \subseteq Causes
  BY <1>1, TypesNamed DEF Causes
<1>7. TypeOK'
  BY <1>1, <1>4, <1>5, <1>6, TypesNamed, TypesPrimed DEF Typed
<1> QED BY <1>1, <1>3, <1>7

LEMMA AnsweredStep ==
  ASSUME TypeOK, NEW s \in Slots, Answered(s)
  PROVE  /\ TypeOK' /\ (Shown => Shown')
         /\ calls[s].at = "done"
         /\ cache' = [q \in Queries |-> QC!Invalidate(cache[q], "account", q \in Observed)]
         /\ \A q \in Queries : /\ Touched(cache[q], cache'[q]) /\ ~cache'[q].fresh
                               /\ q \notin Observed => cache'[q].fetch = cache[q].fetch
                               /\ q \in Observed => QC!Fetching(cache'[q])
                               /\ q \in Observed /\ QC!HasData(cache[q]) => Got(cache'[q]) = {}
         /\ \A t \in Slots : /\ calls'[t].at = "refreshing" => page \in CardPages \/ calls[t].at = "refreshing"
                             /\ calls'[t].at # "idle" /\ t # s =>
                                  /\ calls'[t].at = calls[t].at /\ calls'[t].for = calls[t].for
                             /\ calls'[t].kind = "revoke" => calls[t].kind = "revoke"
                             /\ calls'[t].at # "idle" => calls'[t].kind = calls[t].kind
         /\ calls'[s].at \in {"idle", "refreshing"}
         /\ UNCHANGED <<page, nav, order, last, faults, untimely, causes>>
<1>1. /\ calls[s].at = "done"
      /\ cache' = [q \in Queries |-> QC!Invalidate(cache[q], "account", q \in Observed)]
      /\ calls' = IF page \in CardPages
                    THEN [Release(calls) EXCEPT ![s] = [calls[s] EXCEPT !.at = "refreshing"]]
                    ELSE [calls EXCEPT ![s] = Idle]
      /\ UNCHANGED <<page, nav, order, last, faults, untimely, causes>>
  BY DEF Answered
<1>2. \A q \in Queries : cache[q] \in QC!Entries
  BY TypesNamed DEF Typed
<1>3. \A q \in Queries : /\ Touched(cache[q], cache'[q]) /\ ~cache'[q].fresh
                         /\ q \notin Observed => cache'[q].fetch = cache[q].fetch
                         /\ q \in Observed => QC!Fetching(cache'[q])
                         /\ q \in Observed /\ QC!HasData(cache[q]) => Got(cache'[q]) = {}
  <2> SUFFICES ASSUME NEW q \in Queries
               PROVE  /\ Touched(cache[q], cache'[q]) /\ ~cache'[q].fresh
                      /\ q \notin Observed => cache'[q].fetch = cache[q].fetch
                      /\ q \in Observed => QC!Fetching(cache'[q])
                      /\ q \in Observed /\ QC!HasData(cache[q]) => Got(cache'[q]) = {}
    OBVIOUS
  <2>1. cache[q] \in QC!Entries /\ (q \in Observed) \in BOOLEAN
    BY <1>2
  <2>2. cache'[q] = QC!Invalidate(cache[q], "account", q \in Observed)
    BY <1>1
  <2>3. \A w \in BOOLEAN :
          /\ Touched(cache[q], QC!Invalidate(cache[q], "account", w))
          /\ ~QC!Invalidate(cache[q], "account", w).fresh
          /\ ~w => QC!Invalidate(cache[q], "account", w).fetch = cache[q].fetch
          /\ w => QC!Fetching(QC!Invalidate(cache[q], "account", w))
          /\ w /\ QC!HasData(cache[q]) => Got(QC!Invalidate(cache[q], "account", w)) = {}
    BY <2>1, TouchingOperators
  <2> QED BY <2>1, <2>2, <2>3, Zenon
<1>4. calls \in [Slots -> Calls]
  BY TypesNamed DEF Typed
<1>5. PICK x \in Calls : /\ x = [calls[s] EXCEPT !.at = "refreshing"]
                         /\ x.kind = calls[s].kind /\ x.for = calls[s].for /\ x.at = "refreshing"
  BY CallAt
<1>6. calls' = IF page \in CardPages THEN [Release(calls) EXCEPT ![s] = x] ELSE [calls EXCEPT ![s] = Idle]
  BY <1>1, <1>5
<1>7. /\ Release(calls) \in [Slots -> Calls]
      /\ \A t \in Slots : Release(calls)[t] = calls[t] \/ (calls[t].at = "refreshing" /\ Release(calls)[t] = Idle)
      /\ Idle \in Calls /\ Idle.kind = "none" /\ Idle.at = "idle"
  BY <1>4, Releases
<1>8. /\ calls' \in [Slots -> Calls]
      /\ \A t \in Slots : /\ calls'[t].at = "refreshing" => page \in CardPages \/ calls[t].at = "refreshing"
                          /\ calls'[t].at # "idle" /\ t # s =>
                               /\ calls'[t].at = calls[t].at /\ calls'[t].for = calls[t].for
                          /\ calls'[t].kind = "revoke" => calls[t].kind = "revoke"
                          /\ calls'[t].at # "idle" => calls'[t].kind = calls[t].kind
      /\ calls'[s].at \in {"idle", "refreshing"}
  BY <1>4, <1>5, <1>6, <1>7
<1>9. TypeOK'
  <2>1. cache' \in [Queries -> QC!Entries]
    BY <1>1, <1>3 DEF Touched
  <2> QED BY <1>1, <1>8, <2>1, TypesNamed, TypesPrimed DEF Typed
<1>10. Shown => Shown'
  <2>1. QC!HasData(cache'["status"]) <=> QC!HasData(cache["status"])
    BY <1>3, TouchedSees DEF Queries
  <2> QED BY <1>1, <2>1 DEF Shown
<1> QED BY <1>1, <1>3, <1>8, <1>9, <1>10

\* A call is over without having succeeded, as far as the form knows.
LEMMA EndStep ==
  ASSUME TypeOK, NEW s \in Slots, Refused(s) \/ AnswerLost(s)
  PROVE  /\ TypeOK'
         /\ \/ calls[s].at \in {"refused", "lost"} /\ Set(s, Idle) /\ causes' = causes
            \/ Set(s, Orphaned(s)) /\ causes' = causes \cup {"abandoned"}
         /\ UNCHANGED <<page, nav, cache, order, last, untimely>>
<1>1. /\ UNCHANGED <<page, nav, cache, order, last, untimely>>
      /\ \/ calls[s].at \in {"refused", "lost"} /\ Set(s, Idle) /\ UNCHANGED <<faults, causes>>
         \/ Set(s, Orphaned(s)) /\ Fault("abandoned")
  BY DEF Refused, AnswerLost, Set
<1>2. faults' \in 0..MaxFaults /\ causes' \subseteq Causes
  <2>1. "abandoned" \in Causes
    BY DEF Causes
  <2> QED BY <1>1, <2>1, FaultFact, TypesNamed
<1>3. calls' \in [Slots -> Calls]
  <2>1. calls \in [Slots -> Calls]
    BY TypesNamed DEF Typed
  <2> QED BY <1>1, <2>1, Releases, OrphanedFact DEF Set
<1>4. TypeOK'
  BY <1>1, <1>2, <1>3, TypesNamed, TypesPrimed DEF Typed
<1> QED BY <1>1, <1>4 DEF Fault

LEMMA ElsewhereStep ==
  ASSUME TypeOK, Delivered \/ Meddle
  PROVE  /\ TypeOK'
         /\ \/ /\ order.stage = "ordered" /\ order'.stage = "card_delivered" /\ order'.id = order.id
               /\ order' \in Orders /\ UNCHANGED <<last, causes>>
            \/ (Created \/ Deleted) /\ causes' = causes \cup {"meddled"}
         /\ UNCHANGED <<page, nav, cache, calls, untimely>>
<1>1. CASE Delivered
  <2>1. /\ order.stage = "ordered" /\ order' = [order EXCEPT !.stage = "card_delivered"]
        /\ UNCHANGED <<page, nav, cache, calls, last, faults, untimely, causes>>
    BY <1>1 DEF Delivered
  <2>2. order \in Orders /\ order \in Readings
    BY TypesNamed, OrderFields
  <2>3. order.id \in 0..MaxOrders /\ order.id # 0 /\ order = Order(order.id, order.stage)
    BY <2>1, <2>2, ReadingFields
  <2>4. order' = Order(order.id, "card_delivered")
    BY <2>1, <2>3 DEF Order
  <2>5. order.id \in 1..MaxOrders /\ "card_delivered" \in Stages
    BY <2>3, CardPagesAssumption DEF Stages
  <2>6. order' \in Orders /\ order'.id = order.id /\ order'.stage = "card_delivered"
    BY <2>4, <2>5, OrderFields
  <2> QED BY <2>1, <2>6, TypesNamed, TypesPrimed DEF Typed
<1>2. CASE Meddle
  <2>1. /\ Fault("meddled") /\ (Created \/ Deleted)
        /\ UNCHANGED <<page, nav, cache, calls, untimely>>
    BY <1>2 DEF Meddle
  <2>2. order' \in Orders /\ last' \in 0..MaxOrders
    BY <2>1, OrderMoves, TypesNamed
  <2>3. "meddled" \in Causes
    BY DEF Causes
  <2>4. faults' \in 0..MaxFaults /\ causes' \subseteq Causes
    BY <2>1, <2>3, FaultFact
  <2> QED BY <2>1, <2>2, <2>4, TypesNamed, TypesPrimed DEF Typed, Fault
<1> QED BY <1>1, <1>2

-----------------------------------------------------------------------------
(* Types, what is shown, and the forms                                     *)

LEMMA SentFor ==
  ASSUME TypeOK, RevokeCard
  PROVE  \E d \in cache["status"].data :
           /\ d.ver.id \in 0..MaxOrders /\ cache["status"].data = {d} /\ d.ver \in Read(cache["status"])
           /\ Send("revoke", "active", d.ver.id)
           /\ causes' = IF Repeated("revoke") \/ order.id # d.ver.id
                          THEN causes \cup {"hasty"} ELSE causes
<1>1. PICK d \in cache["status"].data :
        /\ Send("revoke", "active", d.ver.id)
        /\ causes' = IF Repeated("revoke") \/ order.id # d.ver.id
                       THEN causes \cup {"hasty"} ELSE causes
  BY DEF RevokeCard
<1>2. cache["status"] \in QC!Entries
  BY TypesNamed DEF Typed, Queries
<1>3. cache["status"].data = {d} /\ d \in Values
  BY <1>1, <1>2, EntryShows
<1>4. d.ver.id \in 0..MaxOrders
  BY <1>3, ReadingFields DEF Values
<1> QED BY <1>1, <1>3, <1>4 DEF Read

\* A call is sent by a form that knows of none in flight.
LEMMA CallSent ==
  ASSUME TypeOK, OrderCard \/ RevokeCard
  PROVE  /\ TypeOK' /\ (Shown => Shown')
         /\ UNCHANGED <<page, nav, cache, order, last, faults, untimely>>
         /\ causes \subseteq causes' /\ causes' \subseteq causes \cup {"hasty"}
         /\ \E s \in Slots, x \in Calls :
              /\ calls[s] = Idle /\ Set(s, x) /\ x.at = "sent" /\ x.kind \in {"order", "revoke"}
              /\ x.kind = "revoke" =>
                   /\ page = "active" /\ ~Misdirected
                   /\ \E d \in cache["status"].data :
                        d.ver.id = x.for /\ cache["status"].data = {d} /\ d.ver \in Read(cache["status"])
                   /\ "hasty" \notin causes' =>
                        order.id = x.for /\ \A t \in Slots : calls[t].kind # "revoke"
<1>1. CASE OrderCard
  <2>1. /\ Send("order", "order", 0) /\ 0 \in 0..MaxOrders /\ "order" \in {"order", "revoke"}
        /\ causes' = IF Repeated("order") THEN causes \cup {"hasty"} ELSE causes
    BY <1>1, CardPagesAssumption DEF OrderCard
  <2>2. causes' \subseteq Causes /\ causes \subseteq causes' /\ causes' \subseteq causes \cup {"hasty"}
    BY <2>1, TypesNamed DEF Causes
  <2>3. /\ TypeOK' /\ UNCHANGED <<page, nav, cache, order, last, faults, untimely>>
        /\ \E s \in Slots, x \in Calls :
             calls[s] = Idle /\ Set(s, x) /\ x.kind = "order" /\ x.at = "sent"
    <3>1. PICK kind, id : kind = "order" /\ id = 0
      OBVIOUS
    <3>2. kind \in {"order", "revoke"} /\ id \in 0..MaxOrders /\ Send(kind, "order", id)
      BY <2>1, <3>1
    <3>3. /\ TypeOK' /\ UNCHANGED <<page, nav, cache, order, last, faults, untimely>>
          /\ \E s \in Slots, x \in Calls :
               calls[s] = Idle /\ Set(s, x) /\ x.kind = kind /\ x.at = "sent"
      BY <2>2, <3>2, SendStep
    <3> QED BY <3>1, <3>3
  <2>4. Shown => Shown'
    BY <2>3 DEF Shown
  <2>5. PICK s \in Slots, x \in Calls : calls[s] = Idle /\ Set(s, x) /\ x.kind = "order" /\ x.at = "sent"
    BY <2>3
  <2> QED BY <2>2, <2>3, <2>4, <2>5
<1>2. CASE RevokeCard
  <2>1. PICK d \in cache["status"].data :
           /\ d.ver.id \in 0..MaxOrders /\ cache["status"].data = {d} /\ d.ver \in Read(cache["status"])
           /\ Send("revoke", "active", d.ver.id)
           /\ causes' = IF Repeated("revoke") \/ order.id # d.ver.id
                          THEN causes \cup {"hasty"} ELSE causes
    BY <1>2, SentFor
  <2>2. causes' \subseteq Causes /\ causes \subseteq causes' /\ causes' \subseteq causes \cup {"hasty"}
    BY <2>1, TypesNamed DEF Causes
  <2>3. "hasty" \notin causes' => ~Repeated("revoke") /\ order.id = d.ver.id
    BY <2>1
  <2>4. PICK id : id = d.ver.id
    OBVIOUS
  <2>5. /\ TypeOK' /\ page = "active" /\ ~Misdirected
        /\ \A s \in Slots : ~(calls[s].kind = "revoke" /\ calls[s].mounted)
        /\ \E s \in Slots, x \in Calls :
              calls[s] = Idle /\ Set(s, x) /\ x.kind = "revoke" /\ x.for = id /\ x.at = "sent"
        /\ UNCHANGED <<page, nav, cache, order, last, faults, untimely>>
    <3>1. Send("revoke", "active", id) /\ id \in 0..MaxOrders /\ "revoke" \in {"order", "revoke"}
      BY <2>1, <2>4
    <3> QED BY <3>1, <2>2, SendStep
  <2>6. "hasty" \notin causes' => \A t \in Slots : calls[t].kind # "revoke"
    BY <2>3, <2>5 DEF Repeated
  <2>7. Shown => Shown'
    BY <2>5 DEF Shown
  <2>8. PICK s \in Slots, x \in Calls :
          calls[s] = Idle /\ Set(s, x) /\ x.kind = "revoke" /\ x.for = id /\ x.at = "sent"
    BY <2>5
  <2>9. /\ x.at = "sent" /\ x.kind \in {"order", "revoke"} /\ calls[s] = Idle /\ Set(s, x)
        /\ page = "active" /\ ~Misdirected
        /\ \E v \in cache["status"].data :
             v.ver.id = x.for /\ cache["status"].data = {v} /\ v.ver \in Read(cache["status"])
        /\ "hasty" \notin causes' => order.id = x.for /\ \A t \in Slots : calls[t].kind # "revoke"
    BY <2>1, <2>3, <2>4, <2>5, <2>6, <2>8
  <2> QED BY <2>2, <2>5, <2>7, <2>9
<1> QED BY <1>1, <1>2

LEMMA CardsInit == Init => TypeOK /\ Shown
<1> SUFFICES ASSUME Init PROVE TypeOK /\ Shown
  OBVIOUS
<1>1. page \in Pages /\ page \notin CardPages
  BY DEF Init, Pages, CardPages
<1>2. nav \in QC!AtMostOne(Navs)
  <2>1. PICK n : n = [to |-> "home", await |-> {}]
    OBVIOUS
  <2>2. n \in Navs /\ nav = {n}
    BY <2>1 DEF Navs, Init
  <2> QED BY <2>2, AtMostOneIntro
<1>3. Typed(cache, calls)
  <2>1. Idle \in Calls
    BY CardPagesAssumption DEF Idle, Calls
  <2> QED BY <2>1, AbsentIsEntry DEF Init, Typed
<1>4. order \in Orders /\ last \in 0..MaxOrders /\ faults \in 0..MaxFaults
      /\ untimely = {} /\ causes = {}
  BY OrderFields, CardPagesAssumption DEF Init
<1>5. Shown
  BY <1>1 DEF Init, Shown, CardPages
<1> QED BY <1>1, <1>2, <1>3, <1>4, <1>5, TypesNamed

LEMMA CardsNext ==
  ASSUME TypeOK, [Next]_vars
  PROVE  TypeOK' /\ (Shown => Shown')
<1>1. ASSUME NEW s \in Slots, CarryOut(s) \/ Answered(s) \/ Refused(s) \/ AnswerLost(s)
      PROVE  TypeOK' /\ (Shown => Shown')
  <2>1. CASE CarryOut(s)
    <3>1. TypeOK' /\ UNCHANGED <<page, nav, cache>>
      BY <2>1, CarryOutStep
    <3> QED BY <3>1 DEF Shown
  <2>2. CASE Refused(s) \/ AnswerLost(s)
    <3>1. TypeOK' /\ UNCHANGED <<page, nav, cache>>
      BY <2>2, EndStep
    <3> QED BY <3>1 DEF Shown
  <2> QED BY <1>1, <2>1, <2>2, AnsweredStep
<1>2. CASE Delivered \/ Meddle
  <2>1. TypeOK' /\ UNCHANGED <<page, nav, cache>>
    BY <1>2, ElsewhereStep
  <2> QED BY <2>1 DEF Shown
<1> QED BY <1>1, <1>2, StepCases, TouchingStep, ReloadStep, CollectStep, ServeStep, LandStep, CallSent

(* Every variable of the credit card pages keeps its type, for any calls   *)
(* in flight, orders, faults and acts of other clients.                    *)
THEOREM TypeCorrect == Spec => []TypeOK
<1>1. Init => TypeOK
  BY CardsInit
<1>2. TypeOK /\ [Next]_vars => TypeOK'
  BY CardsNext
<1> QED BY <1>1, <1>2, PTL DEF Spec

LEMMA ReleasedNext ==
  ASSUME TypeOK, FormsAreReleased, [Next]_vars
  PROVE  FormsAreReleased'
<1>1. cache \in [Queries -> QC!Entries] /\ calls \in [Slots -> Calls]
  BY TypesNamed DEF Typed
<1>2. CASE Touching
  BY <1>2, TouchingStep DEF Touches, SameCalls, Touched, FormsAreReleased, Queries
<1>3. CASE \E p \in Entrances : Reload(p)
  <2>1. PICK p \in Entrances : Reload(p)
    BY <1>3
  <2>2. calls' = [s \in Slots |-> Orphaned(s)]
    BY <2>1, ReloadStep
  <2>3. \A s \in Slots : calls'[s].at # "refreshing"
    BY <2>2, OrphanedFact DEF Idle
  <2> QED BY <2>3 DEF FormsAreReleased
<1>4. ASSUME NEW q \in Queries, Collect(q) PROVE FormsAreReleased'
  BY <1>1, <1>4, CollectStep DEF FormsAreReleased, Queries
<1>5. ASSUME NEW q \in Queries, Serve(q) PROVE FormsAreReleased'
  <2>1. PICK v \in Readings : cache' = [cache EXCEPT ![q] = QC!Served(cache[q], v)]
    BY <1>5, ServeStep
  <2>2. QC!Fetching(QC!Served(cache[q], v)) <=> QC!Fetching(cache[q])
    BY <1>1, AnsweringOperators
  <2> QED BY <1>1, <1>5, <2>1, <2>2, ServeStep DEF FormsAreReleased, Queries
<1>6. ASSUME NEW q \in Queries, Land(q) PROVE FormsAreReleased'
  <2>1. SameCalls(IF q = "status" THEN Release(calls) ELSE calls, calls')
    BY <1>6, LandStep
  <2>2. CASE q = "status"
    BY <1>1, <2>1, <2>2, Releases DEF SameCalls, FormsAreReleased
  <2>3. CASE q # "status"
    <3>1. PICK f \in cache[q].fetch : \E c :
            /\ c = [cache EXCEPT ![q] = QC!Landed(f)]
            /\ \A r \in Queries : Touched(c[r], cache'[r])
      BY <1>6, LandStep
    <3>2. Touched(cache["status"], cache'["status"])
      BY <1>1, <2>3, <3>1 DEF Queries
    <3> QED BY <2>1, <2>3, <3>2 DEF SameCalls, Touched, FormsAreReleased
  <2> QED BY <2>2, <2>3
<1>7. CASE OrderCard \/ RevokeCard
  <2>1. PICK s \in Slots, x \in Calls : Set(s, x) /\ x.at = "sent"
    BY <1>7, CallSent
  <2>2. cache' = cache
    BY <1>7, CallSent
  <2> QED BY <1>1, <2>1, <2>2 DEF Set, FormsAreReleased
<1>8. ASSUME NEW s \in Slots, CarryOut(s) PROVE FormsAreReleased'
  <2>1. PICK x \in Calls : Set(s, x) /\ x.at # "refreshing"
    BY <1>8, CarryOutStep DEF Idle
  <2>2. cache' = cache
    BY <1>8, CarryOutStep
  <2> QED BY <1>1, <2>1, <2>2 DEF Set, FormsAreReleased
<1>9. ASSUME NEW s \in Slots, Answered(s) PROVE FormsAreReleased'
  <2>1. page \in CardPages => "status" \in Observed
    BY DEF Observed, Queries
  <2> QED BY <1>9, <2>1, AnsweredStep DEF FormsAreReleased, Touched, Queries
<1>10. ASSUME NEW s \in Slots, Refused(s) \/ AnswerLost(s) PROVE FormsAreReleased'
  <2>1. PICK x : Set(s, x) /\ x.at # "refreshing"
    BY <1>10, EndStep, OrphanedFact DEF Idle
  <2>2. cache' = cache
    BY <1>10, EndStep
  <2> QED BY <1>1, <2>1, <2>2 DEF Set, FormsAreReleased
<1>11. CASE Delivered \/ Meddle
  BY <1>11, ElsewhereStep DEF FormsAreReleased
<1> QED BY <1>2, <1>3, <1>4, <1>5, <1>6, <1>7, <1>8, <1>9, <1>10, <1>11, StepCases

(* A form that waits for the status to be read again waits for a read in   *)
(* flight, also when pages are left, calls overlap, answers are lost and   *)
(* the cache is collected or reloaded.                                     *)
THEOREM FormsReleased == Spec => []FormsAreReleased
<1>1. Init => TypeOK /\ FormsAreReleased
  BY CardsInit DEF Init, FormsAreReleased, Idle
<1>2. TypeOK /\ FormsAreReleased /\ [Next]_vars => TypeOK' /\ FormsAreReleased'
  BY CardsNext, ReleasedNext
<1> QED BY <1>1, <1>2, PTL DEF Spec

-----------------------------------------------------------------------------
(* Revocations                                                             *)

\* One revocation, of the order that there is.
Revoking(o, cs) ==
  /\ \A s, t \in Slots : cs[s].kind = "revoke" /\ cs[t].kind = "revoke" => s = t
  /\ \A s \in Slots : cs[s].kind = "revoke" /\ cs[s].at = "sent" => o.id = cs[s].for /\ o.id # 0

Sober == causes \cap {"hasty", "meddled"} = {}

RInv ==
  /\ TypeOK /\ Shown
  /\ Sober => Revoking(order, calls)

\* No revocation is new, and none is sent anew.
FewerRevokes(cs, cs2) ==
  \A s \in Slots : cs2[s].kind = "revoke" =>
    /\ cs[s].kind = "revoke"
    /\ cs2[s].at = "sent" => cs[s].at = "sent" /\ cs2[s].for = cs[s].for

\* Steps that leave the order alone.
LEMMA RInvQuiet ==
  ASSUME RInv, TypeOK', Shown', order'.id = order.id, causes \subseteq causes', FewerRevokes(calls, calls')
  PROVE  RInv'
BY DEF RInv, Sober, Revoking, FewerRevokes

LEMMA RSend ==
  ASSUME RInv, OrderCard \/ RevokeCard
  PROVE  RInv'
<1>1. /\ TypeOK /\ calls \in [Slots -> Calls] /\ cache["status"] \in QC!Entries
      /\ TypeOK' /\ Shown' /\ UNCHANGED <<page, nav, cache, order, last, faults>>
      /\ causes \subseteq causes'
  BY CallSent, TypesNamed DEF RInv, Typed, Queries
<1>2. PICK s \in Slots, x \in Calls :
        /\ calls[s] = Idle /\ Set(s, x) /\ x.at = "sent" /\ x.kind \in {"order", "revoke"}
        /\ x.kind = "revoke" =>
             /\ page = "active" /\ ~Misdirected
             /\ \E d \in cache["status"].data :
                  d.ver.id = x.for /\ cache["status"].data = {d} /\ d.ver \in Read(cache["status"])
             /\ "hasty" \notin causes' => order.id = x.for /\ \A t \in Slots : calls[t].kind # "revoke"
  BY <1>1, CallSent
<1>3. calls'[s] = x /\ \A t \in Slots : t # s => calls'[t] = calls[t]
  BY <1>1, <1>2 DEF Set
<1>4. CASE x.kind # "revoke"
  <2>1. FewerRevokes(calls, calls')
    BY <1>3, <1>4 DEF FewerRevokes
  <2> QED BY <1>1, <2>1, RInvQuiet
<1>5. CASE x.kind = "revoke"
  <2>1. x.for # 0
    <3>1. PICK d \in cache["status"].data : d.ver.id = x.for /\ cache["status"].data = {d}
      BY <1>2, <1>5
    <3>2. Destination(cache) = "active"
      BY <1>2, <1>5 DEF Misdirected, Renders, CardPages
    <3>3. d.ver.stage = "card_delivered"
      BY <3>1, <3>2, DestinationFact
    <3>4. d.ver \in Readings
      BY <1>1, EntryShows DEF Values
    <3> QED BY <3>1, <3>3, <3>4, ReadingFields
  <2>2. Sober' => Revoking(order', calls')
    BY <1>1, <1>2, <1>3, <1>5, <2>1 DEF Sober, Revoking
  <2> QED BY <1>1, <2>2 DEF RInv
<1> QED BY <1>4, <1>5

LEMMA RCarryOut ==
  ASSUME RInv, NEW s \in Slots, CarryOut(s)
  PROVE  RInv'
<1>1. /\ TypeOK /\ TypeOK' /\ calls \in [Slots -> Calls]
      /\ causes \subseteq causes' /\ UNCHANGED <<page, nav, cache, faults>>
      /\ \/ Created /\ calls[s].kind = "order"
         \/ order # None /\ UNCHANGED <<order, last>> /\ calls[s].kind = "order"
         \/ Deleted /\ calls[s].kind = "revoke"
  BY CarryOutStep, TypesNamed DEF RInv, Typed
<1>2. PICK x \in Calls :
        /\ Set(s, x)
        /\ x = Idle \/ (x.kind = calls[s].kind /\ x.for = calls[s].for /\ x.at \in {"done", "refused"})
  BY <1>1, CarryOutStep
<1>3. calls'[s] = x /\ \A t \in Slots : t # s => calls'[t] = calls[t]
  BY <1>1, <1>2 DEF Set
<1>4. Shown'
  BY <1>1 DEF RInv, Shown
<1>5. Sober' => Revoking(order', calls')
  <2> SUFFICES ASSUME Sober' PROVE Revoking(order', calls')
    OBVIOUS
  <2>1. Revoking(order, calls)
    BY <1>1 DEF Sober, RInv
  <2>2. \A t \in Slots : calls'[t].kind = "revoke" =>
          calls[t].kind = "revoke" /\ (calls'[t].at = "sent" => t # s /\ calls'[t] = calls[t])
    BY <1>2, <1>3 DEF Idle
  <2>3. \A t \in Slots : calls'[t].kind = "revoke" /\ calls'[t].at = "sent" => order' = order
    <3> SUFFICES ASSUME NEW t \in Slots, calls'[t].kind = "revoke", calls'[t].at = "sent"
                 PROVE  order' = order
      OBVIOUS
    <3>1. order.id # 0 /\ t # s /\ calls[t].kind = "revoke"
      BY <2>1, <2>2 DEF Revoking
    <3>2. ~Created
      BY <1>1, <3>1, OrderMoves, OrderFields
    <3>3. calls[s].kind # "revoke"
      BY <2>1, <3>1 DEF Revoking
    <3> QED BY <1>1, <3>2, <3>3
  <2> QED BY <2>1, <2>2, <2>3 DEF Revoking
<1> QED BY <1>1, <1>4, <1>5 DEF RInv

LEMMA RInvInit == Init => RInv
BY CardsInit DEF Init, RInv, Revoking, Idle

LEMMA RInvNext == RInv /\ [Next]_vars => RInv'
<1> SUFFICES ASSUME RInv, [Next]_vars PROVE RInv'
  OBVIOUS
<1>1. TypeOK /\ Shown /\ TypeOK' /\ Shown' /\ calls \in [Slots -> Calls]
  BY CardsNext, TypesNamed DEF RInv, Typed
<1>2. CASE Touching
  <2>1. SameCalls(calls, calls') /\ UNCHANGED <<order, causes>>
    BY <1>1, <1>2, TouchingStep DEF Touches
  <2>2. FewerRevokes(calls, calls')
    BY <2>1 DEF SameCalls, FewerRevokes
  <2> QED BY <1>1, <2>1, <2>2, RInvQuiet
<1>3. ASSUME NEW p \in Entrances, Reload(p) PROVE RInv'
  <2>1. calls' = [s \in Slots |-> Orphaned(s)] /\ order' = order /\ causes \subseteq causes'
    BY <1>1, <1>3, ReloadStep
  <2>2. FewerRevokes(calls, calls')
    BY <1>1, <2>1, OrphanedFact DEF FewerRevokes, Idle
  <2> QED BY <1>1, <2>1, <2>2, RInvQuiet
<1>4. ASSUME NEW q \in Queries, Collect(q) \/ Serve(q) PROVE RInv'
  <2>1. UNCHANGED <<calls, order>> /\ causes \subseteq causes'
    BY <1>1, <1>4, CollectStep, ServeStep
  <2>2. FewerRevokes(calls, calls')
    BY <2>1 DEF FewerRevokes
  <2> QED BY <1>1, <2>1, <2>2, RInvQuiet
<1>5. ASSUME NEW q \in Queries, Land(q) PROVE RInv'
  <2>1. /\ UNCHANGED <<order, causes>>
        /\ SameCalls(IF q = "status" THEN Release(calls) ELSE calls, calls')
    BY <1>1, <1>5, LandStep
  <2>2. FewerRevokes(calls, calls')
    BY <1>1, <2>1, Releases DEF SameCalls, FewerRevokes
  <2> QED BY <1>1, <2>1, <2>2, RInvQuiet
<1>6. ASSUME NEW s \in Slots, Answered(s) PROVE RInv'
  <2>1. UNCHANGED <<order, causes>> /\ FewerRevokes(calls, calls')
    BY <1>1, <1>6, AnsweredStep DEF FewerRevokes
  <2> QED BY <1>1, <2>1, RInvQuiet
<1>7. ASSUME NEW s \in Slots, Refused(s) \/ AnswerLost(s) PROVE RInv'
  <2>1. (Set(s, Idle) \/ Set(s, Orphaned(s))) /\ order' = order /\ causes \subseteq causes'
    BY <1>1, <1>7, EndStep
  <2>2. FewerRevokes(calls, calls')
    BY <1>1, <2>1, OrphanedFact DEF Set, FewerRevokes, Idle
  <2> QED BY <1>1, <2>1, <2>2, RInvQuiet
<1>8. CASE Delivered \/ Meddle
  <2>1. /\ \/ order'.id = order.id /\ causes' = causes
           \/ causes' = causes \cup {"meddled"}
        /\ calls' = calls
    BY <1>1, <1>8, ElsewhereStep
  <2>2. FewerRevokes(calls, calls')
    BY <2>1 DEF FewerRevokes
  <2>3. CASE order'.id = order.id /\ causes' = causes
    BY <1>1, <2>2, <2>3, RInvQuiet
  <2>4. CASE causes' = causes \cup {"meddled"}
    BY <1>1, <2>4 DEF RInv, Sober
  <2> QED BY <2>1, <2>3, <2>4
<1> QED BY <1>2, <1>3, <1>4, <1>5, <1>6, <1>7, <1>8, StepCases, RSend, RCarryOut

(* A revocation only tells the account: as long as no other client acts,   *)
(* no form has sent a revocation while another was out and none was sent   *)
(* about an order already gone, the order that it deletes is the one whose *)
(* card the page called active.  Any number of reads may fail, land late   *)
(* or be overtaken, and any number of answers may be lost.                 *)
THEOREM CardShownIsRevoked == Spec => RevokesWhatItShows
<1>1. RInv => \A s \in Slots :
                calls[s].kind = "revoke" /\ calls[s].at = "sent" /\ causes \cap {"hasty", "meddled"} = {}
                => order.id = calls[s].for
  BY DEF RInv, Sober, Revoking
<1>2. RInv /\ [Next]_vars =>
        [\A s \in Slots :
           /\ calls[s].kind = "revoke" /\ calls[s].at = "sent" /\ calls'[s].at = "done"
           /\ causes \cap {"hasty", "meddled"} = {}
           => order.id \in {0, calls[s].for}]_vars
  BY <1>1
<1> QED BY <1>2, RInvInit, RInvNext, PTL DEF Spec, RevokesWhatItShows

-----------------------------------------------------------------------------
(* Steps, by what they make of the answers                                 *)

\* Entry f shows no more than e.
ShowsNoMore(e, f) == Read(f) \subseteq Read(e) /\ Got(f) \subseteq Got(e) /\ (f.fresh => e.fresh)

\* No answer is new, and the history is only read where the status page shows.
NothingRead ==
  /\ \A q \in Queries : ShowsNoMore(cache[q], cache'[q])
  /\ QC!Fetching(cache'["history"]) => QC!Fetching(cache["history"]) \/ StatusShown(cache)

LEMMA TouchedShows ==
  ASSUME NEW e, NEW f, Touched(e, f)
  PROVE  ShowsNoMore(e, f)
<1>1. f.fresh => e.fresh
  BY DEF Touched
<1> QED BY <1>1, TouchedSees DEF ShowsNoMore

LEMMA UntouchedShows ==
  ASSUME cache' = cache
  PROVE  NothingRead
BY DEF NothingRead, ShowsNoMore

LEMMA TouchingReadsNothing ==
  ASSUME TypeOK, Shown, Touching
  PROVE  NothingRead
BY TouchingStep, TouchedShows DEF Touches, NothingRead

LEMMA CollectReadsNothing ==
  ASSUME TypeOK, NEW q \in Queries, Collect(q)
  PROVE  NothingRead
<1>1. cache' = [cache EXCEPT ![q] = QC!Absent] /\ cache \in [Queries -> QC!Entries]
  BY CollectStep, TypesNamed DEF Typed
<1>2. Read(QC!Absent) = {} /\ Got(QC!Absent) = {} /\ ~QC!Absent.fresh /\ ~QC!Fetching(QC!Absent)
  BY DEF QC!Absent, Read, Got, QC!Fetching
<1>3. \A r \in Queries : cache'[r] = cache[r] \/ cache'[r] = QC!Absent
  BY <1>1
<1> QED BY <1>2, <1>3 DEF NothingRead, ShowsNoMore, Queries

LEMMA AnsweredReadsNothing ==
  ASSUME TypeOK, Shown, NEW s \in Slots, Answered(s)
  PROVE  NothingRead /\ \A q \in Queries : ~cache'[q].fresh
<1>1. \A q \in Queries : /\ Touched(cache[q], cache'[q]) /\ ~cache'[q].fresh
                         /\ q \notin Observed => cache'[q].fetch = cache[q].fetch
  BY AnsweredStep
<1>2. "history" \in Observed => StatusShown(cache)
  <2>1. "history" \in Observed => page = "status" /\ Destination(cache) = "status"
    BY DEF Observed, Misdirected, Renders, CardPages
  <2> QED BY <2>1 DEF Shown, CardPages, StatusShown
<1>3. \A q \in Queries : ShowsNoMore(cache[q], cache'[q])
  BY <1>1, TouchedShows
<1>4. QC!Fetching(cache'["history"]) => QC!Fetching(cache["history"]) \/ StatusShown(cache)
  BY <1>1, <1>2 DEF Queries, QC!Fetching
<1> QED BY <1>1, <1>3, <1>4 DEF NothingRead

\* What the landing of the fetch of q makes of the answers.
LEMMA LandShows ==
  ASSUME TypeOK, Shown, NEW q \in Queries, Land(q)
  PROVE  /\ Read(cache'[q]) = Got(cache[q]) /\ Got(cache'[q]) = {}
         /\ \A r \in Queries : r # q => ShowsNoMore(cache[r], cache'[r])
         /\ q \notin untimely' => q \notin untimely \/ \A v \in Got(cache[q]) : v # Error /\ v.id = order.id
         /\ \A r \in Queries : r # q => (r \in untimely' <=> r \in untimely)
         /\ \E c : /\ c["status"] \in QC!Entries
                   /\ Read(c["status"]) \subseteq Seen(cache["status"])
                   /\ Read(c["history"]) \subseteq Seen(cache["history"])
                   /\ page' = "error" => page = "error" \/ \E p \in CardPages : Throws(p, c)
                   /\ QC!Fetching(cache'["history"]) =>
                        (q # "history" /\ QC!Fetching(cache["history"])) \/ StatusShown(c)
<1>1. PICK f \in cache[q].fetch : \E c :
              /\ f.got # {} /\ c = [cache EXCEPT ![q] = QC!Landed(f)]
              /\ \A r \in Queries : Touched(c[r], cache'[r])
              /\ page' = "error" => page = "error" \/ \E p \in CardPages : Throws(p, c)
              /\ Shown /\ QC!Fetching(cache'["history"]) =>
                   QC!Fetching(c["history"]) \/ StatusShown(c)
              /\ q \notin untimely' => q \notin untimely \/ \A v \in f.got : v # Error /\ v.id = order.id
  BY LandStep
<1>2. PICK c :
              /\ f.got # {} /\ c = [cache EXCEPT ![q] = QC!Landed(f)]
              /\ \A r \in Queries : Touched(c[r], cache'[r])
              /\ page' = "error" => page = "error" \/ \E p \in CardPages : Throws(p, c)
              /\ Shown /\ QC!Fetching(cache'["history"]) =>
                   QC!Fetching(c["history"]) \/ StatusShown(c)
              /\ q \notin untimely' => q \notin untimely \/ \A v \in f.got : v # Error /\ v.id = order.id
  BY <1>1
<1>3. \A r \in Queries : r # q => (r \in untimely' <=> r \in untimely)
  BY LandStep
<1>4. cache \in [Queries -> QC!Entries] /\ cache[q] \in QC!Entries /\ None \in Readings
  BY TypesNamed, OrderFields DEF Typed
<1>5. /\ QC!Landed(f) \in QC!Entries /\ Read(QC!Landed(f)) = Got(cache[q])
      /\ Got(QC!Landed(f)) = {} /\ ~QC!Fetching(QC!Landed(f))
  BY <1>1, <1>4, AnsweringOperators
<1>6. f.got = Got(cache[q])
  <2>1. PICK g \in Fetches : cache[q].fetch = {g} /\ Got(cache[q]) = g.got
    BY <1>4, EntryShows
  <2> QED BY <2>1
<1>7. /\ c[q] = QC!Landed(f) /\ \A r \in Queries : r # q => c[r] = cache[r]
      /\ "status" \in Queries /\ "history" \in Queries
  BY <1>2, <1>4 DEF Queries
<1>8. Read(cache'[q]) = Got(cache[q]) /\ Got(cache'[q]) = {}
  BY <1>2, <1>5, <1>7, TouchedSees
<1>9. \A r \in Queries : r # q => ShowsNoMore(cache[r], cache'[r])
  BY <1>2, <1>7, TouchedShows
<1>10. \A r \in Queries : c[r] \in QC!Entries /\ Read(c[r]) \subseteq Seen(cache[r])
  BY <1>4, <1>5, <1>7 DEF Seen
<1>11. QC!Fetching(cache'["history"]) => (q # "history" /\ QC!Fetching(cache["history"])) \/ StatusShown(c)
  <2>1. QC!Fetching(c["history"]) => q # "history" /\ QC!Fetching(cache["history"])
    BY <1>5, <1>7
  <2> QED BY <1>2, <2>1
<1>12. q \notin untimely' => q \notin untimely \/ \A v \in Got(cache[q]) : v # Error /\ v.id = order.id
  BY <1>2, <1>6
<1> QED BY <1>2, <1>3, <1>7, <1>8, <1>9, <1>10, <1>11, <1>12

\* What the server's answer to the fetch of q makes of the answers.
LEMMA ServeShows ==
  ASSUME TypeOK, NEW q \in Queries, Serve(q)
  PROVE  /\ \A r \in Queries : /\ Read(cache'[r]) = Read(cache[r]) /\ cache'[r].fresh = cache[r].fresh
                               /\ QC!Fetching(cache'[r]) <=> QC!Fetching(cache[r])
                               /\ r # q => cache'[r] = cache[r]
         /\ \E v \in Readings : /\ Got(cache'[q]) \subseteq {v}
                                /\ \/ causes' = causes /\ v = Answer(q)
                                   \/ causes' = causes \cup {"failed"} /\ v = Error
<1>1. PICK v \in Readings : /\ cache' = [cache EXCEPT ![q] = QC!Served(cache[q], v)]
                            /\ \/ causes' = causes /\ v = Answer(q)
                               \/ causes' = causes \cup {"failed"} /\ v = Error
  BY ServeStep
<1>2. cache \in [Queries -> QC!Entries] /\ cache[q] \in QC!Entries
  BY TypesNamed DEF Typed
<1>3. /\ QC!Served(cache[q], v).data = cache[q].data /\ QC!Served(cache[q], v).fresh = cache[q].fresh
      /\ QC!Fetching(QC!Served(cache[q], v)) <=> QC!Fetching(cache[q])
      /\ Got(QC!Served(cache[q], v)) \subseteq {v}
  BY <1>2, AnsweringOperators
<1>4. cache'[q] = QC!Served(cache[q], v) /\ \A r \in Queries : r # q => cache'[r] = cache[r]
  BY <1>1, <1>2
<1>5. /\ Read(cache'[q]) = Read(cache[q]) /\ cache'[q].fresh = cache[q].fresh
      /\ QC!Fetching(cache'[q]) <=> QC!Fetching(cache[q])
      /\ Got(cache'[q]) \subseteq {v}
  BY <1>3, <1>4 DEF Read
<1> QED BY <1>1, <1>4, <1>5

-----------------------------------------------------------------------------
(* What has settled is current                                             *)

\* A reading that is not an error is about the order there is.
About(x, o) == x = Error \/ x.id = o.id

\* A call has been carried out, and its answer will invalidate the queries.
Done(cs) == \E s \in Slots : cs[s].at = "done"

Heard == causes \cap {"abandoned", "meddled"} = {}

\* What is on its way in entry e, and what is fresh, is about order o.
Coming(e, o) == \A x \in Got(e) : About(x, o)

Current(e, o) == e.fresh => \A x \in Read(e) : About(x, o)

CInv ==
  /\ TypeOK /\ Shown
  /\ Heard => /\ \A s \in Slots : calls[s].at # "lost"
              /\ \A q \in Queries \ untimely : Coming(cache[q], order)
              /\ Done(calls) \/ \A q \in Queries \ untimely : Current(cache[q], order)

\* No call is lost, and what has been carried out is still to be answered.
Answering(cs, cs2) ==
  /\ \A s \in Slots : cs2[s].at = "lost" => cs[s].at = "lost"
  /\ Done(cs) => Done(cs2)

LEMMA CQuiet ==
  ASSUME CInv, TypeOK', Shown', order'.id = order.id, causes \subseteq causes',
         Heard' => Answering(calls, calls'),
         \A q \in Queries : /\ ShowsNoMore(cache[q], cache'[q])
                            /\ q \in untimely => q \in untimely' \/ Seen(cache'[q]) = {}
  PROVE  CInv'
<1> SUFFICES ASSUME Heard'
             PROVE  /\ \A s \in Slots : calls'[s].at # "lost"
                    /\ \A q \in Queries \ untimely' : Coming(cache'[q], order')
                    /\ Done(calls') \/ \A q \in Queries \ untimely' : Current(cache'[q], order')
  BY DEF CInv
<1>1. Heard /\ Answering(calls, calls')
  BY DEF Heard
<1>2. /\ \A s \in Slots : calls[s].at # "lost"
      /\ \A q \in Queries \ untimely : Coming(cache[q], order)
      /\ Done(calls) \/ \A q \in Queries \ untimely : Current(cache[q], order)
  BY <1>1 DEF CInv
<1>3. \A q \in Queries \ untimely' : Coming(cache'[q], order')
  BY <1>2 DEF Coming, About, ShowsNoMore, Seen
<1>4. ~Done(calls') => \A q \in Queries \ untimely' : Current(cache'[q], order')
  BY <1>1, <1>2 DEF Answering, Current, About, ShowsNoMore, Seen
<1> QED BY <1>1, <1>2, <1>3, <1>4 DEF Answering

LEMMA CServe ==
  ASSUME CInv, NEW q \in Queries, Serve(q)
  PROVE  CInv'
<1>1. TypeOK /\ TypeOK' /\ Shown' /\ UNCHANGED <<order, calls, untimely>>
  BY ServeStep DEF CInv
<1>2. \A r \in Queries : /\ Read(cache'[r]) = Read(cache[r]) /\ cache'[r].fresh = cache[r].fresh
                         /\ r # q => cache'[r] = cache[r]
  BY <1>1, ServeShows
<1>3. PICK v \in Readings : /\ Got(cache'[q]) \subseteq {v}
                            /\ \/ causes' = causes /\ v = Answer(q)
                               \/ causes' = causes \cup {"failed"} /\ v = Error
  BY <1>1, ServeShows
<1>4. About(v, order) /\ causes \subseteq causes'
  BY <1>3 DEF About, Answer
<1>5. Coming(cache'[q], order)
  BY <1>3, <1>4 DEF Coming
<1>6. Heard' => Heard
  BY <1>4 DEF Heard
<1>7. \A r \in Queries : /\ Coming(cache[r], order) => Coming(cache'[r], order)
                         /\ Current(cache[r], order) => Current(cache'[r], order)
  BY <1>2, <1>5 DEF Coming, Current
<1> QED BY <1>1, <1>6, <1>7 DEF CInv

LEMMA CLand ==
  ASSUME CInv, NEW q \in Queries, Land(q)
  PROVE  CInv'
<1>1. /\ TypeOK /\ Shown /\ TypeOK' /\ Shown' /\ UNCHANGED <<order, causes>>
      /\ SameCalls(IF q = "status" THEN Release(calls) ELSE calls, calls')
      /\ calls \in [Slots -> Calls]
  BY LandStep, TypesNamed DEF CInv, Typed
<1>2. /\ Read(cache'[q]) = Got(cache[q]) /\ Got(cache'[q]) = {}
      /\ \A r \in Queries : r # q => ShowsNoMore(cache[r], cache'[r])
      /\ q \notin untimely' => q \notin untimely \/ \A v \in Got(cache[q]) : v # Error /\ v.id = order.id
      /\ \A r \in Queries : r # q => (r \in untimely' <=> r \in untimely)
  BY <1>1, LandShows
<1>3. Answering(calls, calls')
  BY <1>1, Releases DEF SameCalls, Answering, Done
<1> SUFFICES ASSUME Heard
             PROVE  /\ \A s \in Slots : calls'[s].at # "lost"
                    /\ \A r \in Queries \ untimely' : Coming(cache'[r], order)
                    /\ Done(calls') \/ \A r \in Queries \ untimely' : Current(cache'[r], order)
  BY <1>1 DEF CInv, Heard
<1>4. /\ \A s \in Slots : calls[s].at # "lost"
      /\ \A r \in Queries \ untimely : Coming(cache[r], order)
      /\ Done(calls) \/ \A r \in Queries \ untimely : Current(cache[r], order)
  BY DEF CInv
<1>5. Coming(cache'[q], order) /\ (q \notin untimely' => Current(cache'[q], order))
  BY <1>2, <1>4 DEF Coming, Current, About
<1>6. \A r \in Queries \ untimely' : r # q =>
         /\ Coming(cache'[r], order)
         /\ Current(cache[r], order) => Current(cache'[r], order)
  BY <1>2, <1>4 DEF Coming, Current, ShowsNoMore
<1> QED BY <1>2, <1>3, <1>4, <1>5, <1>6 DEF Answering

LEMMA CCarryOut ==
  ASSUME CInv, NEW s \in Slots, CarryOut(s)
  PROVE  CInv'
<1>1. /\ TypeOK' /\ calls[s].at \in {"sent", "lost"} /\ calls \in [Slots -> Calls]
      /\ untimely' = untimely \cup {q \in Queries : order' # order /\ QC!Fetching(cache[q])}
      /\ causes \subseteq causes' /\ UNCHANGED <<page, nav, cache, faults>>
  BY CarryOutStep, TypesNamed DEF CInv, Typed
<1>2. PICK x \in Calls :
        /\ Set(s, x)
        /\ \/ calls[s].at = "lost" /\ x = Idle
           \/ /\ x.kind = calls[s].kind /\ x.for = calls[s].for
              /\ x.at = "done" \/ (x.at = "refused" /\ UNCHANGED <<order, last>>)
  BY CarryOutStep DEF CInv
<1>3. calls'[s] = x /\ \A t \in Slots : t # s => calls'[t] = calls[t]
  BY <1>1, <1>2 DEF Set
<1>4. Shown'
  BY <1>1 DEF CInv, Shown
<1> SUFFICES ASSUME Heard'
             PROVE  /\ \A t \in Slots : calls'[t].at # "lost"
                    /\ \A q \in Queries \ untimely' : Coming(cache[q], order')
                    /\ Done(calls') \/ \A q \in Queries \ untimely' : Current(cache[q], order')
  BY <1>1, <1>4 DEF CInv
<1>5. /\ \A t \in Slots : calls[t].at # "lost"
      /\ \A q \in Queries \ untimely : Coming(cache[q], order)
      /\ Done(calls) \/ \A q \in Queries \ untimely : Current(cache[q], order)
  BY <1>1 DEF CInv, Heard
<1>6. \A q \in Queries \ untimely' : Coming(cache[q], order')
  <2>1. \A q \in Queries : ~QC!Fetching(cache[q]) => Got(cache[q]) = {}
    BY DEF QC!Fetching, Got
  <2> QED BY <1>1, <1>5, <2>1 DEF Coming
<1>7. x.at = "done" \/ (x.at = "refused" /\ order' = order)
  BY <1>2, <1>5
<1>8. CASE x.at = "done"
  BY <1>3, <1>5, <1>6, <1>8 DEF Done
<1>9. CASE x.at = "refused" /\ order' = order
  <2>1. Done(calls) => Done(calls')
    BY <1>1, <1>3, <1>5 DEF Done
  <2> QED BY <1>1, <1>3, <1>5, <1>6, <1>9, <2>1
<1> QED BY <1>7, <1>8, <1>9

LEMMA CAnswered ==
  ASSUME CInv, NEW s \in Slots, Answered(s)
  PROVE  CInv'
<1>1. /\ TypeOK' /\ Shown' /\ calls[s].at = "done" /\ UNCHANGED <<order, untimely, causes>>
      /\ \A t \in Slots : calls'[t].at # "idle" /\ t # s => calls'[t].at = calls[t].at
      /\ calls'[s].at \in {"idle", "refreshing"}
  BY AnsweredStep DEF CInv
<1>2. NothingRead /\ \A q \in Queries : ~cache'[q].fresh
  BY AnsweredReadsNothing DEF CInv
<1>3. \A q \in Queries : Current(cache'[q], order)
  BY <1>2 DEF Current
<1>4. \A q \in Queries : Coming(cache[q], order) => Coming(cache'[q], order)
  BY <1>2 DEF NothingRead, ShowsNoMore, Coming
<1>5. \A t \in Slots : calls'[t].at = "lost" => calls[t].at = "lost"
  BY <1>1
<1> QED BY <1>1, <1>3, <1>4, <1>5 DEF CInv, Heard

LEMMA CInvInit == Init => CInv
<1> SUFFICES ASSUME Init PROVE CInv
  OBVIOUS
<1>1. \A q \in Queries : Got(cache[q]) = {} /\ ~cache[q].fresh
  BY DEF Init, QC!Absent, Got
<1>2. \A s \in Slots : calls[s].at # "lost"
  BY DEF Init, Idle
<1> QED BY <1>1, <1>2, CardsInit DEF CInv, Coming, Current

LEMMA CInvNext == CInv /\ [Next]_vars => CInv'
<1> SUFFICES ASSUME CInv, [Next]_vars PROVE CInv'
  OBVIOUS
<1>1. TypeOK /\ Shown /\ TypeOK' /\ Shown' /\ calls \in [Slots -> Calls]
  BY CardsNext, TypesNamed DEF CInv, Typed
<1>2. CASE Touching
  <2>1. SameCalls(calls, calls') /\ UNCHANGED <<order, untimely, causes>>
    BY <1>1, <1>2, TouchingStep DEF Touches
  <2>2. NothingRead
    BY <1>1, <1>2, TouchingReadsNothing
  <2>3. Answering(calls, calls')
    BY <2>1 DEF SameCalls, Answering, Done
  <2> QED BY <1>1, <2>1, <2>2, <2>3, CQuiet DEF NothingRead
<1>3. ASSUME NEW p \in Entrances, Reload(p) PROVE CInv'
  <2>1. /\ \A q \in Queries : Seen(cache'[q]) = {} /\ ~cache'[q].fresh
        /\ calls' = [s \in Slots |-> Orphaned(s)]
        /\ \/ causes' = causes /\ \A s \in Slots : calls[s].at # "sent"
           \/ causes' = causes \cup {"abandoned"}
    BY <1>1, <1>3, ReloadStep
  <2>2. Heard' => Heard /\ causes' = causes /\ \A s \in Slots : calls[s].at # "sent"
    BY <2>1 DEF Heard
  <2>3. Heard' => \A s \in Slots : calls'[s].at # "lost"
    <3>1. Heard => \A s \in Slots : calls[s].at # "lost"
      BY DEF CInv
    <3> QED BY <1>1, <2>1, <2>2, <3>1, OrphanedFact DEF Idle
  <2>4. \A q \in Queries : Coming(cache'[q], order') /\ Current(cache'[q], order')
    BY <2>1 DEF Coming, Current, Seen
  <2> QED BY <1>1, <2>3, <2>4 DEF CInv
<1>4. ASSUME NEW q \in Queries, Collect(q) PROVE CInv'
  <2>1. /\ cache' = [cache EXCEPT ![q] = QC!Absent] /\ untimely' = untimely \ {q}
        /\ UNCHANGED <<calls, order, causes>> /\ cache \in [Queries -> QC!Entries]
    BY <1>1, <1>4, CollectStep, TypesNamed DEF Typed
  <2>2. NothingRead /\ Seen(cache'[q]) = {}
    BY <1>1, <1>4, <2>1, CollectReadsNothing DEF QC!Absent, Seen, Read, Got
  <2>3. Answering(calls, calls')
    BY <2>1 DEF Answering
  <2>4. \A r \in Queries : r \in untimely => r \in untimely' \/ Seen(cache'[r]) = {}
    BY <2>1, <2>2
  <2> QED BY <1>1, <2>1, <2>2, <2>3, <2>4, CQuiet DEF NothingRead
<1>5. CASE OrderCard \/ RevokeCard
  <2>1. UNCHANGED <<cache, order, untimely>> /\ causes \subseteq causes'
    BY <1>1, <1>5, CallSent
  <2>2. PICK s \in Slots, x \in Calls : calls[s] = Idle /\ Set(s, x) /\ x.at = "sent"
    BY <1>1, <1>5, CallSent
  <2>3. Answering(calls, calls')
    BY <1>1, <2>2 DEF Set, Answering, Done, Idle
  <2>4. NothingRead
    BY <2>1, UntouchedShows
  <2> QED BY <1>1, <2>1, <2>3, <2>4, CQuiet DEF NothingRead
<1>6. ASSUME NEW s \in Slots, Refused(s) \/ AnswerLost(s) PROVE CInv'
  <2>1. /\ \/ calls[s].at \in {"refused", "lost"} /\ Set(s, Idle) /\ causes' = causes
           \/ causes' = causes \cup {"abandoned"}
        /\ UNCHANGED <<cache, order, untimely>>
    BY <1>1, <1>6, EndStep
  <2>2. CASE calls[s].at \in {"refused", "lost"} /\ Set(s, Idle) /\ causes' = causes
    <3>1. Answering(calls, calls')
      BY <1>1, <2>2 DEF Set, Answering, Done, Idle
    <3>2. NothingRead
      BY <2>1, UntouchedShows
    <3> QED BY <1>1, <2>1, <2>2, <3>1, <3>2, CQuiet DEF NothingRead
  <2>3. CASE causes' = causes \cup {"abandoned"}
    BY <1>1, <2>3 DEF CInv, Heard
  <2> QED BY <2>1, <2>2, <2>3
<1>7. CASE Delivered \/ Meddle
  <2>1. /\ \/ order'.id = order.id /\ causes' = causes
           \/ causes' = causes \cup {"meddled"}
        /\ UNCHANGED <<cache, calls, untimely>>
    BY <1>1, <1>7, ElsewhereStep
  <2>2. CASE order'.id = order.id /\ causes' = causes
    <3>1. Answering(calls, calls') /\ NothingRead
      BY <2>1, UntouchedShows DEF Answering
    <3> QED BY <1>1, <2>1, <2>2, <3>1, CQuiet DEF NothingRead
  <2>3. CASE causes' = causes \cup {"meddled"}
    BY <1>1, <2>3 DEF CInv, Heard
  <2> QED BY <2>1, <2>2, <2>3
<1> QED BY <1>2, <1>3, <1>4, <1>5, <1>6, <1>7, StepCases, CServe, CLand, CCarryOut, CAnswered

(* Once no call is in flight and what a card page observes counts as       *)
(* fresh, it is about the order that there is, for any number of calls,    *)
(* orders, navigations and failed reads.  This is not said of a query that *)
(* was being read while a call was carried out, until it has been read     *)
(* again; nor after other clients have acted or a call has lost the one    *)
(* who waited for its answer.                                              *)
THEOREM SettledPagesAreCurrent == Spec => []SettledIsCurrent
<1>1. CInv => SettledIsCurrent
  <2> SUFFICES ASSUME CInv, Heard, \A s \in Slots : calls[s] = Idle, \A q \in Observed : cache[q].fresh,
                      NEW q \in Observed \ untimely, NEW d \in cache[q].data
               PROVE  d.ver = Error \/ d.ver.id = order.id
    BY DEF SettledIsCurrent, Heard
  <2>1. ~Done(calls)
    BY DEF Done, Idle
  <2>2. q \in Queries
    BY DEF Observed, Queries
  <2>3. Current(cache[q], order) /\ d.ver \in Read(cache[q]) /\ cache[q].fresh
    BY <2>1, <2>2 DEF CInv, Read
  <2> QED BY <2>3 DEF Current, About
<1>2. CInv /\ [Next]_vars => CInv'
  BY CInvNext
<1> QED BY <1>1, <1>2, CInvInit, PTL DEF Spec

-----------------------------------------------------------------------------
(* The readings of the status                                              *)

\* The order may have been as y after it was as x.
Before(x, y) ==
  x.id # 0 /\ y.id # 0 =>
    x.id < y.id \/ (x.id = y.id /\ (x.stage = "ordered" \/ y.stage = "card_delivered"))

\* The status is read in the order in which the account has its orders.
InSequence(e, o, l) ==
  /\ o.id # 0 => o.id = l
  /\ \A x \in Seen(e) : x.id <= l /\ Before(x, o)
  /\ \A d \in Read(e), g \in Got(e) : Before(d, g)

\* A revocation is about an order that had been delivered when it was sent.
Delivering(e, o, l, cs) ==
  \A s \in Slots : cs[s].kind = "revoke" /\ cs[s].at \in {"sent", "lost"} =>
    /\ cs[s].for # 0 /\ cs[s].for <= l
    /\ \A x \in Seen(e) \cup {o} : x.id = cs[s].for => x.stage = "card_delivered"

SInv ==
  /\ TypeOK /\ Shown
  /\ InSequence(cache["status"], order, last)
  /\ Delivering(cache["status"], order, last, calls)

LEMMA SequenceKept ==
  ASSUME NEW e, NEW f, NEW o, NEW l, ShowsNoMore(e, f), InSequence(e, o, l)
  PROVE  InSequence(f, o, l)
BY DEF ShowsNoMore, InSequence, Seen

\* No revocation is sent anew.
NoMoreRevokes(cs, cs2) ==
  \A s \in Slots : cs2[s].kind = "revoke" /\ cs2[s].at \in {"sent", "lost"} =>
    cs[s].kind = "revoke" /\ cs[s].at \in {"sent", "lost"} /\ cs2[s].for = cs[s].for

LEMMA SInvQuiet ==
  ASSUME SInv, TypeOK', Shown', UNCHANGED <<order, last>>,
         InSequence(cache'["status"], order, last),
         \A x \in Seen(cache'["status"]) : x \in Seen(cache["status"]) \/ x = order \/ x = Error,
         NoMoreRevokes(calls, calls')
  PROVE  SInv'
<1>1. Delivering(cache'["status"], order, last, calls')
  BY OrderFields DEF SInv, Delivering, NoMoreRevokes
<1> QED BY <1>1 DEF SInv

\* What the account has is in sequence.
LEMMA OrderInSequence ==
  ASSUME TypeOK, NEW e, InSequence(e, order, last), NEW v \in {order, Error}
  PROVE  /\ v.id <= last /\ Before(v, order) /\ \A x \in Seen(e) : Before(x, v)
<1>1. /\ order \in Readings /\ last \in 0..MaxOrders /\ Error.id = 0
      /\ order.id = 0 \/ order.stage \in {"ordered", "card_delivered"}
  <2>1. order \in Orders /\ order \in Readings /\ last \in 0..MaxOrders /\ Error.id = 0
    BY TypesNamed, OrderFields
  <2>2. order = None <=> order.id = 0
    BY <2>1, OrderFields
  <2> QED BY <2>1, <2>2, ReadingFields, OrderFields
<1>2. order.id <= last /\ Before(order, order)
  BY <1>1, ReadingFields, CardPagesAssumption DEF InSequence, Before
<1>3. Error.id <= last /\ Before(Error, order) /\ \A x : Before(x, Error)
  BY <1>1, CardPagesAssumption DEF Before
<1> QED BY <1>2, <1>3 DEF InSequence

LEMMA SServe ==
  ASSUME SInv, NEW q \in Queries, Serve(q)
  PROVE  SInv'
<1>1. TypeOK /\ TypeOK' /\ Shown' /\ UNCHANGED <<order, last, calls>>
  BY ServeStep DEF SInv
<1>2. /\ \A r \in Queries : Read(cache'[r]) = Read(cache[r]) /\ (r # q => cache'[r] = cache[r])
      /\ "status" \in Queries
  BY <1>1, ServeShows DEF Queries
<1>3. NoMoreRevokes(calls, calls')
  BY <1>1 DEF NoMoreRevokes
<1>4. CASE q = "status"
  <2>1. PICK v \in Readings : Got(cache'[q]) \subseteq {v} /\ (v = Answer(q) \/ v = Error)
    BY <1>1, ServeShows
  <2>2. v \in {order, Error}
    BY <1>4, <2>1 DEF Answer
  <2>3. InSequence(cache[q], order, last)
    BY <1>4 DEF SInv
  <2>4. v.id <= last /\ Before(v, order) /\ \A x \in Seen(cache[q]) : Before(x, v)
    BY <1>1, <2>2, <2>3, OrderInSequence
  <2>5. Read(cache'[q]) = Read(cache[q])
    BY <1>2
  <2>6. InSequence(cache'[q], order, last)
    BY <2>1, <2>3, <2>4, <2>5 DEF InSequence, Seen
  <2>7. \A x \in Seen(cache'[q]) : x \in Seen(cache[q]) \/ x = order \/ x = Error
    BY <2>1, <2>2, <2>5 DEF Seen
  <2> QED BY <1>1, <1>3, <1>4, <2>6, <2>7, SInvQuiet
<1>5. CASE q # "status"
  <2>1. cache'["status"] = cache["status"]
    BY <1>2, <1>5
  <2> QED BY <1>1, <1>3, <2>1, SInvQuiet DEF SInv
<1> QED BY <1>4, <1>5

LEMMA SLand ==
  ASSUME SInv, NEW q \in Queries, Land(q)
  PROVE  SInv'
<1>1. /\ TypeOK /\ Shown /\ TypeOK' /\ Shown' /\ UNCHANGED <<order, last>>
      /\ SameCalls(IF q = "status" THEN Release(calls) ELSE calls, calls')
      /\ calls \in [Slots -> Calls] /\ "status" \in Queries
  BY LandStep, TypesNamed DEF SInv, Typed, Queries
<1>2. /\ Read(cache'[q]) = Got(cache[q]) /\ Got(cache'[q]) = {}
      /\ \A r \in Queries : r # q => ShowsNoMore(cache[r], cache'[r])
  BY <1>1, LandShows
<1>3. NoMoreRevokes(calls, calls')
  BY <1>1, Releases DEF SameCalls, NoMoreRevokes
<1>4. CASE q = "status"
  <2>1. InSequence(cache'["status"], order, last)
    BY <1>2, <1>4 DEF SInv, InSequence, Seen
  <2> QED BY <1>1, <1>2, <1>3, <1>4, <2>1, SInvQuiet DEF Seen
<1>5. CASE q # "status"
  <2>1. ShowsNoMore(cache["status"], cache'["status"])
    BY <1>1, <1>2, <1>5
  <2>2. InSequence(cache'["status"], order, last)
    BY <2>1, SequenceKept DEF SInv
  <2> QED BY <1>1, <1>3, <2>1, <2>2, SInvQuiet DEF ShowsNoMore, Seen
<1> QED BY <1>4, <1>5

\* What the page calls active has been delivered, and is not ordered anew.
LEMMA ActiveIsDelivered ==
  ASSUME SInv, page = "active", ~Misdirected, NEW d \in cache["status"].data, cache["status"].data = {d}
  PROVE  /\ d.ver.id # 0 /\ d.ver.id <= last
         /\ \A x \in Seen(cache["status"]) \cup {order} : x.id = d.ver.id => x.stage = "card_delivered"
<1> DEFINE e == cache["status"]
           v == d.ver
<1>1. e \in QC!Entries /\ Seen(e) \subseteq Readings /\ Read(e) = {v}
  BY TypesNamed, EntryShows DEF SInv, Typed, Queries, Read
<1>2. v.stage = "card_delivered"
  <2>1. Destination(cache) = "active"
    BY DEF Misdirected, Renders, CardPages
  <2> QED BY <2>1, DestinationFact
<1>3. v \in Readings /\ v \in Seen(e)
  BY <1>1 DEF Seen
<1>4. v.id # 0 /\ v.id \in Nat
  BY <1>2, <1>3, ReadingFields, CardPagesAssumption
<1>5. v.id <= last /\ Before(v, order) /\ \A g \in Got(e) : Before(v, g)
  BY <1>1, <1>3 DEF SInv, InSequence
<1> HIDE DEF e, v
<1>6. \A x \in Seen(e) \cup {order} : x.id = v.id => x.stage = "card_delivered"
  <2> SUFFICES ASSUME NEW x \in Seen(e) \cup {order}, x.id = v.id PROVE x.stage = "card_delivered"
    OBVIOUS
  <2>1. x = v \/ Before(v, x)
    BY <1>1, <1>5 DEF Seen
  <2> QED BY <1>2, <1>4, <2>1 DEF Before
<1> QED BY <1>4, <1>5, <1>6 DEF e, v

LEMMA SSend ==
  ASSUME SInv, OrderCard \/ RevokeCard
  PROVE  SInv'
<1>1. /\ TypeOK /\ calls \in [Slots -> Calls]
      /\ TypeOK' /\ Shown' /\ UNCHANGED <<page, nav, cache, order, last, faults>>
  BY CallSent, TypesNamed DEF SInv, Typed
<1>2. PICK s \in Slots, x \in Calls :
        /\ Set(s, x) /\ x.at = "sent"
        /\ x.kind = "revoke" =>
             /\ page = "active" /\ ~Misdirected
             /\ \E d \in cache["status"].data : d.ver.id = x.for /\ cache["status"].data = {d}
  BY <1>1, CallSent
<1>3. calls'[s] = x /\ \A t \in Slots : t # s => calls'[t] = calls[t]
  BY <1>1, <1>2 DEF Set
<1>4. x.kind = "revoke" =>
        /\ x.for # 0 /\ x.for <= last
        /\ \A y \in Seen(cache["status"]) \cup {order} : y.id = x.for => y.stage = "card_delivered"
  BY <1>2, ActiveIsDelivered
<1>5. Delivering(cache["status"], order, last, calls')
  BY <1>3, <1>4 DEF SInv, Delivering
<1> QED BY <1>1, <1>5 DEF SInv

\* The order is created, delivered or deleted in sequence.
LEMMA MovedInSequence ==
  ASSUME SInv, TypeOK',
         Created \/ Deleted \/ (order'.id = order.id /\ order'.stage = "card_delivered" /\ last' = last)
  PROVE  /\ InSequence(cache["status"], order', last')
         /\ Delivering(cache["status"], order', last', calls)
<1> DEFINE e == cache["status"]
<1>1. /\ order \in Readings /\ order' \in Readings /\ last \in Nat /\ Seen(e) \subseteq Readings
      /\ None.id = 0 /\ \A s \in Slots : calls[s].for \in Nat
  <2>1. /\ order \in Orders /\ last \in 0..MaxOrders /\ e \in QC!Entries /\ calls \in [Slots -> Calls]
    BY TypesNamed DEF SInv, Typed, Queries
  <2>2. order' \in Orders
    BY DEF TypeOK, Orders
  <2>3. \A s \in Slots : calls[s].for \in Nat
    BY <2>1, CardPagesAssumption DEF Calls
  <2> QED BY <2>1, <2>2, <2>3, OrderFields, EntryShows, CardPagesAssumption
<1>2. \A x \in Seen(e) : x.id \in Nat
  BY <1>1, ReadingFields, CardPagesAssumption
<1>3. InSequence(e, order, last) /\ Delivering(e, order, last, calls)
  BY DEF SInv
<1>4. CASE Created
  <2>1. order = None /\ last' = last + 1 /\ order'.id = last + 1
    BY <1>4, OrderMoves DEF SInv
  <2> HIDE DEF e
  <2>2. \A x \in Seen(e) : x.id <= last' /\ x.id < order'.id
    BY <1>1, <1>2, <1>3, <2>1 DEF InSequence
  <2>3. InSequence(e, order', last')
    BY <1>1, <1>2, <1>3, <2>1, <2>2 DEF InSequence, Before
  <2>4. Delivering(e, order', last', calls)
    BY <1>1, <1>2, <1>3, <2>1, <2>2 DEF Delivering
  <2> QED BY <2>3, <2>4 DEF e
<1>5. CASE Deleted
  <2>1. order' = None /\ last' = last
    BY <1>5, OrderMoves DEF SInv
  <2> HIDE DEF e
  <2>2. InSequence(e, order', last') /\ Delivering(e, order', last', calls)
    BY <1>1, <1>3, <2>1 DEF InSequence, Before, Delivering
  <2> QED BY <2>2 DEF e
<1>6. CASE order'.id = order.id /\ order'.stage = "card_delivered" /\ last' = last
  BY <1>3, <1>6 DEF InSequence, Before, Delivering
<1> QED BY <1>4, <1>5, <1>6

LEMMA SCarryOut ==
  ASSUME SInv, NEW s \in Slots, CarryOut(s)
  PROVE  SInv'
<1>1. /\ TypeOK /\ TypeOK' /\ calls \in [Slots -> Calls] /\ UNCHANGED <<page, nav, cache, faults>>
      /\ Created \/ Deleted \/ UNCHANGED <<order, last>>
  BY CarryOutStep, TypesNamed DEF SInv, Typed
<1>2. PICK x \in Calls : Set(s, x) /\ x.at \notin {"sent", "lost"}
  BY <1>1, CarryOutStep DEF Idle
<1>3. NoMoreRevokes(calls, calls')
  BY <1>1, <1>2 DEF Set, NoMoreRevokes
<1>4. Shown'
  BY <1>1 DEF SInv, Shown
<1>5. InSequence(cache["status"], order', last') /\ Delivering(cache["status"], order', last', calls)
  BY <1>1, MovedInSequence DEF SInv
<1>6. Delivering(cache["status"], order', last', calls')
  BY <1>3, <1>5 DEF Delivering, NoMoreRevokes
<1> QED BY <1>1, <1>4, <1>5, <1>6 DEF SInv

LEMMA SInvInit == Init => SInv
<1> SUFFICES ASSUME Init PROVE SInv
  OBVIOUS
<1>1. Seen(cache["status"]) = {} /\ order.id = 0
  BY OrderFields DEF Init, Queries, Seen, Read, Got, QC!Absent
<1>2. InSequence(cache["status"], order, last)
  BY <1>1 DEF InSequence, Seen
<1>3. Delivering(cache["status"], order, last, calls)
  BY DEF Init, Delivering, Idle
<1> QED BY <1>2, <1>3, CardsInit DEF SInv

LEMMA SInvNext == SInv /\ [Next]_vars => SInv'
<1> SUFFICES ASSUME SInv, [Next]_vars PROVE SInv'
  OBVIOUS
<1>1. /\ TypeOK /\ Shown /\ TypeOK' /\ Shown' /\ calls \in [Slots -> Calls] /\ "status" \in Queries
      /\ InSequence(cache["status"], order, last)
  BY CardsNext, TypesNamed DEF SInv, Typed, Queries
<1>2. ASSUME NothingRead, UNCHANGED <<order, last>>, NoMoreRevokes(calls, calls') PROVE SInv'
  <2>1. ShowsNoMore(cache["status"], cache'["status"])
    BY <1>1, <1>2 DEF NothingRead
  <2>2. InSequence(cache'["status"], order, last)
    BY <1>1, <2>1, SequenceKept
  <2>3. \A x \in Seen(cache'["status"]) : x \in Seen(cache["status"])
    BY <2>1 DEF ShowsNoMore, Seen
  <2> QED BY <1>1, <1>2, <2>2, <2>3, SInvQuiet
<1>3. CASE Touching
  <2>1. SameCalls(calls, calls') /\ UNCHANGED <<order, last>>
    BY <1>1, <1>3, TouchingStep DEF Touches
  <2>2. NoMoreRevokes(calls, calls')
    BY <2>1 DEF SameCalls, NoMoreRevokes
  <2> QED BY <1>1, <1>2, <1>3, <2>1, <2>2, TouchingReadsNothing
<1>4. ASSUME NEW p \in Entrances, Reload(p) PROVE SInv'
  <2>1. Seen(cache'["status"]) = {} /\ calls' = [s \in Slots |-> Orphaned(s)] /\ UNCHANGED <<order, last>>
    BY <1>1, <1>4, ReloadStep
  <2>2. NoMoreRevokes(calls, calls')
    BY <1>1, <2>1, OrphanedFact DEF NoMoreRevokes, Idle
  <2>3. InSequence(cache'["status"], order, last)
    BY <1>1, <2>1 DEF InSequence, Seen
  <2> QED BY <1>1, <2>1, <2>2, <2>3, SInvQuiet
<1>5. ASSUME NEW q \in Queries, Collect(q) PROVE SInv'
  <2>1. UNCHANGED <<calls, order, last>> /\ NothingRead
    BY <1>1, <1>5, CollectStep, CollectReadsNothing
  <2> QED BY <1>2, <2>1 DEF NoMoreRevokes
<1>6. ASSUME NEW s \in Slots, Answered(s) PROVE SInv'
  <2>1. /\ UNCHANGED <<order, last>> /\ calls'[s].at \in {"idle", "refreshing"}
        /\ \A t \in Slots : /\ calls'[t].at # "idle" /\ t # s =>
                                 calls'[t].at = calls[t].at /\ calls'[t].for = calls[t].for
                            /\ calls'[t].kind = "revoke" => calls[t].kind = "revoke"
    BY <1>1, <1>6, AnsweredStep
  <2>2. NoMoreRevokes(calls, calls')
    BY <2>1 DEF NoMoreRevokes
  <2> QED BY <1>1, <1>2, <1>6, <2>1, <2>2, AnsweredReadsNothing
<1>7. ASSUME NEW s \in Slots, Refused(s) \/ AnswerLost(s) PROVE SInv'
  <2>1. (Set(s, Idle) \/ Set(s, Orphaned(s))) /\ UNCHANGED <<cache, order, last>>
    BY <1>1, <1>7, EndStep
  <2>2. NoMoreRevokes(calls, calls')
    BY <1>1, <2>1, OrphanedFact DEF Set, NoMoreRevokes, Idle
  <2> QED BY <1>2, <2>1, <2>2, UntouchedShows
<1>8. CASE Delivered \/ Meddle
  <2>1. /\ \/ order'.id = order.id /\ order'.stage = "card_delivered" /\ last' = last
           \/ Created \/ Deleted
        /\ UNCHANGED <<cache, calls>>
    BY <1>1, <1>8, ElsewhereStep
  <2>2. InSequence(cache["status"], order', last') /\ Delivering(cache["status"], order', last', calls)
    BY <1>1, <2>1, MovedInSequence
  <2> QED BY <1>1, <2>1, <2>2 DEF SInv
<1> QED BY <1>3, <1>4, <1>5, <1>6, <1>7, <1>8, StepCases, SServe, SLand, SSend, SCarryOut

-----------------------------------------------------------------------------
(* The way into ErrorPage                                                  *)

Calm == causes \cap {"astray", "failed", "meddled"} = {}

\* An order that is said to be on its way is the one there is.
OnItsWay(e, o) == \A x \in Seen(e) : x.stage = "ordered" => x.id = o.id

\* The history is read while there is an order, and holds no error.
HistoryFits(h, o) ==
  /\ QC!Fetching(h) => o.id # 0
  /\ Error \notin Seen(h)

HInv ==
  /\ SInv
  /\ Calm => /\ Error \notin Seen(cache["status"])
             /\ OnItsWay(cache["status"], order)
             /\ "history" \notin untimely => HistoryFits(cache["history"], order)

\* The status page is called for by an order, the one there is.
LEMMA WayFact ==
  ASSUME NEW c, NEW o, c["status"] \in QC!Entries, StatusShown(c), Error \notin Read(c["status"]),
         \A x \in Read(c["status"]) : x.stage = "ordered" => x.id = o.id
  PROVE  o.id # 0
<1>1. PICK d \in c["status"].data : d.ver \in Read(c["status"]) /\ d.ver \in Readings
  BY EntryShows DEF StatusShown, QC!HasData, Read, Seen
<1>2. d.ver # None /\ d.ver # Error /\ d.ver.stage # "card_delivered"
  BY <1>1, DestinationFact DEF StatusShown, Holds
<1>3. d.ver.id # 0 /\ d.ver.stage = "ordered"
  BY <1>1, <1>2, ReadingFields
<1> QED BY <1>1, <1>3

LEMMA NothingThrows ==
  ASSUME NEW c, Error \notin Read(c["status"]), Error \notin Read(c["history"])
  PROVE  \A p : ~Throws(p, c)
BY DEF Throws, Holds, Read

LEMMA HQuiet ==
  ASSUME HInv, SInv', order'.id = order.id, causes \subseteq causes',
         Calm' => /\ \A x \in Seen(cache'["status"]) : x \in Seen(cache["status"]) \/ x = order
                  /\ "history" \notin untimely' => HistoryFits(cache'["history"], order)
  PROVE  HInv'
<1> SUFFICES ASSUME Calm'
             PROVE  /\ Error \notin Seen(cache'["status"])
                    /\ OnItsWay(cache'["status"], order')
                    /\ "history" \notin untimely' => HistoryFits(cache'["history"], order')
  BY DEF HInv
<1>1. Calm /\ Error \notin Seen(cache["status"]) /\ OnItsWay(cache["status"], order)
  BY DEF Calm, HInv
<1>2. order # Error
  <2>1. order \in Orders
    BY TypesNamed DEF HInv, SInv
  <2>2. order.id = 0 <=> order = None
    BY <2>1, OrderFields
  <2> QED BY <2>2, OrderFields
<1> QED BY <1>1, <1>2 DEF OnItsWay, HistoryFits

\* Steps after which no answer is new.
LEMMA HNothingRead ==
  ASSUME HInv, SInv', NothingRead, order'.id = order.id, causes \subseteq causes',
         "history" \in untimely => "history" \in untimely' \/ HistoryFits(cache'["history"], order)
  PROVE  HInv'
<1>1. /\ \A q \in {"status", "history"} : Seen(cache'[q]) \subseteq Seen(cache[q])
      /\ cache["status"] \in QC!Entries
  BY TypesNamed DEF HInv, SInv, Typed, Queries, NothingRead, ShowsNoMore, Seen
<1>2. ASSUME Calm', "history" \notin untimely' PROVE HistoryFits(cache'["history"], order)
  <2>1. Calm
    BY <1>2 DEF Calm
  <2>2. CASE "history" \in untimely
    BY <1>2, <2>2
  <2>3. CASE "history" \notin untimely
    <3>1. /\ HistoryFits(cache["history"], order)
          /\ Error \notin Seen(cache["status"]) /\ OnItsWay(cache["status"], order)
      BY <2>1, <2>3 DEF HInv
    <3>2. StatusShown(cache) => order.id # 0
      BY <1>1, <3>1, WayFact DEF OnItsWay, Seen
    <3> QED BY <1>1, <3>1, <3>2 DEF NothingRead, HistoryFits
  <2> QED BY <2>2, <2>3
<1> QED BY <1>1, <1>2, HQuiet

LEMMA HServe ==
  ASSUME HInv, SInv', NEW q \in Queries, Serve(q)
  PROVE  HInv'
<1>1. TypeOK /\ UNCHANGED <<order, untimely>>
  BY ServeStep DEF HInv, SInv
<1>2. \A r \in Queries : /\ Read(cache'[r]) = Read(cache[r])
                         /\ QC!Fetching(cache'[r]) <=> QC!Fetching(cache[r])
                         /\ r # q => cache'[r] = cache[r]
  BY <1>1, ServeShows
<1>3. PICK v \in Readings : /\ Got(cache'[q]) \subseteq {v}
                            /\ \/ causes' = causes /\ v = Answer(q)
                               \/ causes' = causes \cup {"failed"} /\ v = Error
  BY <1>1, ServeShows
<1>4. causes \subseteq causes' /\ (Calm' => Calm /\ v = Answer(q))
  BY <1>3 DEF Calm
<1>5. Calm' => \A x \in Seen(cache'["status"]) : x \in Seen(cache["status"]) \/ x = order
  <2>1. q = "status" => Answer(q) = order
    BY DEF Answer
  <2> QED BY <1>2, <1>3, <1>4, <2>1 DEF Seen, Queries
<1>6. ASSUME Calm', "history" \notin untimely' PROVE HistoryFits(cache'["history"], order)
  <2>1. HistoryFits(cache["history"], order)
    BY <1>1, <1>4, <1>6 DEF HInv
  <2>2. CASE q = "history"
    <3>1. order.id # 0
      BY <1>1, <2>1, <2>2, ServeStep DEF HistoryFits
    <3>2. order # Error /\ order # None
      BY <3>1, OrderFields
    <3>3. v # Error
      BY <1>4, <1>6, <3>2 DEF Answer
    <3> QED BY <1>2, <1>3, <2>1, <2>2, <3>1, <3>3 DEF HistoryFits, Seen
  <2>3. CASE q # "history"
    BY <1>2, <2>1, <2>3 DEF Queries
  <2> QED BY <2>2, <2>3
<1> QED BY <1>1, <1>4, <1>5, <1>6, HQuiet

LEMMA HLand ==
  ASSUME HInv, SInv', NEW q \in Queries, Land(q)
  PROVE  /\ HInv'
         /\ page # "error" /\ page' = "error" /\ Calm => "history" \in untimely
<1>1. TypeOK /\ Shown /\ UNCHANGED <<order, causes>> /\ "status" \in Queries /\ "history" \in Queries
  BY LandStep DEF HInv, SInv, Queries
<1>2. /\ Read(cache'[q]) = Got(cache[q]) /\ Got(cache'[q]) = {}
      /\ \A r \in Queries : r # q => ShowsNoMore(cache[r], cache'[r])
      /\ q \notin untimely' => q \notin untimely \/ \A v \in Got(cache[q]) : v # Error /\ v.id = order.id
      /\ \A r \in Queries : r # q => (r \in untimely' <=> r \in untimely)
  BY <1>1, LandShows
<1>3. PICK c : /\ c["status"] \in QC!Entries
               /\ Read(c["status"]) \subseteq Seen(cache["status"])
               /\ Read(c["history"]) \subseteq Seen(cache["history"])
               /\ page' = "error" => page = "error" \/ \E p \in CardPages : Throws(p, c)
               /\ QC!Fetching(cache'["history"]) =>
                    (q # "history" /\ QC!Fetching(cache["history"])) \/ StatusShown(c)
  BY <1>1, LandShows
<1>4. \A r \in Queries : Seen(cache'[r]) \subseteq Seen(cache[r])
  BY <1>2 DEF ShowsNoMore, Seen
<1>5. Calm => /\ Error \notin Seen(cache["status"]) /\ OnItsWay(cache["status"], order)
              /\ Error \notin Read(c["status"])
              /\ StatusShown(c) => order.id # 0
  <2>1. Calm => Error \notin Seen(cache["status"]) /\ OnItsWay(cache["status"], order)
    BY DEF HInv
  <2>2. Calm => \A x \in Read(c["status"]) : x.stage = "ordered" => x.id = order.id
    BY <1>3, <2>1 DEF OnItsWay
  <2> QED BY <1>3, <2>1, <2>2, WayFact
<1>6. ASSUME Calm, "history" \notin untimely' PROVE HistoryFits(cache'["history"], order)
  <2>1. Error \notin Seen(cache'["history"])
    <3>1. CASE q = "history" /\ "history" \in untimely
      BY <1>2, <1>6, <3>1 DEF Seen
    <3>2. CASE "history" \notin untimely
      BY <1>1, <1>4, <1>6, <3>2 DEF HInv, HistoryFits
    <3> QED BY <1>1, <1>2, <1>6, <3>1, <3>2
  <2>2. QC!Fetching(cache'["history"]) => order.id # 0
    <3>1. q # "history" => "history" \notin untimely
      BY <1>1, <1>2, <1>6
    <3>2. "history" \notin untimely => HistoryFits(cache["history"], order)
      BY <1>6 DEF HInv
    <3> QED BY <1>3, <1>5, <1>6, <3>1, <3>2 DEF HistoryFits
  <2> QED BY <2>1, <2>2 DEF HistoryFits
<1>7. HInv'
  <2>1. Calm' => Calm
    BY <1>1 DEF Calm
  <2> QED BY <1>1, <1>4, <1>6, <2>1, HQuiet
<1>8. ASSUME page # "error", page' = "error", Calm, "history" \notin untimely PROVE FALSE
  <2>1. \E p \in CardPages : Throws(p, c)
    BY <1>3, <1>8
  <2>2. Error \notin Read(c["history"])
    BY <1>3, <1>8 DEF HInv, HistoryFits
  <2> QED BY <1>5, <1>8, <2>1, <2>2, NothingThrows
<1> QED BY <1>7, <1>8

LEMMA HCarryOut ==
  ASSUME HInv, SInv', NEW s \in Slots, CarryOut(s)
  PROVE  HInv'
<1>1. /\ TypeOK /\ calls[s].at \in {"sent", "lost"} /\ cache' = cache
      /\ \/ Created /\ calls[s].kind = "order"
         \/ order' = order
         \/ Deleted /\ calls[s].kind = "revoke"
      /\ untimely' = untimely \cup {q \in Queries : order' # order /\ QC!Fetching(cache[q])}
      /\ causes' = IF calls[s].kind = "revoke" /\ order.id \notin {0, calls[s].for}
                     THEN causes \cup {"astray"} ELSE causes
  BY CarryOutStep DEF HInv, SInv
<1> SUFFICES ASSUME Calm'
             PROVE  /\ Error \notin Seen(cache["status"])
                    /\ OnItsWay(cache["status"], order')
                    /\ "history" \notin untimely' => HistoryFits(cache["history"], order')
  BY <1>1 DEF HInv
<1>2. Calm /\ (calls[s].kind = "revoke" => order.id \in {0, calls[s].for})
  BY <1>1 DEF Calm
<1>3. /\ Error \notin Seen(cache["status"]) /\ OnItsWay(cache["status"], order)
      /\ "history" \notin untimely => HistoryFits(cache["history"], order)
  BY <1>2 DEF HInv
<1>4. \A x \in Seen(cache["status"]) : x.stage = "ordered" => x.id = order.id /\ x.id # 0
  <2>1. \A x \in Seen(cache["status"]) : x \in Readings
    BY <1>1, TypesNamed, EntryShows DEF Typed, Queries
  <2> QED BY <1>3, <2>1, ReadingFields DEF OnItsWay
<1>5. OnItsWay(cache["status"], order')
  <2>1. CASE Created
    <3>1. order.id = 0
      BY <1>1, <2>1, OrderMoves, OrderFields
    <3> QED BY <1>4, <3>1 DEF OnItsWay
  <2>2. CASE order' = order
    BY <1>3, <2>2
  <2>3. CASE calls[s].kind = "revoke"
    <3>1. \A x \in Seen(cache["status"]) : x.id = calls[s].for => x.stage = "card_delivered"
      BY <1>1, <2>3 DEF HInv, SInv, Delivering
    <3> QED BY <1>2, <1>4, <2>3, <3>1 DEF OnItsWay
  <2> QED BY <1>1, <2>1, <2>2, <2>3
<1>6. ASSUME "history" \notin untimely' PROVE HistoryFits(cache["history"], order')
  <2>1. HistoryFits(cache["history"], order) /\ (QC!Fetching(cache["history"]) => order' = order)
    BY <1>1, <1>3, <1>6 DEF Queries
  <2> QED BY <2>1 DEF HistoryFits
<1> QED BY <1>3, <1>5, <1>6

LEMMA HInvInit == Init => HInv
<1> SUFFICES ASSUME Init PROVE HInv
  OBVIOUS
<1>1. cache["status"] = QC!Absent /\ cache["history"] = QC!Absent
  BY DEF Init, Queries
<1> QED BY <1>1, SInvInit, AbsentIsEntry DEF HInv, OnItsWay, HistoryFits

LEMMA HInvNext ==
  ASSUME HInv, [Next]_vars
  PROVE  /\ HInv'
         /\ page # "error" /\ page' = "error" /\ Calm => "history" \in untimely
<1>1. /\ SInv' /\ TypeOK /\ Shown /\ cache \in [Queries -> QC!Entries]
      /\ "status" \in Queries /\ "history" \in Queries
  BY SInvNext, TypesNamed DEF HInv, SInv, Typed, Queries
<1>2. CASE Touching
  <2>1. /\ NothingRead /\ UNCHANGED <<order, untimely, causes>>
        /\ page' = "error" => page = "error" \/ \E p \in CardPages : Throws(p, cache)
    BY <1>1, <1>2, TouchingStep, TouchingReadsNothing DEF Touches
  <2>2. ASSUME page # "error", page' = "error", Calm, "history" \notin untimely PROVE FALSE
    <3>1. Error \notin Read(cache["status"]) /\ Error \notin Read(cache["history"])
      BY <2>2 DEF HInv, HistoryFits, Seen
    <3> QED BY <2>1, <2>2, <3>1, NothingThrows
  <2> QED BY <1>1, <2>1, <2>2, HNothingRead
<1>3. ASSUME NEW p \in Entrances, Reload(p) PROVE HInv' /\ page' # "error"
  <2>1. /\ page' = "start" /\ order' = order /\ causes \subseteq causes'
        /\ \A q \in Queries : Seen(cache'[q]) = {}
        /\ QC!Fetching(cache'["history"]) => p = "status"
        /\ untimely' = IF p = "status" /\ order = None THEN {"history"} ELSE {}
    BY <1>1, <1>3, ReloadStep
  <2>2. order.id = 0 <=> order = None
    BY <1>1, TypesNamed, OrderFields
  <2>3. "history" \notin untimely' => HistoryFits(cache'["history"], order)
    BY <1>1, <2>1, <2>2 DEF HistoryFits
  <2> QED BY <1>1, <2>1, <2>3, HQuiet
<1>4. ASSUME NEW q \in Queries, Collect(q) PROVE HInv' /\ page' = page
  <2>1. /\ cache' = [cache EXCEPT ![q] = QC!Absent] /\ untimely' = untimely \ {q}
        /\ UNCHANGED <<page, order, causes>>
    BY <1>1, <1>4, CollectStep
  <2>2. q = "history" => HistoryFits(cache'["history"], order)
    BY <1>1, <2>1, AbsentIsEntry DEF HistoryFits
  <2>3. NothingRead
    BY <1>1, <1>4, CollectReadsNothing
  <2> QED BY <1>1, <2>1, <2>2, <2>3, HNothingRead
<1>5. CASE OrderCard \/ RevokeCard
  <2>1. UNCHANGED <<page, cache, order, untimely>> /\ causes \subseteq causes'
    BY <1>1, <1>5, CallSent
  <2> QED BY <1>1, <2>1, UntouchedShows, HNothingRead
<1>6. ASSUME NEW s \in Slots, Answered(s) PROVE HInv' /\ page' = page
  <2>1. NothingRead /\ UNCHANGED <<page, order, untimely, causes>>
    BY <1>1, <1>6, AnsweredStep, AnsweredReadsNothing
  <2> QED BY <1>1, <2>1, HNothingRead
<1>7. ASSUME NEW s \in Slots, Refused(s) \/ AnswerLost(s) PROVE HInv' /\ page' = page
  <2>1. UNCHANGED <<page, cache, order, untimely>> /\ causes \subseteq causes'
    BY <1>1, <1>7, EndStep
  <2> QED BY <1>1, <2>1, UntouchedShows, HNothingRead
<1>8. CASE Delivered \/ Meddle
  <2>1. /\ UNCHANGED <<page, cache, untimely>>
        /\ \/ order'.id = order.id /\ causes' = causes
           \/ causes' = causes \cup {"meddled"}
    BY <1>1, <1>8, ElsewhereStep
  <2>2. CASE order'.id = order.id /\ causes' = causes
    BY <1>1, <2>1, <2>2, UntouchedShows, HNothingRead
  <2>3. CASE causes' = causes \cup {"meddled"}
    BY <1>1, <2>1, <2>3 DEF HInv, Calm
  <2> QED BY <2>1, <2>2, <2>3
<1>9. ASSUME NEW q \in Queries, Serve(q) PROVE HInv' /\ page' = page
  BY <1>1, <1>9, HServe, ServeStep
<1>10. ASSUME NEW s \in Slots, CarryOut(s) PROVE HInv' /\ page' = page
  BY <1>1, <1>10, HCarryOut, CarryOutStep
<1>11. ASSUME NEW q \in Queries, Land(q)
       PROVE  HInv' /\ (page # "error" /\ page' = "error" /\ Calm => "history" \in untimely)
  BY <1>1, <1>11, HLand
<1> QED BY <1>2, <1>3, <1>4, <1>5, <1>6, <1>7, <1>8, <1>9, <1>10, <1>11, StepCases

(* ErrorPage has one way in, for any number of calls, orders, reloads and  *)
(* lost calls.  As long as no read has failed, no other client has acted   *)
(* and no revocation has deleted an order it was not sent about, a page    *)
(* only breaks when the history has been read while a call changed the     *)
(* order, or by the loader of the status page though there was none, and   *)
(* has not been read in time since.                                        *)
THEOREM PagesNeverCrash == Spec => NoCrash
<1>1. HInv /\ [Next]_vars => HInv'
  BY HInvNext
<1>2. HInv /\ [Next]_vars =>
        [page # "error" /\ page' = "error" /\ causes \cap {"astray", "failed", "meddled"} = {}
         => "history" \in untimely]_vars
  BY HInvNext DEF Calm
<1> QED BY <1>1, <1>2, HInvInit, PTL DEF Spec, NoCrash
=============================================================================
