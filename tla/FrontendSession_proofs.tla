------------------------ MODULE FrontendSession_proofs ------------------------
(***************************************************************************)
(* Theorems about FrontendSession, for any users, query keys, calls in     *)
(* flight and bounds: type correctness, that no user's data reaches        *)
(* another user, and that what the router or a form waits for is read.     *)
(***************************************************************************)
EXTENDS FrontendSession, TLAPS

Owners == Users \cup {NoUser}

Calls == [kind : Kinds \cup {"none"}, user : Owners, mounted : BOOLEAN,
          at : {"idle", "sent", "lost", "done", "refused", "refreshing", "refreshed", "rereading"}]

Navs == [to : Pages, await : SUBSET (Keys \cup {"removed"})]

-----------------------------------------------------------------------------
(* The entries of the cache                                                *)

\* Entry f comes from e by reads started for r; none in flight is given up, and
\* what e shows gets no fresher.
Touched(e, f, r) ==
  /\ f \in QC!Entries
  /\ f.data = e.data
  /\ f.fresh => e.fresh
  /\ \A x \in f.fetch : x \in e.fetch \/ (x.for = r /\ x.got = {})
  /\ QC!Fetching(e) => QC!Fetching(f)

LEMMA AtMostOneIntro ==
  ASSUME NEW S, NEW x \in S
  PROVE  /\ {} \in QC!AtMostOne(S)
         /\ {x} \in QC!AtMostOne(S)
BY DEF QC!AtMostOne

LEMMA AtMostOneElim ==
  ASSUME NEW S, NEW T \in QC!AtMostOne(S)
  PROVE  T = {} \/ \E x \in S : T = {x}
BY DEF QC!AtMostOne

LEMMA NothingIsOne ==
  ASSUME NEW S
  PROVE  {} \in QC!AtMostOne(S)
BY DEF QC!AtMostOne

LEMMA EntryFields ==
  ASSUME NEW e \in QC!Entries
  PROVE  /\ e.data \in QC!AtMostOne([owner : Owners, ver : 0..MaxVersion + 1])
         /\ e.fresh \in BOOLEAN
         /\ e.fetch \in QC!AtMostOne([for : Owners, got : QC!AtMostOne(0..MaxVersion + 1)])
         /\ e = [data |-> e.data, fresh |-> e.fresh, fetch |-> e.fetch]
BY DEF QC!Entries, Owners

LEMMA AbsentIsEntry == QC!Absent \in QC!Entries
BY NothingIsOne DEF QC!Absent, QC!Entries

\* Reading, marking and invalidating touch an entry.
LEMMA TouchingOperators ==
  ASSUME NEW e \in QC!Entries, NEW r \in Owners, NEW w \in BOOLEAN
  PROVE  /\ Touched(e, e, r)
         /\ Touched(e, QC!Aged(e), r)
         /\ Touched(e, QC!Request(e, r), r)
         /\ Touched(e, QC!Join(e, r), r)
         /\ Touched(e, QC!Ensure(e, r), r)
         /\ Touched(e, QC!Watch(e, r), r)
         /\ Touched(e, QC!Invalidate(e, r, w), r)
<1> DEFINE Asked == [for |-> r, got |-> {}]
<1>1. {Asked} \in QC!AtMostOne([for : Owners, got : QC!AtMostOne(0..MaxVersion + 1)])
  <2>1. Asked \in [for : Owners, got : QC!AtMostOne(0..MaxVersion + 1)]
    BY NothingIsOne
  <2> QED BY <2>1, AtMostOneIntro
<1>2. ASSUME NEW d \in QC!Entries
      PROVE  /\ QC!Aged(d) \in QC!Entries
             /\ QC!Aged(d).data = d.data /\ QC!Aged(d).fetch = d.fetch /\ ~QC!Aged(d).fresh
             /\ QC!Request(d, r) \in QC!Entries
             /\ QC!Request(d, r).data = d.data /\ QC!Request(d, r).fetch = {Asked}
             /\ QC!Request(d, r).fresh = d.fresh
  <2>1. QC!Aged(d) \in QC!Entries
    BY DEF QC!Aged, QC!Entries
  <2>2. QC!Aged(d).data = d.data /\ QC!Aged(d).fetch = d.fetch /\ ~QC!Aged(d).fresh
    BY DEF QC!Aged, QC!Entries
  <2>3. QC!Request(d, r) \in QC!Entries
    BY <1>1 DEF QC!Request, QC!Entries, Owners
  <2>4. /\ QC!Request(d, r).data = d.data /\ QC!Request(d, r).fetch = {Asked}
        /\ QC!Request(d, r).fresh = d.fresh
    BY DEF QC!Request, QC!Entries
  <2> QED BY <2>1, <2>2, <2>3, <2>4
<1>3. Touched(e, e, r) /\ Touched(e, QC!Aged(e), r)
  BY <1>2 DEF Touched, QC!Fetching
<1>4. ASSUME NEW d \in QC!Entries
      PROVE  Touched(d, QC!Request(d, r), r) /\ Touched(d, QC!Join(d, r), r)
  <2>1. Asked.for = r /\ Asked.got = {}
    OBVIOUS
  <2> HIDE DEF Asked
  <2>2. Touched(d, QC!Request(d, r), r)
    BY <2>1, <1>2 DEF Touched, QC!Fetching
  <2> QED BY <2>2 DEF Touched, QC!Fetching, QC!Join
<1>5. Touched(e, QC!Ensure(e, r), r) /\ Touched(e, QC!Watch(e, r), r)
  BY <1>3, <1>4 DEF QC!Ensure, QC!Watch
<1>6. /\ Touched(e, QC!Request(QC!Aged(e), r), r)
      /\ Touched(e, QC!Join(QC!Aged(e), r), r)
  BY <1>2, <1>3, <1>4 DEF Touched
<1>7. Touched(e, QC!Invalidate(e, r, w), r)
  BY <1>3, <1>6 DEF QC!Invalidate
<1> QED BY <1>3, <1>4, <1>5, <1>7

\* The server answers, an answer lands, or the read is given up.
LEMMA AnsweringOperators ==
  ASSUME NEW e \in QC!Entries, NEW v \in 0..MaxVersion + 1
  PROVE  /\ QC!Served(e, v) \in QC!Entries
         /\ QC!Served(e, v).data = e.data /\ QC!Served(e, v).fresh = e.fresh
         /\ QC!Fetching(e) => QC!Fetching(QC!Served(e, v))
         /\ \A x \in QC!Served(e, v).fetch : x.got = {v} /\ \E f \in e.fetch : x.for = f.for
         /\ QC!GivenUp(e) \in QC!Entries
         /\ QC!GivenUp(e).data = e.data /\ QC!GivenUp(e).fresh = e.fresh /\ QC!GivenUp(e).fetch = {}
         /\ \A f \in e.fetch : /\ QC!Landed(f) \in QC!Entries
                               /\ \A d \in QC!Landed(f).data : d.owner = f.for /\ d.ver \in f.got
                               /\ QC!Landed(f).fetch = {}
<1> DEFINE Asking == [for : Owners, got : QC!AtMostOne(0..MaxVersion + 1)]
           Answer(f) == [for |-> f.for, got |-> {v}]
           Answers == {Answer(f) : f \in e.fetch}
<1>1. e.fetch = {} \/ \E f \in Asking : e.fetch = {f}
  <2>1. e.fetch \in QC!AtMostOne(Asking)
    BY EntryFields
  <2> HIDE DEF Asking
  <2> QED BY <2>1, AtMostOneElim
<1>2. \A f \in Asking : Answer(f) \in Asking
  <2>1. {v} \in QC!AtMostOne(0..MaxVersion + 1)
    BY AtMostOneIntro
  <2> QED BY <2>1
<1>3. Answers \in QC!AtMostOne(Asking)
  <2>1. CASE e.fetch = {}
    <3>1. Answers = {} BY <2>1
    <3> QED BY <3>1, NothingIsOne
  <2>2. CASE \E f \in Asking : e.fetch = {f}
    <3>1. PICK f \in Asking : e.fetch = {f} BY <2>2
    <3>2. Answers = {Answer(f)} BY <3>1
    <3> HIDE DEF Asking, Answer
    <3> QED BY <3>1, <3>2, <1>2, AtMostOneIntro
  <2> QED BY <1>1, <2>1, <2>2
<1>4. /\ QC!Served(e, v) \in QC!Entries
      /\ QC!Served(e, v).data = e.data /\ QC!Served(e, v).fresh = e.fresh
      /\ QC!Served(e, v).fetch = Answers
  BY <1>3 DEF QC!Served, QC!Entries, Owners
<1>5. /\ QC!GivenUp(e) \in QC!Entries
      /\ QC!GivenUp(e).data = e.data /\ QC!GivenUp(e).fresh = e.fresh /\ QC!GivenUp(e).fetch = {}
  BY NothingIsOne DEF QC!GivenUp, QC!Entries
<1>6. ASSUME NEW f \in e.fetch
      PROVE  /\ QC!Landed(f) \in QC!Entries
             /\ \A d \in QC!Landed(f).data : d.owner = f.for /\ d.ver \in f.got
             /\ QC!Landed(f).fetch = {}
  <2> DEFINE Values == {QC!Value(f.for, w) : w \in f.got}
             ValueType == [owner : Owners, ver : 0..MaxVersion + 1]
  <2>1. f \in Asking
    BY <1>1
  <2>2. f.got = {} \/ \E w \in 0..MaxVersion + 1 : f.got = {w}
    <3> DEFINE got == f.got
               Versions == 0..MaxVersion + 1
    <3>1. got \in QC!AtMostOne(Versions)
      BY <2>1
    <3> HIDE DEF got, Versions
    <3>2. got = {} \/ \E w \in Versions : got = {w}
      BY ONLY <3>1, AtMostOneElim
    <3> QED BY <3>2 DEF got, Versions
  <2>3. \A w \in 0..MaxVersion + 1 : QC!Value(f.for, w) \in ValueType
    BY <2>1 DEF QC!Value
  <2>4. Values \in QC!AtMostOne(ValueType)
    <3> HIDE DEF ValueType
    <3>1. CASE f.got = {}
      <4>1. Values = {} BY <3>1
      <4> QED BY <4>1, NothingIsOne
    <3>2. CASE \E w \in 0..MaxVersion + 1 : f.got = {w}
      <4>1. PICK w \in 0..MaxVersion + 1 : f.got = {w} BY <3>2
      <4>2. Values = {QC!Value(f.for, w)} BY <4>1
      <4> QED BY <4>1, <4>2, <2>3, AtMostOneIntro
    <3> QED BY <2>2, <3>1, <3>2
  <2>5. QC!Landed(f) \in QC!Entries
    BY <2>4, NothingIsOne DEF QC!Landed, QC!Entries, Owners
  <2>6. QC!Landed(f).data = Values /\ QC!Landed(f).fetch = {}
    BY DEF QC!Landed
  <2>7. \A d \in Values : d.owner = f.for /\ d.ver \in f.got
    BY DEF QC!Value
  <2> QED BY <2>5, <2>6, <2>7
<1>7. \A x \in Answers : x.got = {v} /\ \E f \in e.fetch : x.for = f.for
  OBVIOUS
<1>8. e.fetch # {} => Answers # {}
  OBVIOUS
<1> HIDE DEF Answers, Asking, Answer
<1> QED BY <1>4, <1>5, <1>6, <1>7, <1>8 DEF QC!Fetching

-----------------------------------------------------------------------------
(* The invariant                                                           *)

\* Nobody in particular asks for public data.
CacheOK ==
  /\ cache \in [Keys -> QC!Entries]
  /\ \A k \in Keys \cap PublicKeys : \A f \in cache[k].fetch : f.for = NoUser

\* A call in flight was made by, or is about, a user.
GoodCalls(cs) ==
  /\ cs \in [Slots -> Calls]
  /\ \A c \in Slots : cs[c].at # "idle" => cs[c].user \in Users

CallsOK == GoodCalls(calls)

NavOK == nav \in QC!AtMostOne(Navs)

RestOK ==
  /\ session \in Owners
  /\ page \in Pages
  /\ accounts \in SUBSET Users
  /\ latest \in [Users -> [UserKeys -> 1..MaxVersion]]
  /\ failures \in 0..MaxFailures
  /\ owed \in [UserKeys -> 0..MaxVersion]
  /\ outrun \in SUBSET UserKeys
  /\ mixed \in BOOLEAN

IInv == CacheOK /\ CallsOK /\ NavOK /\ RestOK

LEMMA TypeFromInv == IInv => TypeOK
BY DEF IInv, CacheOK, CallsOK, GoodCalls, NavOK, RestOK, TypeOK, Owners, Calls, Navs

LEMMA InitInv == Init => IInv
<1> SUFFICES ASSUME Init PROVE IInv
  OBVIOUS
<1>1. CacheOK
  <2>1. cache = [k \in Keys |-> QC!Absent]
    BY DEF Init
  <2>2. QC!Absent.fetch = {}
    BY DEF QC!Absent
  <2> QED BY <2>1, <2>2, AbsentIsEntry DEF CacheOK
<1>2. CallsOK
  BY DEF Init, CallsOK, GoodCalls, Calls, Idle, Owners
<1>3. NavOK
  <2>1. [to |-> "base", await |-> {}] \in Navs
    BY DEF Navs, Pages
  <2> QED BY <2>1, AtMostOneIntro DEF Init, NavOK
<1>4. RestOK
  <2>1. session \in Owners /\ page \in Pages /\ accounts \in SUBSET Users
    BY FrontendAssumption DEF Init, Owners, Pages
  <2>2. latest \in [Users -> [UserKeys -> 1..MaxVersion]] /\ owed \in [UserKeys -> 0..MaxVersion]
    BY FrontendAssumption DEF Init
  <2>3. failures \in 0..MaxFailures
    BY FrontendAssumption DEF Init
  <2>4. outrun \in SUBSET UserKeys /\ mixed \in BOOLEAN
    BY DEF Init
  <2> QED BY <2>1, <2>2, <2>3, <2>4 DEF RestOK
<1> QED BY <1>1, <1>2, <1>3, <1>4 DEF IInv

-----------------------------------------------------------------------------
(* What a step does to the cache                                           *)

\* Every entry of c2 comes from c by reads started for u, or for nobody.
Moved(c, c2, u) ==
  /\ c2 \in [Keys -> QC!Entries]
  /\ \A k \in Keys : Touched(c[k], c2[k], IF k \in PublicKeys THEN NoUser ELSE u)

LEMMA MountedMoves ==
  ASSUME IInv, NEW c \in [Keys -> QC!Entries], NEW ks
  PROVE  /\ Moved(c, Mounted(c, ks), session)
         /\ \A k \in Keys : k \notin ks => Mounted(c, ks)[k] = c[k]
<1>1. \A k \in Keys : Reader(k) \in Owners
  BY DEF IInv, RestOK, Owners, Reader
<1>2. \A k \in Keys : Touched(c[k], Mounted(c, ks)[k], Reader(k))
  BY <1>1, TouchingOperators DEF Mounted
<1> QED BY <1>2 DEF Mounted, Moved, Touched, Reader

LEMMA GoToMoves ==
  ASSUME IInv, NEW c \in [Keys -> QC!Entries], NEW p \in Pages, GoTo(p, c)
  PROVE  /\ Moved(c, cache', session)
         /\ ~LoggedIn => \A k \in UserKeys : cache'[k] = c[k]
         /\ NavOK'
         /\ \A n \in nav' : \A k \in n.await : k \in Keys /\ QC!Fetching(cache'[k])
<1> DEFINE needed == Awaited(Target(p)) \cap Keys
           n0 == [to |-> Target(p), await |-> {k \in needed : ~QC!HasData(c[k])}]
<1>1. cache' = [k \in Keys |-> IF k \in needed THEN QC!Ensure(c[k], Reader(k)) ELSE c[k]]
  BY DEF GoTo
<1>2. nav' = {n0}
  BY DEF GoTo
<1>3. \A k \in Keys : Reader(k) \in Owners
  BY DEF IInv, RestOK, Owners, Reader
<1>4. \A k \in Keys : Touched(c[k], cache'[k], Reader(k))
  BY <1>1, <1>3, TouchingOperators
<1>5. Moved(c, cache', session)
  BY <1>1, <1>4 DEF Moved, Touched, Reader
<1>6. ~LoggedIn => \A k \in UserKeys : cache'[k] = c[k]
  <2>1. "login" \in Pages /\ Awaited("login") \cap UserKeys = {}
    BY DEF Awaited, PageOf, HomePage, DepositPage, WithdrawPage, InstrumentsPage, BuyingPage, SellingPage, BlankPage, LoginPage, PlainPage, Page, UserKeys, PublicKeys, Pages, Public
  <2>2. ~LoggedIn => Awaited(Target(p)) \cap UserKeys = {}
    BY <2>1 DEF Target
  <2> QED BY <1>1, <2>2 DEF UserKeys
<1>7. NavOK'
  <2>1. Target(p) \in Pages
    BY DEF Target, Pages, Public
  <2>2. n0 \in Navs
    BY <2>1 DEF Navs
  <2> QED BY <1>2, <2>2, AtMostOneIntro DEF NavOK
<1>8. \A k \in n0.await : k \in Keys /\ QC!Fetching(cache'[k])
  BY <1>1, <1>3 DEF QC!Ensure, QC!Join, QC!Fetching, QC!Request, QC!Entries, QC!HasData
<1> QED BY <1>2, <1>5, <1>6, <1>7, <1>8

\* Nothing happens to the cache.
Resting ==
  \/ LoaderFails \/ ClickLogout
  \/ \E u \in Users, form \in Public : Submit(form, u)
  \/ \E form \in MoneyForms : Submit(form, session)
  \/ \E c \in Slots : CarryOut(c) \/ AnswerLost(c) \/ Refused(c) \/ SignupAnswered(c)
  \/ \E u \in Elsewhere, k \in UserKeys : BackendChanges(u, k)
  \/ UNCHANGED vars

\* Reads are started for the session, which stays.
Reading ==
  \/ \E p \in Visited : Navigate(p)
  \/ \E t \in Tabs \cap Visited : SwitchTab(t)
  \/ Redirect \/ Arrive \/ Focus
  \/ \E k \in Keys : Age(k)
  \/ \E c \in Slots : Answered(c) \/ FollowUp(c)

\* A session is opened.
Opening ==
  \/ \E u \in Registered : DefaultLogin(u)
  \/ \E c \in Slots : LoginAnswered(c)

LEMMA StepCases ==
  ASSUME [Next]_vars
  PROVE  \/ Resting \/ Reading \/ Opening
         \/ \E p \in Reloaded : Reload(p)
         \/ \E k \in Keys : Collect(k) \/ Serve(k) \/ Land(k)
         \/ \E c \in Slots : LogoutAnswered(c)
BY DEF Next, Moves, Reads, Submits, Backend, Told, Resting, Reading, Opening

LEMMA SelfMoves ==
  ASSUME IInv, NEW u \in Owners
  PROVE  Moved(cache, cache, u)
<1>1. NoUser \in Owners /\ \A k \in Keys : cache[k] \in QC!Entries
  BY DEF IInv, CacheOK, Owners
<1>2. \A k \in Keys : Touched(cache[k], cache[k], IF k \in PublicKeys THEN NoUser ELSE u)
  BY <1>1, TouchingOperators
<1> QED BY <1>2 DEF IInv, CacheOK, Moved

LEMMA InvalidatedMoves ==
  ASSUME IInv, NEW q
  PROVE  Moved(cache, Invalidated(q), session)
<1>1. \A k \in Keys : Reader(k) \in Owners /\ cache[k] \in QC!Entries /\ (k \in Observed) \in BOOLEAN
  BY DEF IInv, CacheOK, RestOK, Owners, Reader
<1>2. \A k \in Keys : Touched(cache[k], Invalidated(q)[k], Reader(k))
  BY <1>1, TouchingOperators DEF Invalidated
<1> QED BY <1>2 DEF Invalidated, Moved, Touched, Reader

LEMMA AnswerReads ==
  ASSUME NEW c \in Slots, Answered(c)
  PROVE  \E next : InvalidateFor(c, FormOf(calls[c].kind).invalidates, next)
BY DEF Answered

LEMMA ReadingMoves ==
  ASSUME IInv, Reading
  PROVE  Moved(cache, cache', session) /\ UNCHANGED <<session, mixed>>
<1>1. cache \in [Keys -> QC!Entries] /\ session \in Owners
  BY DEF IInv, CacheOK, RestOK
<1>2. ASSUME NEW p \in Visited, Navigate(p) PROVE Moved(cache, cache', session)
  BY <1>1, <1>2, GoToMoves, FrontendAssumption DEF Navigate
<1>3. ASSUME NEW t \in Tabs, SwitchTab(t) PROVE Moved(cache, cache', session)
  BY <1>1, <1>3, MountedMoves DEF SwitchTab
<1>4. ASSUME Redirect PROVE Moved(cache, cache', session)
  BY <1>1, <1>4, GoToMoves DEF Redirect, Pages, Public, Protected
<1>5. ASSUME Arrive PROVE Moved(cache, cache', session)
  BY <1>1, <1>5, MountedMoves DEF Arrive
<1>6. ASSUME Focus PROVE Moved(cache, cache', session)
  BY <1>1, <1>6, MountedMoves DEF Focus
<1>7. ASSUME NEW k \in Keys, Age(k) PROVE Moved(cache, cache', session)
  <2>1. cache' = [cache EXCEPT ![k] = QC!Aged(cache[k])]
    BY <1>7 DEF Age
  <2>2. \A j \in Keys, r \in Owners : Touched(cache[j], cache[j], r) /\ Touched(cache[j], QC!Aged(cache[j]), r)
    BY <1>1, TouchingOperators
  <2>3. \A j \in Keys, r \in Owners : Touched(cache[j], cache'[j], r)
    BY <1>1, <2>1, <2>2
  <2>4. NoUser \in Owners
    BY DEF Owners
  <2> QED BY <1>1, <2>1, <2>3, <2>4 DEF Moved, Touched
<1>8. ASSUME NEW c \in Slots, Answered(c) \/ FollowUp(c) PROVE Moved(cache, cache', session)
  BY <1>8, AnswerReads, InvalidatedMoves DEF FollowUp, InvalidateFor
<1>9. UNCHANGED <<session, mixed>>
  BY AnswerReads DEF Reading, Navigate, SwitchTab, Redirect, Arrive, Focus, Age, FollowUp, InvalidateFor
<1> QED BY <1>2, <1>3, <1>4, <1>5, <1>6, <1>7, <1>8, <1>9 DEF Reading

LEMMA OpeningMoves ==
  ASSUME IInv, Opening
  PROVE  /\ session' \in Users
         /\ Moved(cache, cache', session')
         /\ ~mixed' /\ LoggedIn => session' = session
         /\ UNCHANGED <<page, nav, accounts, latest, failures>>
<1>1. PICK u \in Users : \E cs : OpenSession(u, cs)
  <2>1. \A c \in Slots : LoginAnswered(c) => calls[c].user \in Users
    BY DEF LoginAnswered, IInv, CallsOK, GoodCalls
  <2> QED BY <2>1, FrontendAssumption DEF Opening, DefaultLogin, LoginAnswered
<1>2. session' = u
  BY <1>1 DEF OpenSession
<1>3. ~mixed' /\ LoggedIn => session' = session
  BY <1>1 DEF OpenSession
<1>4. cache \in [Keys -> QC!Entries] /\ u \in Owners /\ NoUser \in Owners
  BY DEF IInv, CacheOK, Owners
<1>5. \A k \in Keys : cache'[k] \in {cache[k], QC!Watch(cache[k], IF k \in PublicKeys THEN NoUser ELSE u)}
  BY <1>1 DEF OpenSession, UserKeys
<1>6. \A k \in Keys : Touched(cache[k], cache'[k], IF k \in PublicKeys THEN NoUser ELSE u)
  BY <1>4, <1>5, TouchingOperators
<1>7. Moved(cache, cache', u)
  BY <1>1, <1>6 DEF OpenSession, Moved, Touched
<1> QED BY <1>1, <1>2, <1>3, <1>7 DEF OpenSession

LEMMA RestingStays ==
  ASSUME Resting
  PROVE  /\ UNCHANGED <<session, cache, mixed>>
         /\ nav' \in {nav, {}}
BY DEF Resting, LoaderFails, ClickLogout, Send, Submit, CarryOut, AnswerLost, Refused,
       SignupAnswered, BackendChanges, vars

LEMMA MovedOK ==
  ASSUME IInv, NEW u \in Owners, Moved(cache, cache', u)
  PROVE  CacheOK'
BY DEF IInv, CacheOK, Moved, Touched

LEMMA ReloadMoves ==
  ASSUME IInv, NEW p \in Reloaded, Reload(p)
  PROVE  Moved([k \in Keys |-> QC!Absent], cache', session) /\ UNCHANGED session
<1>1. [k \in Keys |-> QC!Absent] \in [Keys -> QC!Entries]
  BY AbsentIsEntry
<1> QED BY <1>1, GoToMoves, FrontendAssumption DEF Reload

LEMMA ServeEffect ==
  ASSUME IInv, NEW k \in Keys, Serve(k)
  PROVE  /\ cache' \in [Keys -> QC!Entries]
         /\ \A j \in Keys \ {k} : cache'[j] = cache[j]
         /\ cache'[k].data = cache[k].data /\ cache'[k].fresh = cache[k].fresh
         /\ \A x \in cache'[k].fetch : /\ x.got \subseteq {Current(x.for, k), Failed, Blank}
                                      /\ \E f \in cache[k].fetch : x.for = f.for
         /\ QC!Fetching(cache[k]) => QC!Fetching(cache'[k])
<1>1. PICK f \in cache[k].fetch :
        \E v \in {Current(f.for, k), Failed, Blank} : cache' = [cache EXCEPT ![k] = QC!Served(cache[k], v)]
  BY DEF Serve
<1>2. f.for \in Owners /\ (k \in PublicKeys => f.for = NoUser)
  <2>1. cache[k] \in QC!Entries
    BY DEF IInv, CacheOK
  <2>2. cache[k].fetch \in QC!AtMostOne([for : Owners, got : QC!AtMostOne(0..MaxVersion + 1)])
    BY <2>1, EntryFields
  <2>3. f.for \in Owners
    BY <2>2 DEF QC!AtMostOne
  <2> QED BY <2>3 DEF IInv, CacheOK
<1>3. Current(f.for, k) \in 0..MaxVersion + 1
  <2>1. CASE f.for = NoUser
    BY <2>1, FrontendAssumption DEF Current
  <2>2. CASE f.for # NoUser
    <3>1. f.for \in Users /\ k \in UserKeys
      BY <2>2, <1>2 DEF Owners, UserKeys
    <3>2. latest[f.for][k] \in 1..MaxVersion
      BY <3>1 DEF IInv, RestOK
    <3> QED BY <2>2, <3>2, FrontendAssumption DEF Current
  <2> QED BY <2>1, <2>2
<1>4. Failed \in 0..MaxVersion + 1 /\ Blank \in 0..MaxVersion + 1
  BY FrontendAssumption DEF Failed, Blank
<1>5. PICK v \in 0..MaxVersion + 1 :
        /\ cache' = [cache EXCEPT ![k] = QC!Served(cache[k], v)]
        /\ v \in {Current(f.for, k), Failed, Blank}
  BY <1>1, <1>3, <1>4
<1>6. cache \in [Keys -> QC!Entries] /\ cache[k] \in QC!Entries
  BY DEF IInv, CacheOK
<1>7. /\ QC!Served(cache[k], v) \in QC!Entries
      /\ QC!Served(cache[k], v).data = cache[k].data /\ QC!Served(cache[k], v).fresh = cache[k].fresh
      /\ QC!Fetching(cache[k]) => QC!Fetching(QC!Served(cache[k], v))
      /\ \A x \in QC!Served(cache[k], v).fetch : x.got = {v} /\ \E g \in cache[k].fetch : x.for = g.for
  <2>1. v \in 0..MaxVersion + 1
    BY <1>5
  <2> QED BY <1>6, <2>1, AnsweringOperators
<1>8. cache'[k] = QC!Served(cache[k], v)
  BY <1>5, <1>6
<1>9. cache' \in [Keys -> QC!Entries] /\ \A j \in Keys \ {k} : cache'[j] = cache[j]
  BY <1>5, <1>6, <1>7
<1>10. \A g \in cache[k].fetch : g = f
  <2>1. cache[k].fetch \in QC!AtMostOne([for : Owners, got : QC!AtMostOne(0..MaxVersion + 1)])
    BY <1>6, EntryFields
  <2> QED BY <2>1 DEF QC!AtMostOne
<1> QED BY <1>5, <1>7, <1>8, <1>9, <1>10

LEMMA LandEffect ==
  ASSUME IInv, NEW k \in Keys, Land(k)
  PROVE  /\ cache[k].fetch # {}
         /\ \E e \in QC!Entries :
              /\ e.fetch = {}
              /\ \A d \in e.data : d \in cache[k].data \/ \E f \in cache[k].fetch : d.owner = f.for
              /\ \/ e.data = cache[k].data /\ e.fresh = cache[k].fresh /\ outrun' = outrun
                 \/ \E f \in cache[k].fetch : /\ \A d \in e.data : d.owner = f.for /\ d.ver \in f.got
                                              /\ k \in outrun \ outrun' => \A v \in f.got : ~(v < owed[k])
              /\ Moved([cache EXCEPT ![k] = e], cache', session)
              /\ cache' = [cache EXCEPT ![k] = e] \/ LoggedIn
<1>1. PICK f \in cache[k].fetch :
        LET c == [cache EXCEPT ![k] = IF f.got = {Failed} THEN QC!GivenUp(cache[k]) ELSE QC!Landed(f)]
        IN  /\ page' = PageWith(c)
            /\ cache' = IF page' = page THEN c ELSE Mounted(c, Shown(page') \ {"instruments"})
            /\ outrun' = {j \in outrun : j = k => f.got = {Failed} \/ \E v \in f.got : v < owed[j]}
  BY DEF Land
<1> DEFINE e == IF f.got = {Failed} THEN QC!GivenUp(cache[k]) ELSE QC!Landed(f)
           c == [cache EXCEPT ![k] = e]
<1>2. cache \in [Keys -> QC!Entries] /\ cache[k] \in QC!Entries /\ 0 \in 0..MaxVersion + 1
  BY FrontendAssumption DEF IInv, CacheOK
<1>3. /\ e \in QC!Entries /\ e.fetch = {}
      /\ \A d \in e.data : d \in cache[k].data \/ d.owner = f.for
      /\ \/ e.data = cache[k].data /\ e.fresh = cache[k].fresh /\ f.got = {Failed}
         \/ \A d \in e.data : d.owner = f.for /\ d.ver \in f.got
  <2>1. CASE f.got = {Failed}
    BY <1>2, <2>1, AnsweringOperators
  <2>2. CASE f.got # {Failed}
    <3>1. e = QC!Landed(f)
      BY <2>2
    <3> QED BY <1>2, <3>1, AnsweringOperators
  <2> QED BY <2>1, <2>2
<1>4. page' = PageWith(c) /\ cache' = IF page' = page THEN c ELSE Mounted(c, Shown(page') \ {"instruments"})
  BY <1>1
<1>5. page' # page => LoggedIn
  BY <1>4 DEF PageWith, Misplaced, Allowed, Protected
<1> HIDE DEF e
<1>6. c \in [Keys -> QC!Entries]
  BY <1>2, <1>3
<1> HIDE DEF c
<1>7. Moved(c, c, session) /\ Moved(c, Mounted(c, Shown(page') \ {"instruments"}), session)
  <2>1. session \in Owners /\ NoUser \in Owners
    BY DEF IInv, RestOK, Owners
  <2>2. \A j \in Keys : Touched(c[j], c[j], IF j \in PublicKeys THEN NoUser ELSE session)
    BY <1>6, <2>1, TouchingOperators
  <2> QED BY <1>6, <2>2, MountedMoves DEF Moved
<1>8. Moved(c, cache', session) /\ (cache' = c \/ LoggedIn)
  BY <1>4, <1>5, <1>7
<1>9. /\ f.got = {Failed} => outrun' = outrun
      /\ k \in outrun \ outrun' => \A v \in f.got : ~(v < owed[k])
  BY <1>1
<1> QED BY <1>3, <1>8, <1>9 DEF c

-----------------------------------------------------------------------------
(* The calls, the navigation and the rest                                  *)

LEMMA ReplaceGood ==
  ASSUME NEW cs, GoodCalls(cs), NEW c \in Slots, NEW x \in Calls, x.at # "idle" => x.user \in Users
  PROVE  GoodCalls([cs EXCEPT ![c] = x])
BY DEF GoodCalls

LEMMA IdleGood ==
  ASSUME NEW cs, GoodCalls(cs), NEW c \in Slots
  PROVE  GoodCalls([cs EXCEPT ![c] = Idle])
<1>1. Idle \in Calls /\ Idle.at = "idle"
  BY DEF Idle, Calls, Owners
<1> QED BY <1>1, ReplaceGood

LEMMA AdvanceGood ==
  ASSUME NEW cs, GoodCalls(cs), NEW c \in Slots, cs[c].at # "idle",
         NEW a \in {"done", "refused", "refreshing", "refreshed", "rereading"}
  PROVE  /\ [cs[c] EXCEPT !.at = a] \in Calls
         /\ [cs[c] EXCEPT !.at = a].user \in Users
         /\ GoodCalls([cs EXCEPT ![c].at = a])
<1>1. cs[c] \in Calls /\ cs[c].user \in Users
  BY DEF GoodCalls
<1>2. [cs[c] EXCEPT !.at = a] \in Calls /\ [cs[c] EXCEPT !.at = a].user \in Users
  BY <1>1 DEF Calls
<1>3. [cs EXCEPT ![c].at = a] = [cs EXCEPT ![c] = [cs[c] EXCEPT !.at = a]]
  BY DEF GoodCalls
<1> QED BY <1>2, <1>3, ReplaceGood

LEMMA SetsOfCallsGood ==
  ASSUME NEW cs, GoodCalls(cs)
  PROVE  (\A ks : GoodCalls(Release(ks, cs))) /\ GoodCalls(Unmounted(cs))
<1>1. ASSUME NEW x \in Calls
      PROVE  /\ [x EXCEPT !.at = "refreshed"] \in Calls
             /\ [x EXCEPT !.at = "refreshed"].user = x.user
             /\ [x EXCEPT !.mounted = FALSE] \in Calls
             /\ [x EXCEPT !.mounted = FALSE].user = x.user
             /\ [x EXCEPT !.mounted = FALSE].at = x.at
  BY DEF Calls
<1>2. ASSUME NEW ks PROVE GoodCalls(Release(ks, cs))
  <2>1. Idle \in Calls /\ Idle.at = "idle"
    BY DEF Idle, Calls, Owners
  <2> QED BY <1>1, <2>1 DEF GoodCalls, Release
<1>3. GoodCalls(Unmounted(cs))
  BY <1>1 DEF GoodCalls, Unmounted
<1> QED BY <1>2, <1>3

LEMMA RemainGood ==
  ASSUME CallsOK, NEW p
  PROVE  GoodCalls(Remain(p))
<1>1. ASSUME NEW c \in Slots
      PROVE  Remain(p)[c] \in Calls /\ Remain(p)[c].user = calls[c].user /\ Remain(p)[c].at = calls[c].at
  <2>1. calls[c] \in Calls
    BY DEF CallsOK, GoodCalls
  <2>2. Remain(p)[c] = [calls[c] EXCEPT !.mounted = calls[c].mounted /\ calls[c].kind = p]
    BY DEF Remain
  <2> QED BY <2>1, <2>2 DEF Calls
<1>2. Remain(p) \in [Slots -> Calls]
  BY <1>1 DEF Remain
<1> QED BY <1>1, <1>2 DEF GoodCalls, CallsOK

\* What is left of a call that nobody waits for.
LEMMA OrphanedGood ==
  ASSUME CallsOK, NEW c \in Slots
  PROVE  Orphaned(c) \in Calls /\ (Orphaned(c).at # "idle" => Orphaned(c).user \in Users)
<1>1. calls[c] \in Calls /\ (calls[c].at # "idle" => calls[c].user \in Users)
  BY DEF CallsOK, GoodCalls
<1>2. Idle \in Calls /\ Idle.at = "idle"
  BY DEF Idle, Calls, Owners
<1>3. calls[c].at \in {"sent", "lost"} =>
        /\ [calls[c] EXCEPT !.at = "lost", !.mounted = FALSE] \in Calls
        /\ [calls[c] EXCEPT !.at = "lost", !.mounted = FALSE].user \in Users
  BY <1>1 DEF Calls
<1> QED BY <1>2, <1>3 DEF Orphaned

LEMMA SendGood ==
  ASSUME CallsOK, NEW kind \in Kinds, NEW u \in Users, Send(kind, u)
  PROVE  CallsOK'
<1> DEFINE call == [kind |-> kind, user |-> u, mounted |-> TRUE, at |-> "sent"]
<1>1. call \in Calls /\ call.user \in Users
  BY DEF Calls, Owners
<1>2. PICK c \in Slots : calls' = [calls EXCEPT ![c] = call]
  BY DEF Send
<1> HIDE DEF call
<1> QED BY <1>1, <1>2, ReplaceGood DEF CallsOK

LEMMA SubmitGood ==
  ASSUME IInv,
         \/ ClickLogout
         \/ \E u \in Users, form \in Public : Submit(form, u)
         \/ \E form \in MoneyForms : Submit(form, session)
  PROVE  CallsOK'
<1>1. CASE ClickLogout
  BY <1>1, SendGood DEF ClickLogout, IInv, RestOK, Owners, LoggedIn, Kinds
<1>2. CASE \E u \in Users, form \in Public : Submit(form, u)
  BY <1>2, SendGood DEF Submit, IInv, Public, Kinds
<1>3. CASE \E form \in MoneyForms : Submit(form, session)
  <2>1. PICK form \in MoneyForms : Submit(form, session)
    BY <1>3
  <2>2. session \in Users
    BY <2>1 DEF Submit, Misplaced, Allowed, LoggedIn, MoneyForms, Protected, IInv, RestOK, Owners
  <2>3. form \in Kinds
    BY <2>1 DEF MoneyForms, Kinds
  <2> QED BY <2>1, <2>2, <2>3, SendGood DEF Submit, IInv
<1> QED BY <1>1, <1>2, <1>3

\* Where a call goes on after an invalidation.
LEMMA InvalidationCases ==
  ASSUME IInv, NEW c \in Slots, Answered(c) \/ FollowUp(c)
  PROVE  \E k, next : /\ InvalidateFor(c, k, next)
                      /\ next \in Calls /\ (next.at # "idle" => next.user \in Users)
                      /\ next.at = "refreshing" => k = "balance" /\ k \in Observed \cap Keys
                      /\ next.at = "rereading" => k = "instruments" /\ k \in Observed \cap Keys
                      /\ k \notin PublicKeys /\ calls[c].at # "idle"
<1>1. calls[c] \in Calls /\ calls[c].at # "idle" /\ calls[c].user \in Users
  BY DEF Answered, FollowUp, IInv, CallsOK, GoodCalls
<1>2. ASSUME NEW a \in {"refreshing", "refreshed", "rereading"}
      PROVE  Stage(c, a) \in Calls /\ Stage(c, a).at = a /\ Stage(c, a).user \in Users
  BY <1>1 DEF Calls, Stage
<1>3. Idle \in Calls /\ Idle.at = "idle"
  BY DEF Idle, Calls, Owners
<1>4. CASE Answered(c)
  <2> DEFINE q == FormOf(calls[c].kind).invalidates
  <2>1. calls[c].kind \in Quick => q = "balance"
    BY DEF Quick, FormOf, QuickBuyForm, QuickSellForm, Form
  <2>0. q \notin PublicKeys
    BY <1>4 DEF Answered, FormOf, MoneyForms, Tabs, DepositForm, WithdrawForm, QuickBuyForm, QuickSellForm,
                BuyForm, SellForm, Form, PublicKeys
  <2>2. InvalidateFor(c, q, IF calls[c].kind \in Quick
                            THEN IF q \in Observed \cap Keys THEN Stage(c, "refreshing") ELSE Stage(c, "refreshed")
                            ELSE Idle)
    BY <1>4 DEF Answered, Waits
  <2> HIDE DEF q
  <2> QED BY <1>1, <1>2, <1>3, <2>0, <2>1, <2>2
<1>5. CASE FollowUp(c)
  <2>1. PICK next : /\ InvalidateFor(c, "instruments", next)
                    /\ \/ next = Idle
                       \/ next = Stage(c, "rereading") /\ "instruments" \in Observed \cap Keys
    BY <1>5 DEF FollowUp, Waits
  <2>2. "instruments" \notin PublicKeys
    BY DEF PublicKeys
  <2> QED BY <1>1, <1>2, <1>3, <2>1, <2>2
<1> QED BY <1>4, <1>5

LEMMA InvalidateGood ==
  ASSUME IInv, NEW c \in Slots, Answered(c) \/ FollowUp(c)
  PROVE  CallsOK' /\ RestOK'
<1>1. PICK k, next : /\ InvalidateFor(c, k, next)
                     /\ next \in Calls /\ (next.at # "idle" => next.user \in Users)
                     /\ k \notin PublicKeys /\ calls[c].at # "idle"
  BY InvalidationCases
<1>2. GoodCalls(Cancelled(k))
  BY SetsOfCallsGood DEF Cancelled, IInv, CallsOK
<1>3. CallsOK'
  BY <1>1, <1>2, ReplaceGood DEF InvalidateFor, CallsOK
<1>4. calls[c].user \in Users
  BY <1>1 DEF IInv, CallsOK, GoodCalls
<1>5. Owing(c, k) \in [UserKeys -> 0..MaxVersion]
  BY <1>4, FrontendAssumption DEF Owing, IInv, RestOK
<1>6. outrun' \in SUBSET UserKeys
  <2>1. Outlives(k) => k \in UserKeys
    BY <1>1 DEF Outlives, UserKeys
  <2> QED BY <1>1, <2>1 DEF InvalidateFor, IInv, RestOK
<1>7. RestOK'
  BY <1>1, <1>5, <1>6 DEF InvalidateFor, IInv, RestOK
<1> QED BY <1>3, <1>7

\* A navigation that awaits something else.
LEMMA ReawaitGood ==
  ASSUME NavOK, NEW F \in [Navs -> SUBSET (Keys \cup {"removed"})]
  PROVE  {[n EXCEPT !.await = F[n]] : n \in nav} \in QC!AtMostOne(Navs)
<1>1. nav = {} \/ \E n \in Navs : nav = {n}
  BY AtMostOneElim DEF NavOK
<1>2. \A n \in Navs : [n EXCEPT !.await = F[n]] \in Navs
  BY DEF Navs
<1>3. CASE nav = {}
  <2>1. {[n EXCEPT !.await = F[n]] : n \in nav} = {}
    BY <1>3
  <2> QED BY <2>1, NothingIsOne
<1>4. CASE \E n \in Navs : nav = {n}
  <2>1. PICK n \in Navs : nav = {n}
    BY <1>4
  <2> DEFINE next == [n EXCEPT !.await = F[n]]
  <2>2. next \in Navs
    BY <2>1, <1>2
  <2>3. {[m EXCEPT !.await = F[m]] : m \in nav} = {next}
    BY <2>1
  <2> HIDE DEF next
  <2> QED BY <2>2, <2>3, AtMostOneIntro
<1> QED BY <1>1, <1>3, <1>4

LEMMA CacheStays ==
  ASSUME IInv, [Next]_vars
  PROVE  CacheOK'
<1>1. session \in Owners /\ Users \subseteq Owners /\ NoUser \in Owners
  BY DEF IInv, RestOK, Owners
<1>2. CASE Resting
  BY <1>2, RestingStays DEF IInv, CacheOK
<1>3. CASE Reading
  BY <1>1, <1>3, ReadingMoves, MovedOK
<1>4. CASE Opening
  BY <1>1, <1>4, OpeningMoves, MovedOK
<1>5. ASSUME NEW p \in Reloaded, Reload(p) PROVE CacheOK'
  <2>1. Moved([k \in Keys |-> QC!Absent], cache', session)
    BY <1>5, ReloadMoves
  <2>2. QC!Absent.fetch = {}
    BY DEF QC!Absent
  <2> QED BY <2>1, <2>2 DEF CacheOK, Moved, Touched
<1>6. ASSUME NEW k \in Keys, Collect(k) PROVE CacheOK'
  <2>1. QC!Absent.fetch = {}
    BY DEF QC!Absent
  <2> QED BY <1>6, <2>1, AbsentIsEntry DEF Collect, IInv, CacheOK
<1>7. ASSUME NEW k \in Keys, Serve(k) PROVE CacheOK'
  BY <1>7, ServeEffect DEF IInv, CacheOK
<1>8. ASSUME NEW k \in Keys, Land(k) PROVE CacheOK'
  <2>1. PICK e \in QC!Entries : e.fetch = {} /\ Moved([cache EXCEPT ![k] = e], cache', session)
    BY <1>8, LandEffect
  <2> QED BY <2>1 DEF IInv, CacheOK, Moved, Touched
<1>9. ASSUME NEW c \in Slots, LogoutAnswered(c) PROVE CacheOK'
  <2>1. QC!Absent.fetch = {}
    BY DEF QC!Absent
  <2> QED BY <1>9, <2>1, AbsentIsEntry DEF LogoutAnswered, IInv, CacheOK
<1> QED BY <1>2, <1>3, <1>4, <1>5, <1>6, <1>7, <1>8, <1>9, StepCases

LEMMA NavStays ==
  ASSUME IInv, [Next]_vars
  PROVE  NavOK'
<1>1. cache \in [Keys -> QC!Entries] /\ NavOK
  BY DEF IInv, CacheOK
<1>2. CASE Resting
  BY <1>1, <1>2, RestingStays, NothingIsOne DEF NavOK
<1>3. CASE Reading
  <2>1. ASSUME NEW p \in Visited, Navigate(p) PROVE NavOK'
    BY <1>1, <2>1, GoToMoves, FrontendAssumption DEF Navigate
  <2>2. ASSUME Redirect PROVE NavOK'
    BY <1>1, <2>2, GoToMoves DEF Redirect, Pages, Public, Protected
  <2>3. ASSUME Arrive PROVE NavOK'
    <3>1. [to |-> "instruments", await |-> {}] \in Navs
      BY DEF Navs, Pages, Protected
    <3> QED BY <2>3, <3>1, AtMostOneIntro, NothingIsOne DEF Arrive, NavOK
  <2>4. ASSUME UNCHANGED nav PROVE NavOK'
    BY <1>1, <2>4 DEF NavOK
  <2> QED BY <1>3, <2>1, <2>2, <2>3, <2>4, AnswerReads
          DEF Reading, SwitchTab, Focus, Age, FollowUp, InvalidateFor
<1>4. CASE Opening
  BY <1>1, <1>4, OpeningMoves DEF NavOK
<1>5. ASSUME NEW p \in Reloaded, Reload(p) PROVE NavOK'
  <2>1. [k \in Keys |-> QC!Absent] \in [Keys -> QC!Entries]
    BY AbsentIsEntry
  <2> QED BY <1>5, <2>1, GoToMoves, FrontendAssumption DEF Reload
<1>6. ASSUME NEW k \in Keys, Collect(k) \/ Serve(k) PROVE NavOK'
  BY <1>1, <1>6 DEF Collect, Serve, NavOK
<1>7. ASSUME NEW k \in Keys, Land(k) PROVE NavOK'
  <2> DEFINE F == [n \in Navs |-> n.await \ {k}]
  <2>1. F \in [Navs -> SUBSET (Keys \cup {"removed"})]
    BY DEF Navs
  <2>2. nav \subseteq Navs
    BY <1>1 DEF NavOK, QC!AtMostOne
  <2>3. nav' = {[n EXCEPT !.await = F[n]] : n \in nav}
    BY <1>7, <2>2 DEF Land
  <2> HIDE DEF F
  <2> QED BY <1>1, <2>1, <2>3, ReawaitGood DEF NavOK
<1>8. ASSUME NEW c \in Slots, LogoutAnswered(c) PROVE NavOK'
  <2> DEFINE F == [n \in Navs |-> IF n.await \cap UserKeys = {} THEN n.await
                                   ELSE (n.await \ UserKeys) \cup {"removed"}]
  <2>1. F \in [Navs -> SUBSET (Keys \cup {"removed"})]
    BY DEF Navs
  <2>2. nav \subseteq Navs
    BY <1>1 DEF NavOK, QC!AtMostOne
  <2>3. nav' = {[n EXCEPT !.await = F[n]] : n \in nav}
    BY <1>8, <2>2 DEF LogoutAnswered
  <2> HIDE DEF F
  <2> QED BY <1>1, <2>1, <2>3, ReawaitGood DEF NavOK
<1> QED BY <1>2, <1>3, <1>4, <1>5, <1>6, <1>7, <1>8, StepCases

LEMMA CallsStay ==
  ASSUME IInv, [Next]_vars
  PROVE  CallsOK'
<1>1. CallsOK /\ GoodCalls(calls)
  BY DEF IInv, CallsOK
<1>2. CASE Resting
  <2>1. ASSUME NEW c \in Slots, CarryOut(c) PROVE CallsOK'
    <3>1. PICK a \in {"done", "refused"} : calls[c].at \in {"sent", "lost"} /\ calls' = Reply(c, a)
      BY <2>1 DEF CarryOut
    <3>2. calls' \in {[calls EXCEPT ![c] = Idle], [calls EXCEPT ![c] = [calls[c] EXCEPT !.at = a]]}
      BY <1>1, <3>1 DEF Reply, GoodCalls
    <3>3. [calls[c] EXCEPT !.at = a] \in Calls /\ [calls[c] EXCEPT !.at = a].user \in Users
      BY <1>1, <3>1, AdvanceGood
    <3>4. GoodCalls([calls EXCEPT ![c] = Idle])
      BY <1>1, IdleGood
    <3>5. GoodCalls([calls EXCEPT ![c] = [calls[c] EXCEPT !.at = a]])
      BY <1>1, <3>3, ReplaceGood
    <3> QED BY <3>2, <3>4, <3>5 DEF CallsOK
  <2>2. ASSUME NEW c \in Slots, AnswerLost(c) \/ Refused(c) \/ SignupAnswered(c) PROVE CallsOK'
    BY <1>1, <2>2, IdleGood, OrphanedGood, ReplaceGood DEF AnswerLost, Refused, SignupAnswered, Finish, CallsOK
  <2>3. ASSUME LoaderFails PROVE CallsOK'
    BY <1>1, <2>3, RemainGood DEF LoaderFails, CallsOK
  <2>4. ASSUME UNCHANGED calls PROVE CallsOK'
    BY <1>1, <2>4 DEF CallsOK, GoodCalls
  <2> QED BY <1>2, <2>1, <2>2, <2>3, <2>4, SubmitGood DEF Resting, BackendChanges, vars
<1>3. CASE Reading
  <2>1. ASSUME Arrive PROVE CallsOK'
    BY <1>1, <2>1, RemainGood DEF Arrive, CallsOK
  <2>2. ASSUME NEW t \in Tabs, SwitchTab(t) PROVE CallsOK'
    BY <1>1, <2>2, RemainGood DEF SwitchTab, CallsOK
  <2>3. ASSUME UNCHANGED calls PROVE CallsOK'
    BY <1>1, <2>3 DEF CallsOK, GoodCalls
  <2> QED BY <1>3, <2>1, <2>2, <2>3, InvalidateGood DEF Reading, Navigate, Redirect, Focus, Age
<1>4. CASE Opening
  <2>1. PICK u, cs : OpenSession(u, cs) /\ GoodCalls(cs)
    BY <1>1, <1>4, IdleGood DEF Opening, DefaultLogin, LoginAnswered, Finish
  <2> QED BY <2>1, SetsOfCallsGood DEF OpenSession, CallsOK
<1>5. ASSUME NEW p \in Reloaded, Reload(p) PROVE CallsOK'
  BY <1>1, <1>5, OrphanedGood DEF Reload, CallsOK, GoodCalls
<1>6. ASSUME NEW k \in Keys, Collect(k) \/ Serve(k) PROVE CallsOK'
  BY <1>1, <1>6 DEF Collect, Serve, CallsOK, GoodCalls
<1>7. ASSUME NEW k \in Keys, Land(k) PROVE CallsOK'
  <2>1. calls' = Release({k}, Remain(page'))
    BY <1>7 DEF Land
  <2>2. GoodCalls(Remain(page'))
    BY <1>1, RemainGood
  <2> QED BY <2>1, <2>2, SetsOfCallsGood DEF CallsOK
<1>8. ASSUME NEW c \in Slots, LogoutAnswered(c) PROVE CallsOK'
  BY <1>1, <1>8, IdleGood, SetsOfCallsGood DEF LogoutAnswered, Finish, CallsOK
<1> QED BY <1>2, <1>3, <1>4, <1>5, <1>6, <1>7, <1>8, StepCases

\* A call changes what the backend holds within the bound.
LEMMA CarryOutKeepsData ==
  ASSUME IInv, NEW c \in Slots, CarryOut(c)
  PROVE  RestOK'
<1>1. UNCHANGED <<session, page, failures, owed, outrun, mixed>>
  BY DEF CarryOut
<1>2. calls[c].user \in Users
  BY DEF CarryOut, IInv, CallsOK, GoodCalls
<1>3. accounts' \in SUBSET Users
  BY <1>2 DEF CarryOut, IInv, RestOK
<1>4. latest' \in [Users -> [UserKeys -> 1..MaxVersion]]
  <2>1. latest \in [Users -> [UserKeys -> 1..MaxVersion]]
    BY DEF IInv, RestOK
  <2>2. CASE latest' = latest
    BY <2>1, <2>2
  <2>3. CASE \E ks : latest' = Bumped(calls[c].user, ks) /\ \A k \in ks \cap UserKeys : latest[calls[c].user][k] < MaxVersion
    BY <1>2, <2>1, <2>3, FrontendAssumption DEF Bumped
  <2> QED BY <2>2, <2>3 DEF CarryOut
<1> QED BY <1>1, <1>3, <1>4 DEF IInv, RestOK

LEMMA BackendChangesKeepData ==
  ASSUME IInv, NEW u \in Elsewhere, NEW k \in UserKeys, BackendChanges(u, k)
  PROVE  RestOK'
<1>1. UNCHANGED <<session, page, failures, owed, outrun, mixed, accounts>>
  BY DEF BackendChanges
<1>2. latest' \in [Users -> [UserKeys -> 1..MaxVersion]]
  BY FrontendAssumption DEF BackendChanges, Bumped, IInv, RestOK
<1> QED BY <1>1, <1>2 DEF IInv, RestOK

LEMMA RestStays ==
  ASSUME IInv, [Next]_vars
  PROVE  RestOK'
<1>1. RestOK
  BY DEF IInv
<1>2. CASE Resting
  <2>1. ASSUME NEW c \in Slots, AnswerLost(c) \/ Refused(c) \/ SignupAnswered(c) PROVE RestOK'
    BY <1>1, <2>1, FrontendAssumption DEF AnswerLost, Refused, SignupAnswered, RestOK
  <2>2. ASSUME LoaderFails PROVE RestOK'
    BY <1>1, <2>2 DEF LoaderFails, RestOK, Pages
  <2>3. ASSUME UNCHANGED <<session, page, accounts, latest, failures, owed, outrun, mixed>> PROVE RestOK'
    BY <1>1, <2>3 DEF RestOK
  <2> QED BY <1>2, <2>1, <2>2, <2>3, CarryOutKeepsData, BackendChangesKeepData
          DEF Resting, ClickLogout, Submit, Send, vars
<1>3. CASE Reading
  <2>1. ASSUME Arrive PROVE RestOK'
    <3>1. page' \in Pages
      BY <2>1 DEF Arrive, IInv, NavOK, QC!AtMostOne, Navs, Pages, Protected
    <3> QED BY <1>1, <2>1, <3>1 DEF Arrive, RestOK
  <2>2. ASSUME NEW t \in Tabs, SwitchTab(t) PROVE RestOK'
    BY <1>1, <2>2 DEF SwitchTab, RestOK, Pages, Protected
  <2>3. ASSUME UNCHANGED <<session, page, accounts, latest, failures, owed, outrun, mixed>> PROVE RestOK'
    BY <1>1, <2>3 DEF RestOK
  <2> QED BY <1>3, <2>1, <2>2, <2>3, InvalidateGood DEF Reading, Navigate, Redirect, Focus, Age
<1>4. CASE Opening
  <2>1. UNCHANGED <<page, accounts, latest, failures>> /\ session' \in Owners
    BY <1>4, OpeningMoves DEF Owners
  <2>2. PICK u, cs : OpenSession(u, cs)
    BY <1>4 DEF Opening, DefaultLogin, LoginAnswered
  <2>3. owed' \in [UserKeys -> 0..MaxVersion]
    BY <1>1, <2>2, FrontendAssumption DEF OpenSession, RestOK
  <2>4. outrun' \in SUBSET UserKeys /\ mixed' \in BOOLEAN
    BY <1>1, <2>2 DEF OpenSession, RestOK
  <2> QED BY <1>1, <2>1, <2>3, <2>4 DEF RestOK
<1>5. ASSUME NEW p \in Reloaded, Reload(p) PROVE RestOK'
  BY <1>1, <1>5 DEF Reload, RestOK, Pages
<1>6. ASSUME NEW k \in Keys, Collect(k) \/ Serve(k) PROVE RestOK'
  BY <1>1, <1>6, FrontendAssumption DEF Collect, Serve, RestOK
<1>7. ASSUME NEW k \in Keys, Land(k) PROVE RestOK'
  <2>1. page' \in Pages
    BY <1>1, <1>7 DEF Land, PageWith, RestOK, Pages, Protected, Tabs
  <2>2. outrun' \subseteq outrun
    BY <1>7 DEF Land
  <2> QED BY <1>1, <1>7, <2>1, <2>2 DEF Land, RestOK
<1>8. ASSUME NEW c \in Slots, LogoutAnswered(c) PROVE RestOK'
  <2>1. outrun' \in SUBSET UserKeys /\ mixed' \in BOOLEAN
    BY <1>8 DEF LogoutAnswered
  <2>2. session' \in Owners /\ owed' \in [UserKeys -> 0..MaxVersion]
    BY <1>8, FrontendAssumption DEF LogoutAnswered, Owners
  <2> QED BY <1>1, <1>8, <2>1, <2>2 DEF LogoutAnswered, RestOK
<1> QED BY <1>2, <1>3, <1>4, <1>5, <1>6, <1>7, <1>8, StepCases

LEMMA NextInv == IInv /\ [Next]_vars => IInv'
BY CacheStays, NavStays, CallsStay, RestStays DEF IInv

LEMMA AlwaysInv == Spec => []IInv
BY InitInv, NextInv, PTL DEF Spec

-----------------------------------------------------------------------------
(* The theorems                                                            *)

(* Every variable keeps its type.                                          *)
THEOREM TypeCorrect == Spec => []TypeOK
BY AlwaysInv, TypeFromInv, PTL

\* Without a session, nothing of a user is observed.
LEMMA NothingObserved ==
  ASSUME ~LoggedIn
  PROVE  Observed \cap UserKeys = {}
BY DEF Observed, LoggedIn, Misplaced, Allowed, Shown, PageOf, HomePage, DepositPage, WithdrawPage, InstrumentsPage, BuyingPage, SellingPage, BlankPage, LoginPage, PlainPage, Page, Protected, Tabs, UserKeys, PublicKeys

LEMMA AgedFields ==
  ASSUME NEW e \in QC!Entries
  PROVE  QC!Aged(e).data = e.data /\ QC!Aged(e).fetch = e.fetch
BY DEF QC!Aged, QC!Entries

Empty(e) == ~QC!HasData(e) /\ ~QC!Fetching(e)

\* Without a session, steps that keep it start no read of a user's data.
LEMMA QuietWithoutSession ==
  ASSUME IInv, ~LoggedIn, NEW k \in UserKeys, Empty(cache[k]), Reading
  PROVE  Empty(cache'[k])
<1>1. cache \in [Keys -> QC!Entries] /\ k \in Keys /\ k \notin Observed
  BY NothingObserved DEF IInv, CacheOK, UserKeys
<1>2. ASSUME NEW p \in Visited, Navigate(p) PROVE cache'[k] = cache[k]
  BY <1>1, <1>2, GoToMoves, FrontendAssumption DEF Navigate
<1>3. ASSUME NEW t \in Tabs, SwitchTab(t) PROVE FALSE
  BY <1>3 DEF SwitchTab, Misplaced, Allowed, Protected, LoggedIn
<1>4. ASSUME Redirect PROVE cache'[k] = cache[k]
  BY <1>1, <1>4, GoToMoves DEF Redirect, Pages, Public, Protected
<1>5. ASSUME Arrive PROVE cache'[k] = cache[k]
  <2>1. k \notin (IF Allowed(page') THEN Shown(page') ELSE {}) \cup (IF page = "start" /\ LoggedIn THEN {"user"} ELSE {})
    BY DEF Allowed, Shown, PageOf, HomePage, DepositPage, WithdrawPage, InstrumentsPage, BuyingPage, SellingPage, BlankPage, LoginPage, PlainPage, Page, Protected, Tabs, UserKeys, PublicKeys, LoggedIn
  <2> QED BY <1>1, <1>5, <2>1, MountedMoves DEF Arrive
<1>6. ASSUME Focus PROVE cache'[k] = cache[k]
  BY <1>1, <1>6, MountedMoves DEF Focus
<1>7. Empty(QC!Aged(cache[k]))
  BY <1>1, AgedFields DEF Empty, QC!HasData, QC!Fetching
<1>8. ASSUME NEW j \in Keys, Age(j) PROVE cache'[k] \in {cache[k], QC!Aged(cache[k])}
  BY <1>1, <1>8 DEF Age
<1>9. ASSUME NEW c \in Slots, Answered(c) \/ FollowUp(c) PROVE cache'[k] \in {cache[k], QC!Aged(cache[k])}
  BY <1>1, <1>9, AnswerReads DEF FollowUp, InvalidateFor, Invalidated, QC!Invalidate
<1> QED BY <1>2, <1>3, <1>4, <1>5, <1>6, <1>7, <1>8, <1>9 DEF Reading

LEMMA ForeignInit == Init => NoForeignData
BY DEF Init, NoForeignData, LoggedIn, QC!Absent, QC!HasData, QC!Fetching, UserKeys

\* What moves concerns whom it concerned, or for whom it is read.
LEMMA MovedConcerns ==
  ASSUME NEW c, NEW d, NEW u, Moved(c, d, u), NEW k \in UserKeys, QC!Concerns(c[k], u)
  PROVE  QC!Concerns(d[k], u)
BY DEF Moved, Touched, QC!Concerns, UserKeys

\* A session that is opened over a mixed one stays mixed.
LEMMA MixedStays ==
  ASSUME Opening
  PROVE  ~mixed' => ~mixed
BY DEF Opening, DefaultLogin, LoginAnswered, OpenSession

LEMMA EmptyConcerns ==
  ASSUME NEW e, NEW u, Empty(e)
  PROVE  QC!Concerns(e, u)
BY DEF Empty, QC!HasData, QC!Fetching, QC!Concerns

LEMMA ForeignNext ==
  ASSUME IInv, NoForeignData, [Next]_vars
  PROVE  NoForeignData'
<1> SUFFICES ASSUME NEW k \in UserKeys
             PROVE  /\ ~LoggedIn' => Empty(cache'[k])
                    /\ LoggedIn' /\ ~mixed' => QC!Concerns(cache'[k], session')
  BY DEF NoForeignData, Empty
<1>1. k \in Keys /\ k \notin PublicKeys /\ cache \in [Keys -> QC!Entries]
  BY DEF UserKeys, IInv, CacheOK
<1>2. /\ ~LoggedIn => Empty(cache[k])
      /\ LoggedIn /\ ~mixed => QC!Concerns(cache[k], session)
  BY DEF NoForeignData, Empty
<1>3. CASE Resting
  BY <1>2, <1>3, RestingStays DEF LoggedIn
<1>4. CASE Reading
  BY <1>2, <1>4, ReadingMoves, QuietWithoutSession, MovedConcerns DEF LoggedIn
<1>5. CASE Opening
  <2>1. session' \in Users /\ Moved(cache, cache', session') /\ (~mixed' /\ LoggedIn => session' = session)
    BY <1>5, OpeningMoves
  <2>2. LoggedIn'
    BY <2>1, FrontendAssumption DEF LoggedIn
  <2>3. ~mixed' => QC!Concerns(cache[k], session')
    BY <1>2, <2>1, EmptyConcerns, MixedStays, <1>5
  <2> QED BY <2>1, <2>2, <2>3, MovedConcerns
<1>6. ASSUME NEW p \in Reloaded, Reload(p)
      PROVE  /\ ~LoggedIn' => Empty(cache'[k])
             /\ LoggedIn' /\ ~mixed' => QC!Concerns(cache'[k], session')
  <2> DEFINE c == [j \in Keys |-> QC!Absent]
  <2>1. c \in [Keys -> QC!Entries] /\ Empty(c[k])
    BY <1>1, AbsentIsEntry DEF Empty, QC!Absent, QC!HasData, QC!Fetching
  <2>2. GoTo(p, c) /\ p \in Pages /\ session' = session
    BY <1>6, FrontendAssumption DEF Reload
  <2> HIDE DEF c
  <2>3. Moved(c, cache', session) /\ (~LoggedIn => cache'[k] = c[k])
    BY <2>1, <2>2, GoToMoves
  <2> QED BY <2>1, <2>2, <2>3, EmptyConcerns, MovedConcerns DEF LoggedIn
<1>7. ASSUME NEW j \in Keys, Collect(j)
      PROVE  /\ ~LoggedIn' => Empty(cache'[k])
             /\ LoggedIn' /\ ~mixed' => QC!Concerns(cache'[k], session')
  <2>1. UNCHANGED <<session, mixed>> /\ cache'[k] \in {cache[k], QC!Absent}
    BY <1>1, <1>7 DEF Collect
  <2>2. Empty(QC!Absent)
    BY DEF Empty, QC!Absent, QC!HasData, QC!Fetching
  <2> QED BY <1>2, <2>1, <2>2, EmptyConcerns DEF LoggedIn
<1>8. ASSUME NEW j \in Keys, Serve(j)
      PROVE  /\ ~LoggedIn' => Empty(cache'[k])
             /\ LoggedIn' /\ ~mixed' => QC!Concerns(cache'[k], session')
  <2>1. UNCHANGED <<session, mixed>> /\ cache[j].fetch # {}
    BY <1>8 DEF Serve
  <2>2. cache'[k].data = cache[k].data /\ \A x \in cache'[k].fetch : \E f \in cache[k].fetch : x.for = f.for
    BY <1>1, <1>8, ServeEffect
  <2> QED BY <1>2, <2>1, <2>2 DEF LoggedIn, Empty, QC!HasData, QC!Fetching, QC!Concerns
<1>9. ASSUME NEW j \in Keys, Land(j)
      PROVE  /\ ~LoggedIn' => Empty(cache'[k])
             /\ LoggedIn' /\ ~mixed' => QC!Concerns(cache'[k], session')
  <2>1. UNCHANGED <<session, mixed>> /\ cache[j].fetch # {}
    BY <1>9, LandEffect DEF Land
  <2>2. PICK e \in QC!Entries :
          /\ e.fetch = {}
          /\ \A d \in e.data : d \in cache[j].data \/ \E f \in cache[j].fetch : d.owner = f.for
          /\ Moved([cache EXCEPT ![j] = e], cache', session)
          /\ cache' = [cache EXCEPT ![j] = e] \/ LoggedIn
    BY <1>9, LandEffect
  <2>3. CASE ~LoggedIn
    <3>1. j # k
      BY <1>2, <2>1, <2>3 DEF Empty, QC!Fetching
    <3> QED BY <1>1, <1>2, <2>1, <2>2, <2>3, <3>1 DEF LoggedIn
  <2>4. CASE LoggedIn /\ ~mixed
    <3>1. QC!Concerns([cache EXCEPT ![j] = e][k], session)
      BY <1>1, <1>2, <2>2, <2>4 DEF QC!Concerns
    <3> QED BY <2>1, <2>2, <2>4, <3>1, MovedConcerns DEF LoggedIn
  <2> QED BY <2>1, <2>3, <2>4 DEF LoggedIn
<1>10. ASSUME NEW c \in Slots, LogoutAnswered(c)
       PROVE  /\ ~LoggedIn' => Empty(cache'[k])
              /\ LoggedIn' /\ ~mixed' => QC!Concerns(cache'[k], session')
  <2>1. session' = NoUser /\ cache'[k] = QC!Absent
    BY <1>1, <1>10 DEF LogoutAnswered
  <2> QED BY <2>1 DEF LoggedIn, Empty, QC!Absent, QC!HasData, QC!Fetching
<1> QED BY <1>3, <1>4, <1>5, <1>6, <1>7, <1>8, <1>9, <1>10, StepCases

(* No user is shown, or reads, the data of another: the keys of the cache  *)
(* do not name the user, but whoever logs in finds no data of users.       *)
THEOREM SessionsAreSeparate == Spec => []NoForeignData
<1>1. IInv /\ NoForeignData /\ [Next]_vars => NoForeignData'
  BY ForeignNext
<1> QED BY <1>1, ForeignInit, AlwaysInv, PTL DEF Spec

LEMMA AwaitedInit == Init => AwaitedIsRead
BY DEF Init, AwaitedIsRead

\* Moves give up no read.
LEMMA MovedFetches ==
  ASSUME NEW c, NEW d, NEW u, Moved(c, d, u), NEW k \in Keys, QC!Fetching(c[k])
  PROVE  QC!Fetching(d[k])
BY DEF Moved, Touched

LEMMA AwaitedNext ==
  ASSUME IInv, AwaitedIsRead, [Next]_vars
  PROVE  AwaitedIsRead'
<1>1. cache \in [Keys -> QC!Entries]
  BY DEF IInv, CacheOK
<1>2. \A n \in nav : n \in Navs /\ n.await \subseteq Keys \cup {"removed"}
  BY DEF IInv, NavOK, QC!AtMostOne, Navs
<1>3. CASE Resting
  BY <1>3, RestingStays DEF AwaitedIsRead
<1>4. ASSUME UNCHANGED nav, NEW u, Moved(cache, cache', u) PROVE AwaitedIsRead'
  BY <1>2, <1>4, MovedFetches DEF AwaitedIsRead
<1>5. CASE Reading
  <2>1. ASSUME NEW p \in Visited, Navigate(p) PROVE AwaitedIsRead'
    BY <1>1, <2>1, GoToMoves, FrontendAssumption DEF Navigate, AwaitedIsRead
  <2>2. ASSUME Redirect PROVE AwaitedIsRead'
    BY <1>1, <2>2, GoToMoves DEF Redirect, Pages, Public, Protected, AwaitedIsRead
  <2>3. ASSUME Arrive PROVE AwaitedIsRead'
    <3>1. nav' \in {{}, {[to |-> "instruments", await |-> {}]}}
      BY <2>3 DEF Arrive
    <3> QED BY <3>1 DEF AwaitedIsRead
  <2>4. ASSUME UNCHANGED nav PROVE AwaitedIsRead'
    BY <1>4, <1>5, <2>4, ReadingMoves
  <2> QED BY <1>5, <2>1, <2>2, <2>3, <2>4, AnswerReads
          DEF Reading, SwitchTab, Focus, Age, FollowUp, InvalidateFor
<1>6. CASE Opening
  BY <1>4, <1>6, OpeningMoves
<1>7. ASSUME NEW p \in Reloaded, Reload(p) PROVE AwaitedIsRead'
  <2>1. [k \in Keys |-> QC!Absent] \in [Keys -> QC!Entries]
    BY AbsentIsEntry
  <2> QED BY <1>7, <2>1, GoToMoves, FrontendAssumption DEF Reload, AwaitedIsRead
<1>8. ASSUME NEW k \in Keys, Collect(k) PROVE AwaitedIsRead'
  BY <1>8 DEF Collect, AwaitedIsRead
<1>9. ASSUME NEW k \in Keys, Serve(k) PROVE AwaitedIsRead'
  <2>1. \A j \in Keys : QC!Fetching(cache[j]) => QC!Fetching(cache'[j])
    BY <1>9, ServeEffect
  <2> QED BY <1>2, <1>9, <2>1 DEF Serve, AwaitedIsRead
<1>10. ASSUME NEW k \in Keys, Land(k) PROVE AwaitedIsRead'
  <2>1. PICK e \in QC!Entries : Moved([cache EXCEPT ![k] = e], cache', session)
    BY <1>10, LandEffect
  <2>2. \A j \in Keys \ {k} : QC!Fetching(cache[j]) => QC!Fetching(cache'[j])
    <3>1. \A j \in Keys \ {k} : [cache EXCEPT ![k] = e][j] = cache[j]
      BY <1>1
    <3> QED BY <2>1, <3>1, MovedFetches
  <2>3. nav' = {[n EXCEPT !.await = n.await \ {k}] : n \in nav}
    BY <1>10 DEF Land
  <2>4. \A n \in nav : [n EXCEPT !.await = n.await \ {k}].await = n.await \ {k}
    BY <1>2 DEF Navs
  <2> QED BY <1>2, <2>2, <2>3, <2>4 DEF AwaitedIsRead
<1>11. ASSUME NEW c \in Slots, LogoutAnswered(c) PROVE AwaitedIsRead'
  <2> DEFINE A(n) == IF n.await \cap UserKeys = {} THEN n.await ELSE (n.await \ UserKeys) \cup {"removed"}
  <2>1. \A k \in Keys \ UserKeys : cache'[k] = cache[k]
    BY <1>11 DEF LogoutAnswered
  <2>2. nav' = {[n EXCEPT !.await = A(n)] : n \in nav}
    BY <1>11 DEF LogoutAnswered
  <2>3. \A n \in nav : [n EXCEPT !.await = A(n)].await = A(n)
    BY <1>2 DEF Navs
  <2>4. \A n \in nav : A(n) \cap UserKeys \subseteq {"removed"} /\ A(n) \subseteq n.await \cup {"removed"}
    OBVIOUS
  <2> HIDE DEF A
  <2>5. ASSUME NEW m \in nav', NEW k \in m.await \ {"removed"}
        PROVE  QC!Fetching(cache'[k])
    <3>1. PICK n \in nav : m.await = A(n)
      BY <2>2, <2>3
    <3>2. k \in n.await \ {"removed"} /\ k \in Keys \ UserKeys
      BY <1>2, <2>4, <3>1
    <3> QED BY <2>1, <3>2 DEF AwaitedIsRead
  <2> QED BY <2>5 DEF AwaitedIsRead
<1> QED BY <1>3, <1>5, <1>6, <1>7, <1>8, <1>9, <1>10, <1>11, StepCases

(* The router never waits for a read that nobody makes.                    *)
THEOREM NavigationsAreFed == Spec => []AwaitedIsRead
<1>1. IInv /\ AwaitedIsRead /\ [Next]_vars => AwaitedIsRead'
  BY AwaitedNext
<1> QED BY <1>1, AwaitedInit, AlwaysInv, PTL DEF Spec

-----------------------------------------------------------------------------
(* Trades that wait for a read                                             *)

\* Calls that wait for the read of the balance, or of the instruments.
Waiting(cs, q) ==
  {c \in Slots : \/ q = "balance" /\ cs[c].at = "refreshing"
                 \/ q = "instruments" /\ cs[c].at = "rereading"}

IsRead(q) == q \in Keys /\ QC!Fetching(cache[q])

WaitsForRead == \A q \in {"balance", "instruments"} : Waiting(calls, q) # {} => IsRead(q)

\* Nobody comes to wait.
Fewer(cs, ds) == \A q \in {"balance", "instruments"} : Waiting(cs, q) \subseteq Waiting(ds, q)

\* What finishing, unmounting and releasing do to those who wait.
LEMMA ReplaceWaits ==
  ASSUME NEW cs, GoodCalls(cs), NEW c \in Slots, NEW x, x.at \notin {"refreshing", "rereading"}
  PROVE  Fewer([cs EXCEPT ![c] = x], cs)
BY DEF GoodCalls, Waiting, Fewer

LEMMA WaitingSets ==
  ASSUME NEW cs, GoodCalls(cs)
  PROVE  /\ Fewer(Unmounted(cs), cs)
         /\ \A ks : Fewer(Release(ks, cs), cs)
         /\ \A ks, q : q \in ks => Waiting(Release(ks, cs), q) = {}
<1>1. ASSUME NEW y \in Calls
      PROVE  [y EXCEPT !.mounted = FALSE].at = y.at /\ [y EXCEPT !.at = "refreshed"].at = "refreshed"
  BY DEF Calls
<1>2. Idle.at = "idle"
  BY DEF Idle
<1>3. Fewer(Unmounted(cs), cs)
  BY <1>1 DEF GoodCalls, Waiting, Unmounted, Fewer
<1>4. ASSUME NEW ks PROVE Fewer(Release(ks, cs), cs)
  BY <1>1, <1>2 DEF GoodCalls, Waiting, Release, Fewer
<1>5. ASSUME NEW ks, NEW q \in ks PROVE Waiting(Release(ks, cs), q) = {}
  BY <1>1, <1>2 DEF GoodCalls, Waiting, Release
<1> QED BY <1>3, <1>4, <1>5

LEMMA RemainWaits ==
  ASSUME CallsOK, NEW p
  PROVE  \A q : Waiting(Remain(p), q) = Waiting(calls, q)
<1>1. ASSUME NEW c \in Slots PROVE Remain(p)[c].at = calls[c].at
  <2>1. calls[c] \in Calls
    BY DEF CallsOK, GoodCalls
  <2>2. Remain(p)[c] = [calls[c] EXCEPT !.mounted = calls[c].mounted /\ calls[c].kind = p]
    BY DEF Remain
  <2> QED BY <2>1, <2>2 DEF Calls
<1> QED BY <1>1 DEF Waiting

LEMMA SendWaits ==
  ASSUME CallsOK, NEW kind, NEW u, Send(kind, u)
  PROVE  Fewer(calls', calls)
<1> DEFINE call == [kind |-> kind, user |-> u, mounted |-> TRUE, at |-> "sent"]
<1>1. call.at \notin {"refreshing", "rereading"}
  OBVIOUS
<1>2. PICK c \in Slots : calls' = [calls EXCEPT ![c] = call]
  BY DEF Send
<1> HIDE DEF call
<1> QED BY <1>1, <1>2, ReplaceWaits DEF CallsOK

LEMMA AnsweredWaits ==
  ASSUME IInv, WaitsForRead, NEW c \in Slots, Answered(c) \/ FollowUp(c)
  PROVE  WaitsForRead'
<1>1. Moved(cache, cache', session)
  BY ReadingMoves DEF Reading
<1>2. \A q : IsRead(q) => IsRead(q)'
  BY <1>1, MovedFetches DEF IsRead
<1>3. PICK k, next : /\ InvalidateFor(c, k, next)
                     /\ next.at = "refreshing" => k = "balance" /\ k \in Observed \cap Keys
                     /\ next.at = "rereading" => k = "instruments" /\ k \in Observed \cap Keys
  BY InvalidationCases
<1>4. Fewer(Cancelled(k), calls) /\ GoodCalls(Cancelled(k))
  BY WaitingSets, SetsOfCallsGood DEF Cancelled, IInv, CallsOK, Fewer
<1>5. calls' = [Cancelled(k) EXCEPT ![c] = next] /\ cache' = Invalidated(k)
  BY <1>3 DEF InvalidateFor
<1>6. k \in Observed \cap Keys => IsRead(k)'
  <2>1. ASSUME k \in Observed \cap Keys PROVE IsRead(k)'
    <3>1. cache'[k] = QC!Invalidate(cache[k], Reader(k), TRUE) /\ cache[k] \in QC!Entries
      BY <1>5, <2>1 DEF Invalidated, IInv, CacheOK
    <3>2. QC!Fetching(cache'[k])
      BY <3>1 DEF QC!Invalidate, QC!Fetching, QC!Request, QC!Join, QC!Aged, QC!Entries
    <3> QED BY <2>1, <3>2 DEF IsRead
  <2> QED BY <2>1
<1>7. \A d \in Slots : calls'[d] = IF d = c THEN next ELSE Cancelled(k)[d]
  BY <1>4, <1>5 DEF GoodCalls
<1>8. ASSUME NEW q \in {"balance", "instruments"}, Waiting(calls', q) # {}
      PROVE  IsRead(q)'
  <2>1. PICK d \in Slots : d \in Waiting(calls', q)
    BY <1>8 DEF Waiting
  <2>2. CASE d = c
    <3>1. calls'[d] = next
      BY <1>7, <2>2
    <3> QED BY <1>3, <1>6, <2>1, <3>1 DEF Waiting
  <2>3. CASE d # c
    <3>1. d \in Waiting(Cancelled(k), q)
      BY <1>7, <2>1, <2>3 DEF Waiting
    <3> QED BY <1>2, <1>4, <3>1 DEF WaitsForRead, Fewer
  <2> QED BY <2>2, <2>3
<1> QED BY <1>8 DEF WaitsForRead

LEMMA WaitsNext ==
  ASSUME IInv, WaitsForRead, [Next]_vars
  PROVE  WaitsForRead'
<1>1. CallsOK /\ GoodCalls(calls) /\ cache \in [Keys -> QC!Entries] /\ Idle.at = "idle"
  BY DEF IInv, CallsOK, CacheOK, Idle
<1>2. ASSUME Fewer(calls', calls), \A q : IsRead(q) => IsRead(q)'
      PROVE  WaitsForRead'
  BY <1>2 DEF WaitsForRead, Fewer
<1>3. \A c \in Slots : Fewer([calls EXCEPT ![c] = Idle], calls)
  BY <1>1, ReplaceWaits
<1>4. CASE Resting
  <2>1. \A q : IsRead(q) => IsRead(q)'
    BY <1>4, RestingStays DEF IsRead
  <2>2. ASSUME NEW c \in Slots, CarryOut(c) PROVE Fewer(calls', calls)
    <3>1. PICK a \in {"done", "refused"} : calls' = Reply(c, a)
      BY <2>2 DEF CarryOut
    <3>2. calls[c] \in Calls
      BY <1>1 DEF GoodCalls
    <3>3. calls' \in {[calls EXCEPT ![c] = Idle], [calls EXCEPT ![c] = [calls[c] EXCEPT !.at = a]]}
      BY <1>1, <3>1 DEF Reply, GoodCalls
    <3>4. [calls[c] EXCEPT !.at = a].at = a
      BY <3>2 DEF Calls
    <3>5. Fewer([calls EXCEPT ![c] = [calls[c] EXCEPT !.at = a]], calls)
      BY <1>1, <3>4, ReplaceWaits
    <3> QED BY <1>3, <3>3, <3>5
  <2>3. ASSUME NEW c \in Slots, AnswerLost(c) \/ Refused(c) \/ SignupAnswered(c)
        PROVE  Fewer(calls', calls)
    <3>1. Orphaned(c).at \notin {"refreshing", "rereading"}
      <4>1. calls[c] \in Calls
        BY <1>1 DEF GoodCalls
      <4> QED BY <1>1, <4>1 DEF Orphaned, Calls
    <3> QED BY <1>1, <1>3, <2>3, <3>1, ReplaceWaits DEF AnswerLost, Refused, SignupAnswered, Finish
  <2>4. ASSUME LoaderFails PROVE Fewer(calls', calls)
    BY <1>1, <2>4, RemainWaits DEF LoaderFails, Fewer
  <2>5. ASSUME UNCHANGED calls PROVE Fewer(calls', calls)
    BY <2>5 DEF Fewer
  <2> QED BY <1>1, <1>2, <1>4, <2>1, <2>2, <2>3, <2>4, <2>5, SendWaits
          DEF Resting, ClickLogout, Submit, BackendChanges, vars
<1>5. CASE Reading
  <2>1. \A q : IsRead(q) => IsRead(q)'
    BY <1>5, ReadingMoves, MovedFetches DEF IsRead
  <2>2. ASSUME Arrive PROVE Fewer(calls', calls)
    BY <1>1, <2>2, RemainWaits DEF Arrive, Fewer
  <2>3. ASSUME NEW t \in Tabs, SwitchTab(t) PROVE Fewer(calls', calls)
    BY <1>1, <2>3, RemainWaits DEF SwitchTab, Fewer
  <2>4. ASSUME UNCHANGED calls PROVE Fewer(calls', calls)
    BY <2>4 DEF Fewer
  <2> QED BY <1>2, <1>5, <2>1, <2>2, <2>3, <2>4, AnsweredWaits DEF Reading, Navigate, Redirect, Focus, Age
<1>6. CASE Opening
  <2>1. \A q : IsRead(q) => IsRead(q)'
    BY <1>6, OpeningMoves, MovedFetches DEF IsRead
  <2>2. PICK u, cs : OpenSession(u, cs) /\ GoodCalls(cs) /\ Fewer(cs, calls)
    BY <1>1, <1>3, <1>6, IdleGood DEF Opening, DefaultLogin, LoginAnswered, Finish, Fewer
  <2>3. Fewer(calls', calls)
    BY <2>2, WaitingSets DEF OpenSession, Fewer
  <2> QED BY <1>2, <2>1, <2>3
<1>7. ASSUME NEW p \in Reloaded, Reload(p) PROVE WaitsForRead'
  <2>1. \A c \in Slots : calls'[c].at \notin {"refreshing", "rereading"}
    <3>1. ASSUME NEW c \in Slots PROVE Orphaned(c).at \notin {"refreshing", "rereading"}
      <4>1. calls[c] \in Calls
        BY <1>1 DEF GoodCalls
      <4> QED BY <1>1, <4>1 DEF Orphaned, Calls
    <3> QED BY <1>7, <3>1 DEF Reload
  <2> QED BY <2>1 DEF WaitsForRead, Waiting
<1>8. ASSUME NEW k \in Keys, Collect(k) PROVE WaitsForRead'
  <2>1. calls' = calls /\ \A j \in Keys : QC!Fetching(cache[j]) => cache'[j] = cache[j]
    BY <1>1, <1>8 DEF Collect
  <2>2. \A q : IsRead(q) => IsRead(q)'
    BY <2>1 DEF IsRead
  <2>3. Fewer(calls', calls)
    BY <2>1 DEF Fewer
  <2> QED BY <1>2, <2>2, <2>3
<1>9. ASSUME NEW k \in Keys, Serve(k) PROVE WaitsForRead'
  <2>1. calls' = calls
    BY <1>9 DEF Serve
  <2>2. \A j \in Keys : QC!Fetching(cache[j]) => QC!Fetching(cache'[j])
    BY <1>9, ServeEffect
  <2>3. \A q : IsRead(q) => IsRead(q)'
    BY <2>2 DEF IsRead
  <2>4. Fewer(calls', calls)
    BY <2>1 DEF Fewer
  <2> QED BY <1>2, <2>3, <2>4
<1>10. ASSUME NEW k \in Keys, Land(k) PROVE WaitsForRead'
  <2>1. calls' = Release({k}, Remain(page'))
    BY <1>10 DEF Land
  <2>2. GoodCalls(Remain(page')) /\ \A q : Waiting(Remain(page'), q) = Waiting(calls, q)
    BY <1>1, RemainGood, RemainWaits
  <2>3. Fewer(calls', calls) /\ Waiting(calls', k) = {}
    BY <2>1, <2>2, WaitingSets DEF Fewer
  <2>4. PICK e \in QC!Entries : Moved([cache EXCEPT ![k] = e], cache', session)
    BY <1>10, LandEffect
  <2>5. ASSUME NEW q \in {"balance", "instruments"}, Waiting(calls', q) # {}
        PROVE  IsRead(q)'
    <3>1. q # k /\ IsRead(q)
      BY <2>3, <2>5 DEF WaitsForRead, Fewer
    <3>2. [cache EXCEPT ![k] = e][q] = cache[q]
      BY <1>1, <3>1 DEF IsRead
    <3> QED BY <2>4, <3>1, <3>2, MovedFetches DEF IsRead
  <2> QED BY <2>5 DEF WaitsForRead
<1>11. ASSUME NEW c \in Slots, LogoutAnswered(c) PROVE WaitsForRead'
  <2>1. /\ GoodCalls(Unmounted(Finish(c))) /\ calls' = Release(UserKeys, Unmounted(Finish(c)))
        /\ Fewer(Unmounted(Finish(c)), calls)
    <3>1. GoodCalls(Finish(c)) /\ Fewer(Finish(c), calls)
      BY <1>1, <1>3, IdleGood DEF Finish
    <3> QED BY <1>11, <3>1, SetsOfCallsGood, WaitingSets DEF LogoutAnswered, Fewer
  <2>2. \A q \in UserKeys : Waiting(calls', q) = {}
    BY <2>1, WaitingSets
  <2>3. Fewer(calls', calls)
    BY <2>1, WaitingSets DEF Fewer
  <2>4. ASSUME NEW q \in {"balance", "instruments"} PROVE Waiting(calls', q) = {}
    <3>1. q \notin PublicKeys /\ (q \notin Keys => ~IsRead(q))
      BY DEF PublicKeys, IsRead
    <3>2. q \in Keys => Waiting(calls', q) = {}
      BY <2>2, <3>1 DEF UserKeys
    <3> QED BY <2>3, <3>1, <3>2 DEF WaitsForRead, Fewer
  <2> QED BY <2>4 DEF WaitsForRead
<1> QED BY <1>4, <1>5, <1>6, <1>7, <1>8, <1>9, <1>10, <1>11, StepCases

(* A quick trade whose answer waits for the balance, or then for the       *)
(* instruments, waits for a read of it that is under way, in every order   *)
(* of cancelled reads, navigations, logouts and lost connections.          *)
THEOREM TradesAreReleased == Spec => []RefreshIsRead
<1>1. Init => WaitsForRead
  BY DEF Init, Idle, WaitsForRead, Waiting
<1>2. IInv /\ WaitsForRead /\ [Next]_vars => WaitsForRead'
  BY WaitsNext
<1>3. WaitsForRead => RefreshIsRead
  BY DEF WaitsForRead, Waiting, IsRead, RefreshIsRead
<1> QED BY <1>1, <1>2, <1>3, AlwaysInv, PTL DEF Spec

-----------------------------------------------------------------------------
(* What a user has done is seen                                            *)

\* Of user u, entry e shows as fresh, or is about to show, version v or a later one.
Reflects(e, u, v) ==
  /\ e.fresh => \A d \in e.data : d.owner = u /\ d.ver # Blank => d.ver >= v
  /\ \A f \in e.fetch : f.for = u => \A w \in f.got : w # Blank => w >= v

\* Nobody is owed more than what the backend holds.
Owes(u, v, k) == IF u = NoUser THEN v = 0 ELSE v <= latest[u][k]

\* What has not been outrun is reflected.
Seen(k) == k \notin outrun => Reflects(cache[k], session, owed[k])

WritesSeen ==
  \A k \in UserKeys : Seen(k) /\ Owes(session, owed[k], k)

\* Whoever is owed nothing sees enough in any entry.
LEMMA NothingOwed ==
  ASSUME NEW e \in QC!Entries, NEW u
  PROVE  Reflects(e, u, 0)
<1>1. \A d \in e.data : d.ver \in Nat
  <2>1. e.data \in QC!AtMostOne([owner : Owners, ver : 0..MaxVersion + 1])
    BY EntryFields
  <2>2. \A d \in e.data : d \in [owner : Owners, ver : 0..MaxVersion + 1]
    BY <2>1 DEF QC!AtMostOne
  <2> QED BY <2>2, FrontendAssumption
<1>2. \A f \in e.fetch : \A w \in f.got : w \in Nat
  <2>1. e.fetch \in QC!AtMostOne([for : Owners, got : QC!AtMostOne(0..MaxVersion + 1)])
    BY EntryFields
  <2>2. \A f \in e.fetch : f.got \in QC!AtMostOne(0..MaxVersion + 1)
    BY <2>1 DEF QC!AtMostOne
  <2>3. \A f \in e.fetch : \A w \in f.got : w \in 0..MaxVersion + 1
    BY <2>2 DEF QC!AtMostOne
  <2> QED BY <2>3, FrontendAssumption
<1> QED BY <1>1, <1>2 DEF Reflects

LEMMA MovedReflects ==
  ASSUME NEW c, NEW d, NEW r, Moved(c, d, r), NEW k \in Keys, NEW u, NEW v, Reflects(c[k], u, v)
  PROVE  Reflects(d[k], u, v)
BY DEF Moved, Touched, Reflects

\* The versions that the backend holds only grow.
LEMMA VersionsGrow ==
  ASSUME IInv, [Next]_vars, NEW u \in Users, NEW k \in UserKeys
  PROVE  latest'[u][k] >= latest[u][k]
<1>1. latest \in [Users -> [UserKeys -> 1..MaxVersion]]
  BY DEF IInv, RestOK
<1>2. ASSUME NEW w \in Users, NEW ks PROVE Bumped(w, ks)[u][k] >= latest[u][k]
  <2>1. latest[w] \in [UserKeys -> 1..MaxVersion] /\ latest[u][k] \in Nat
    BY <1>1
  <2>2. Bumped(w, ks)[u] = IF u = w THEN [j \in UserKeys |-> IF j \in ks THEN latest[w][j] + 1 ELSE latest[w][j]]
                                    ELSE latest[u]
    BY <1>1 DEF Bumped
  <2> QED BY <2>1, <2>2
<1>3. latest[u][k] \in Nat
  BY <1>1
<1>4. ASSUME NEW c \in Slots, CarryOut(c) PROVE latest'[u][k] >= latest[u][k]
  <2>1. calls[c].user \in Users
    BY <1>4 DEF CarryOut, IInv, CallsOK, GoodCalls
  <2>2. latest' = latest \/ \E ks : latest' = Bumped(calls[c].user, ks)
    BY <1>4 DEF CarryOut
  <2> QED BY <1>2, <1>3, <2>1, <2>2
<1>5. ASSUME NEW w \in Elsewhere, NEW j \in UserKeys, BackendChanges(w, j)
      PROVE  latest'[u][k] >= latest[u][k]
  BY <1>2, <1>5, FrontendAssumption DEF BackendChanges
<1>6. ASSUME UNCHANGED latest PROVE latest'[u][k] >= latest[u][k]
  BY <1>3, <1>6
<1>7. ASSUME NEW u1, NEW cs, OpenSession(u1, cs) PROVE UNCHANGED latest
  BY <1>7 DEF OpenSession
<1> QED BY <1>4, <1>5, <1>6, <1>7
        DEF Next, Moves, Reads, Submits, Backend, Told, Navigate, Reload, SwitchTab, Redirect, Arrive,
            LoaderFails, Focus, Age, Collect, Serve, Land, Submit, Send, DefaultLogin, ClickLogout,
            AnswerLost, Answered, FollowUp, InvalidateFor, Refused, LoginAnswered, SignupAnswered,
            LogoutAnswered, vars

\* Where only the backend may change what it holds, nobody comes to owe too much.
LEMMA OwesStays ==
  ASSUME IInv, [Next]_vars, NEW k \in UserKeys, Owes(session, owed[k], k),
         session' = session, owed'[k] = owed[k]
  PROVE  Owes(session, owed[k], k)'
<1>1. CASE session = NoUser
  BY <1>1 DEF Owes
<1>2. CASE session # NoUser
  <2>1. session \in Users /\ NoUser \notin Users
    BY <1>2, FrontendAssumption DEF IInv, RestOK, Owners
  <2>2. latest'[session][k] >= latest[session][k]
    BY <2>1, VersionsGrow
  <2>3. owed[k] \in Nat /\ latest[session][k] \in Nat
    BY <2>1 DEF IInv, RestOK
  <2>4. latest'[session][k] \in Nat
    BY <2>1, NextInv DEF IInv, RestOK
  <2> QED BY <1>2, <2>2, <2>3, <2>4 DEF Owes
<1> QED BY <1>1, <1>2

LEMMA AnsweredSeen ==
  ASSUME IInv, WritesSeen, NEW c \in Slots, Answered(c) \/ FollowUp(c), NEW k \in UserKeys
  PROVE  Seen(k)' /\ Owes(session, owed[k], k)'
<1>1. PICK q, next : InvalidateFor(c, q, next) /\ calls[c].at # "idle"
  BY InvalidationCases
<1>2. /\ cache' = Invalidated(q) /\ owed' = Owing(c, q) /\ UNCHANGED <<session, latest>>
      /\ outrun' = IF Outlives(q) THEN outrun \cup {q} ELSE outrun \ {q}
  BY <1>1 DEF InvalidateFor
<1>3. Seen(k) /\ Owes(session, owed[k], k) /\ k \in Keys /\ cache[k] \in QC!Entries
  BY DEF WritesSeen, UserKeys, IInv, CacheOK
<1>4. CASE k # q
  <2>1. cache'[k] = cache[k] /\ owed'[k] = owed[k] /\ (k \in outrun' <=> k \in outrun)
    BY <1>2, <1>3, <1>4 DEF Invalidated, Owing
  <2> QED BY <1>2, <1>3, <2>1 DEF Owes, Reflects, Seen
<1>5. CASE k = q
  <2>1. Owes(session, owed[k], k)'
    <3>1. CASE owed'[k] = owed[k]
      BY <1>2, <1>3, <3>1 DEF Owes
    <3>2. CASE owed'[k] # owed[k]
      <4>1. calls[c].user = session /\ owed'[k] = latest[session][k]
        BY <1>2, <3>2 DEF Owing, IInv, RestOK
      <4>2. session \in Users /\ session # NoUser
        BY <1>1, <4>1, FrontendAssumption DEF IInv, CallsOK, GoodCalls
      <4>3. latest[session][k] \in Nat
        BY <4>2 DEF IInv, RestOK
      <4> QED BY <1>2, <4>1, <4>2, <4>3 DEF Owes
    <3> QED BY <3>1, <3>2
  <2>2. ASSUME k \notin outrun' PROVE ~cache'[k].fresh /\ \A f \in cache'[k].fetch : f.got = {}
    <3>1. cache'[k] = QC!Invalidate(cache[k], Reader(k), k \in Observed)
      BY <1>2, <1>3, <1>5 DEF Invalidated
    <3>2. PICK e \in QC!Entries : e = QC!Aged(cache[k]) /\ ~e.fresh /\ e.fetch = cache[k].fetch
      <4>1. QC!Aged(cache[k]) \in QC!Entries
        BY <1>3 DEF QC!Aged, QC!Entries
      <4>2. ~QC!Aged(cache[k]).fresh /\ QC!Aged(cache[k]).fetch = cache[k].fetch
        BY <1>3 DEF QC!Aged, QC!Entries
      <4> QED BY <4>1, <4>2
    <3>3. ~QC!Request(e, Reader(k)).fresh /\ \A f \in QC!Request(e, Reader(k)).fetch : f.got = {}
      BY <3>2 DEF QC!Request, QC!Entries
    <3>4. Cancels(k) \/ \A f \in cache[k].fetch : f.got = {}
      BY <1>2, <1>3, <1>5, <2>2 DEF Outlives
    <3>5. cache'[k] \in {e, QC!Request(e, Reader(k))} /\ (Cancels(k) => cache'[k] = QC!Request(e, Reader(k)))
      BY <3>1, <3>2 DEF QC!Invalidate, QC!Join, Cancels
    <3> QED BY <3>2, <3>3, <3>4, <3>5
  <2> QED BY <2>1, <2>2 DEF Reflects, Seen
<1> QED BY <1>4, <1>5

LEMMA WritesNext ==
  ASSUME IInv, WritesSeen, [Next]_vars
  PROVE  WritesSeen'
<1> SUFFICES ASSUME NEW k \in UserKeys
             PROVE  Seen(k)' /\ Owes(session, owed[k], k)'
  BY DEF WritesSeen
<1>1. /\ k \in Keys /\ k \notin PublicKeys
      /\ cache \in [Keys -> QC!Entries]
      /\ owed[k] \in 0..MaxVersion
      /\ Seen(k) /\ Owes(session, owed[k], k)
  BY DEF IInv, CacheOK, RestOK, WritesSeen, UserKeys
<1>2. ASSUME session' = session, owed' = owed,
             NEW c, NEW u, Moved(c, cache', u), k \notin outrun' => Reflects(c[k], session, owed[k])
      PROVE  Seen(k)' /\ Owes(session, owed[k], k)'
  <2>1. k \notin outrun' => Reflects(cache'[k], session, owed[k])
    BY <1>1, <1>2, MovedReflects
  <2> QED BY <1>1, <1>2, <2>1, OwesStays DEF Reflects, Seen
<1>3. cache' \in [Keys -> QC!Entries] /\ session' \in Owners
  BY NextInv DEF IInv, CacheOK, RestOK
<1>4. ASSUME owed'[k] = 0
      PROVE  Seen(k)' /\ Owes(session, owed[k], k)'
  <2>1. Reflects(cache'[k], session', 0)
    BY <1>1, <1>3, NothingOwed
  <2>2. session' # NoUser => latest'[session'][k] \in Nat
    BY <1>3, NextInv DEF IInv, RestOK, Owners
  <2> QED BY <1>4, <2>1, <2>2 DEF Reflects, Owes, Seen
<1>5. CASE Resting
  <2>1. UNCHANGED <<session, cache, owed, outrun>>
    BY <1>5, RestingStays DEF Resting, LoaderFails, ClickLogout, Send, Submit, CarryOut, AnswerLost,
                              Refused, SignupAnswered, BackendChanges, vars
  <2>2. Moved(cache, cache', session)
    BY <2>1, SelfMoves DEF IInv, RestOK
  <2> QED BY <1>1, <1>2, <2>1, <2>2 DEF Seen
<1>6. CASE Reading
  <2>1. Moved(cache, cache', session) /\ session' = session
    BY <1>6, ReadingMoves
  <2>2. ASSUME owed' = owed, outrun' = outrun PROVE Seen(k)' /\ Owes(session, owed[k], k)'
    BY <1>1, <1>2, <2>1, <2>2 DEF Seen
  <2> QED BY <1>6, <2>2, AnsweredSeen DEF Reading, Navigate, SwitchTab, Redirect, Arrive, Focus, Age
<1>7. CASE Opening
  <2>1. Moved(cache, cache', session')
    BY <1>7, OpeningMoves
  <2>2. /\ owed' = (IF session' = session THEN owed ELSE [j \in UserKeys |-> 0])
        /\ session' = session => outrun' = outrun
    BY <1>7 DEF Opening, DefaultLogin, LoginAnswered, OpenSession
  <2> QED BY <1>1, <1>2, <1>4, <2>1, <2>2 DEF Seen
<1>8. ASSUME NEW p \in Reloaded, Reload(p)
      PROVE  Seen(k)' /\ Owes(session, owed[k], k)'
  <2>1. Moved([j \in Keys |-> QC!Absent], cache', session) /\ UNCHANGED <<session, owed>>
    BY <1>8, ReloadMoves DEF Reload
  <2>2. Reflects([j \in Keys |-> QC!Absent][k], session, owed[k])
    BY <1>1 DEF Reflects, QC!Absent
  <2> QED BY <1>2, <2>1, <2>2
<1>9. ASSUME NEW j \in Keys, Collect(j)
      PROVE  Seen(k)' /\ Owes(session, owed[k], k)'
  <2>1. UNCHANGED <<session, owed, outrun>> /\ cache'[k] \in {cache[k], QC!Absent}
    BY <1>1, <1>9 DEF Collect
  <2>2. k \notin outrun => Reflects(cache'[k], session, owed[k])
    BY <1>1, <2>1 DEF Reflects, Seen, QC!Absent
  <2> QED BY <1>1, <2>1, <2>2, OwesStays DEF Reflects, Seen
<1>10. ASSUME NEW j \in Keys, Serve(j)
       PROVE  Seen(k)' /\ Owes(session, owed[k], k)'
  <2>1. UNCHANGED <<session, owed, outrun>>
    BY <1>10 DEF Serve
  <2>2. CASE j # k
    <3>1. cache'[k] = cache[k]
      BY <1>1, <1>10, <2>2, ServeEffect
    <3> QED BY <1>1, <2>1, <3>1, OwesStays DEF Reflects, Seen
  <2>3. CASE j = k
    <3>1. /\ cache'[k].data = cache[k].data /\ cache'[k].fresh = cache[k].fresh
          /\ \A x \in cache'[k].fetch : x.got \subseteq {Current(x.for, k), Failed, Blank}
      BY <1>10, <2>3, ServeEffect
    <3>2. Failed >= owed[k]
      BY <1>1, FrontendAssumption DEF Failed
    <3>3. Current(session, k) >= owed[k]
      BY <1>1, FrontendAssumption DEF Current, Owes, IInv, RestOK, Owners
    <3>4. ASSUME NEW x \in cache'[k].fetch, x.for = session, NEW w \in x.got, w # Blank
          PROVE  w >= owed[k]
      BY <3>1, <3>2, <3>3, <3>4
    <3>5. k \notin outrun => Reflects(cache'[k], session, owed[k])
      BY <1>1, <3>1, <3>4 DEF Reflects, Seen
    <3> QED BY <1>1, <2>1, <3>5, OwesStays DEF Reflects, Seen
  <2> QED BY <2>2, <2>3
<1>11. ASSUME NEW j \in Keys, Land(j)
       PROVE  Seen(k)' /\ Owes(session, owed[k], k)'
  <2>1. /\ UNCHANGED <<session, owed>>
        /\ j # k => (k \in outrun' <=> k \in outrun)
    BY <1>11 DEF Land
  <2>2. PICK e \in QC!Entries :
          /\ e.fetch = {}
          /\ \/ e.data = cache[j].data /\ e.fresh = cache[j].fresh /\ outrun' = outrun
             \/ \E f \in cache[j].fetch : /\ \A d \in e.data : d.owner = f.for /\ d.ver \in f.got
                                          /\ j \in outrun \ outrun' => \A v \in f.got : ~(v < owed[j])
          /\ Moved([cache EXCEPT ![j] = e], cache', session)
    BY <1>11, LandEffect
  <2>3. CASE j # k
    <3>1. [cache EXCEPT ![j] = e][k] = cache[k]
      BY <1>1, <2>3
    <3> QED BY <1>1, <1>2, <2>1, <2>2, <2>3, <3>1 DEF Seen
  <2>4. CASE j = k
    <3>1. k \notin outrun' => Reflects(e, session, owed[k])
      <4>1. CASE e.data = cache[k].data /\ e.fresh = cache[k].fresh /\ outrun' = outrun
        BY <1>1, <2>2, <4>1 DEF Reflects, Seen
      <4>2. ASSUME NEW f \in cache[k].fetch,
                   \A d \in e.data : d.owner = f.for /\ d.ver \in f.got,
                   k \in outrun \ outrun' => \A v \in f.got : ~(v < owed[k])
            PROVE  k \notin outrun' => Reflects(e, session, owed[k])
        <5>1. CASE k \notin outrun
          BY <1>1, <2>2, <4>2, <5>1 DEF Reflects, Seen
        <5>2. CASE k \in outrun
          <6>1. cache[k] \in QC!Entries /\ owed[k] \in Nat
            BY <1>1
          <6>2. \A d \in e.data : d.ver \in Nat
            <7>1. e.data \in QC!AtMostOne([owner : Owners, ver : 0..MaxVersion + 1])
              BY EntryFields
            <7> QED BY <7>1, FrontendAssumption DEF QC!AtMostOne
          <6> QED BY <2>2, <4>2, <5>2, <6>1, <6>2 DEF Reflects
        <5> QED BY <5>1, <5>2
      <4> QED BY <2>2, <2>4, <4>1, <4>2
    <3>2. [cache EXCEPT ![j] = e][k] = e
      BY <1>1, <2>4
    <3> QED BY <1>2, <2>1, <2>2, <3>1, <3>2
  <2> QED BY <2>3, <2>4
<1>12. ASSUME NEW c \in Slots, LogoutAnswered(c)
       PROVE  Seen(k)' /\ Owes(session, owed[k], k)'
  BY <1>4, <1>12 DEF LogoutAnswered
<1> QED BY <1>5, <1>6, <1>7, <1>8, <1>9, <1>10, <1>11, <1>12, StepCases

LEMMA WritesInit == Init => WritesSeen
BY DEF Init, WritesSeen, Seen, Reflects, Owes, UserKeys, QC!Absent

(* Users read their writes: a fresh query is not older than what the call  *)
(* of the user that last invalidated it left, however reads, calls and     *)
(* sessions interleave, with two exceptions.  One is an empty list that    *)
(* stands for a failed read.  The other is a read that had already been    *)
(* served when a call invalidated the query and that the invalidation did  *)
(* not cancel, for the query was unobserved or had no data yet: what it    *)
(* brings shows as fresh although it is older than the call.               *)
THEOREM WritesAreRead == Spec => []ReadYourWrites
<1>1. IInv /\ WritesSeen /\ [Next]_vars => WritesSeen'
  BY WritesNext
<1>2. WritesSeen => ReadYourWrites
  BY DEF WritesSeen, Seen, Reflects, ReadYourWrites
<1> QED BY <1>1, <1>2, WritesInit, AlwaysInv, PTL DEF Spec
=============================================================================
