-------------------------- MODULE FrontendSession --------------------------
(***************************************************************************)
(* One browser tab of the frontend: the session (AuthContext), the router  *)
(* with its loaders and layout guards, the query cache the pages read, and *)
(* the calls its forms make.  A call runs from its form to the backend and *)
(* back while the user goes on: leaves the page, logs out, logs in again.  *)
(* The backend is what the pages see of it: a version of each user's data. *)
(***************************************************************************)
EXTENDS Naturals, FiniteSets

CONSTANTS
  Users,        \* who may have an account
  Registered,   \* who has one from the start; the preset users
  NoUser,       \* sessionStorage holds no user-id
  Keys,         \* the query keys of interest
  Visited,      \* the pages the user opens
  Reloaded,     \* the pages at which the application is loaded anew
  Elsewhere,    \* the users whose data also changes without this tab
  Slots,        \* calls that may be in flight at the same time
  MaxVersion,   \* bound: versions of one piece of a user's data
  MaxFailures   \* bound: reads that fail and answers that are lost

PublicKeys == {"preset", "prices"}

UserKeys == Keys \ PublicKeys

\* Data that getUser and getBalance read: they throw where the lists turn empty.
Throwing == {"user", "balance"}

Tabs == {"quickBuy", "quickSell", "buy", "sell"}

Protected == {"home", "deposit", "withdraw", "instruments", "blank"} \cup Tabs

Public == {"login", "signup"}

Pages == Protected \cup Public \cup {"base", "flags", "error", "start"}

ASSUME FrontendAssumption ==
  /\ Registered \cup Elsewhere \subseteq Users
  /\ NoUser \notin Users
  /\ Keys \subseteq {"user", "balance", "instruments", "transactions"} \cup PublicKeys
  /\ Visited \cup Reloaded \subseteq Pages \ {"blank", "error", "start"}
  /\ Slots \subseteq Nat
  /\ MaxVersion \in Nat \ {0}
  /\ MaxFailures \in Nat

VARIABLES
  session,   \* user-id in sessionStorage
  page,      \* the page shown; on the page of an instrument, its tab
  nav,       \* the navigation under way, if any: where to, and what it awaits
  cache,     \* the query client: an entry per key
  calls,     \* the calls made by forms and by the user panel
  accounts,  \* users that can log in
  latest,    \* the version of each user's data that the backend holds
  failures,  \* reads failed and answers lost so far
  owed,      \* history: the version the user is entitled to see
  outrun,    \* history: keys whose invalidation an older answer has outrun
  mixed      \* history: a second user logged in over a session

vars == <<session, page, nav, cache, calls, accounts, latest, failures, owed, outrun, mixed>>

\* What a read answers: a version, an empty list, or nothing but an error.
Blank == 0
Failed == MaxVersion + 1

QC == INSTANCE QueryCache WITH
        Readers <- Users \cup {NoUser}, Readings <- 0..MaxVersion + 1

Kinds == Tabs \cup {"login", "signup", "deposit", "withdraw", "logout"}

Idle == [kind |-> "none", user |-> NoUser, mounted |-> FALSE, at |-> "idle"]

-----------------------------------------------------------------------------
(* Pages, loaders and what is shown                                        *)

LoggedIn == session # NoUser

\* ProtectedLayout, PublicLayout and BaseNavigation render but a redirect.
Allowed(p) == p # "base" /\ p \notin (IF LoggedIn THEN Public ELSE Protected)

Misplaced == ~Allowed(page)

\* A loader reads for the session, public data for nobody in particular.
Reader(k) == IF k \in PublicKeys THEN NoUser ELSE session

\* A page: the queries that its loaders await before it is shown, and those that
\* its components observe.
Page(awaits, observes) == [awaits |-> awaits, observes |-> observes]

HomePage ==
  Page({"instruments", "transactions"}, {"user", "balance", "instruments", "transactions"})

DepositPage == Page({}, {"user", "balance"})

WithdrawPage == Page({}, {"user", "balance"})

InstrumentsPage == Page({"instruments"}, {"instruments"})

\* The page of an instrument, with one of its forms or without the instrument.
BuyingPage == Page({"instruments", "prices"}, {"user", "balance", "instruments", "prices"})

SellingPage == Page({"instruments", "prices"}, {"instruments", "prices"})

BlankPage == Page({}, {"instruments"})

LoginPage == Page({"preset"}, {"preset"})

PlainPage == Page({}, {})

PageOf(p) ==
  CASE p = "home"                  -> HomePage
    [] p = "deposit"               -> DepositPage
    [] p = "withdraw"              -> WithdrawPage
    [] p = "instruments"           -> InstrumentsPage
    [] p \in {"quickBuy", "buy"}   -> BuyingPage
    [] p \in {"quickSell", "sell"} -> SellingPage
    [] p = "blank"                 -> BlankPage
    [] p = "login"                 -> LoginPage
    [] OTHER                       -> PlainPage

Awaited(p) == PageOf(p).awaits

Shown(p) == PageOf(p).observes

\* ErrorPage replaces the whole layout; before the first load there is none.
NoLayout == {"error", "start"}

\* The header shows the name of the user wherever there is a layout.
Observed ==
  IF page \in NoLayout THEN {}
  ELSE (IF Misplaced THEN {} ELSE Shown(page)) \cup (IF LoggedIn THEN {"user"} ELSE {})

\* What observers find when they are mounted for the queries ks.
Mounted(c, ks) == [k \in Keys |-> IF k \in ks THEN QC!Watch(c[k], Reader(k)) ELSE c[k]]

\* The instrument page finds no instrument in an empty list.
NoInstruments(c) ==
  /\ "instruments" \in Keys
  /\ \A d \in c["instruments"].data : d.ver = Blank

\* A form is unmounted when another page, or none, takes its place.
Remain(p) == [c \in Slots |-> [calls[c] EXCEPT !.mounted = @ /\ calls[c].kind = p]]

\* The fetches of ks have ended, or are cancelled: who waits for them goes on.
Release(ks, cs) ==
  [c \in Slots |-> CASE cs[c].at = "refreshing" /\ "balance" \in ks    -> [cs[c] EXCEPT !.at = "refreshed"]
                     [] cs[c].at = "rereading" /\ "instruments" \in ks -> Idle
                     [] OTHER                                           -> cs[c]]

\* What is left of call c when nobody waits for its answer any more: a request
\* that the backend may still come to see.
Orphaned(c) ==
  IF calls[c].at \in {"sent", "lost"} THEN [calls[c] EXCEPT !.at = "lost", !.mounted = FALSE] ELSE Idle

-----------------------------------------------------------------------------
(* Navigation                                                              *)

\* Loaders of user data redirect without a session (loadWithUser).
Target(p) == IF ~LoggedIn /\ Awaited(p) \cap UserKeys # {} THEN "login" ELSE p

\* Start to load what page p needs from cache c; abandon a navigation under way.
GoTo(p, c) ==
  LET needed == Awaited(Target(p)) \cap Keys
  IN  /\ cache' = [k \in Keys |-> IF k \in needed THEN QC!Ensure(c[k], Reader(k)) ELSE c[k]]
      /\ nav' = {[to |-> Target(p), await |-> {k \in needed : ~QC!HasData(c[k])}]}

\* A link, an item of Navigation, or a button of the header.
Navigate(p) ==
  /\ page \notin NoLayout /\ page # p
  /\ \A n \in nav : n.to # p
  /\ p \in Protected => LoggedIn /\ ~Misplaced
  /\ p \in Public => page \in Public /\ ~Misplaced
  /\ GoTo(p, cache)
  /\ UNCHANGED <<session, page, calls, accounts, latest, failures, owed, outrun, mixed>>

\* A mutant: PublicLayout lets a user who has logged in stay.
RedirectToLogin ==
  /\ Misplaced /\ ~LoggedIn
  /\ GoTo("login", cache)
  /\ UNCHANGED <<session, page, calls, accounts, latest, failures, owed, outrun, mixed>>

\* The redirect that is rendered in place of the page.
Redirect ==
  LET p == IF LoggedIn THEN "home" ELSE "login"
  IN  /\ Misplaced
      /\ \A n \in nav : n.to # p \/ "removed" \in n.await
      /\ GoTo(p, cache)
      /\ UNCHANGED <<session, page, calls, accounts, latest, failures, owed, outrun, mixed>>

\* Everything awaited is there: the page is mounted and its queries observed.
Arrive ==
  \E n \in nav :
    /\ n.await = {}
    /\ page' = IF n.to \in Tabs /\ NoInstruments(cache) THEN "blank" ELSE n.to
    /\ nav' = IF page' = "blank" THEN {[to |-> "instruments", await |-> {}]} ELSE {}
    /\ cache' = Mounted(cache, (IF Allowed(page') THEN Shown(page') ELSE {})
                               \cup (IF page = "start" /\ LoggedIn THEN {"user"} ELSE {}))
    /\ calls' = Remain(page')
    /\ UNCHANGED <<session, accounts, latest, failures, owed, outrun, mixed>>

\* A loader whose query was removed rejects: ErrorPage.
LoaderFails ==
  /\ \E n \in nav : "removed" \in n.await
  /\ page' = "error" /\ nav' = {}
  /\ calls' = Remain("error")
  /\ UNCHANGED <<session, cache, accounts, latest, failures, owed, outrun, mixed>>

\* InstrumentTransactions shows another form.
SwitchTab(t) ==
  /\ page \in Tabs /\ t # page /\ ~Misplaced
  /\ page' = t
  /\ cache' = Mounted(cache, {"user", "balance"} \cap Shown(t))
  /\ calls' = Remain(t)
  /\ UNCHANGED <<session, nav, accounts, latest, failures, owed, outrun, mixed>>

\* The application is loaded anew at page p: only sessionStorage survives.
Reload(p) ==
  /\ page # "start"
  /\ page' = "start"
  /\ GoTo(p, [k \in Keys |-> QC!Absent])
  /\ calls' = [c \in Slots |-> Orphaned(c)]
  /\ outrun' = {} /\ mixed' = FALSE
  /\ UNCHANGED <<session, accounts, latest, failures, owed>>

-----------------------------------------------------------------------------
(* Reads                                                                   *)

\* The window gets the focus: what is observed and stale is read again.
Focus ==
  /\ cache' = Mounted(cache, Observed)
  /\ UNCHANGED <<session, page, nav, calls, accounts, latest, failures, owed, outrun, mixed>>

\* Time passes staleTime, and gcTime for what nobody observes.
Age(k) ==
  /\ cache[k].fresh
  /\ cache' = [cache EXCEPT ![k] = QC!Aged(@)]
  /\ UNCHANGED <<session, page, nav, calls, accounts, latest, failures, owed, outrun, mixed>>

Collect(k) ==
  /\ ~cache[k].fresh /\ QC!HasData(cache[k]) /\ ~QC!Fetching(cache[k])
  /\ k \notin Observed /\ nav = {}
  /\ cache' = [cache EXCEPT ![k] = QC!Absent]
  /\ UNCHANGED <<session, page, nav, calls, accounts, latest, failures, owed, outrun, mixed>>

\* What the backend holds for r; public data does not change.
Current(r, k) == IF r = NoUser THEN 1 ELSE latest[r][k]

\* The backend answers the read of k, or it cannot: an empty list or an error.
Serve(k) ==
  \E f \in cache[k].fetch :
    /\ f.got = {}
    /\ \/ /\ cache' = [cache EXCEPT ![k] = QC!Served(@, Current(f.for, k))]
          /\ UNCHANGED failures
       \/ /\ failures < MaxFailures /\ failures' = failures + 1
          /\ cache' = [cache EXCEPT ![k] = QC!Served(@, IF k \in Throwing THEN Failed ELSE Blank)]
    /\ UNCHANGED <<session, page, nav, calls, accounts, latest, owed, outrun, mixed>>

\* The page of an instrument goes blank with the list, and comes back with it.
PageWith(c) ==
  CASE page \in Tabs /\ ~Misplaced /\ NoInstruments(c)    -> "blank"
    [] page = "blank" /\ ~Misplaced /\ ~NoInstruments(c) -> "quickBuy"
    [] OTHER                                             -> page

\* The answer reaches the cache, and whoever waits for it.
Land(k) ==
  \E f \in cache[k].fetch :
    /\ f.got # {}
    /\ LET c == [cache EXCEPT ![k] = IF f.got = {Failed} THEN QC!GivenUp(@) ELSE QC!Landed(f)]
       IN  /\ page' = PageWith(c)
           /\ cache' = IF page' = page THEN c ELSE Mounted(c, Shown(page') \ {"instruments"})
    /\ nav' = {[n EXCEPT !.await = @ \ {k}] : n \in nav}
    /\ calls' = Release({k}, Remain(page'))
    /\ outrun' = {j \in outrun : j = k => f.got = {Failed} \/ \E v \in f.got : v < owed[j]}
    /\ UNCHANGED <<session, accounts, latest, failures, owed, mixed>>

-----------------------------------------------------------------------------
(* Forms                                                                   *)

\* What a form needs to have read, what its call changes in the backend, and the
\* query it invalidates, or invalidates first, when it is told of success.
Form(needs, changes, invalidates) ==
  [needs |-> needs, changes |-> changes, invalidates |-> invalidates]

DepositForm == Form({}, {"balance"}, "balance")

WithdrawForm == Form({}, {"balance"}, "balance")

\* Without a balance the form takes it for 0 and finds any total too high.
QuickBuyForm == Form({"balance"}, {"balance", "instruments"}, "balance")

QuickSellForm == Form({"instruments"}, {"balance", "instruments"}, "balance")

\* A long trade changes no holding until the batch of the broker closes it.
BuyForm == Form({}, {"transactions"}, "transactions")

SellForm == Form({}, {"transactions"}, "transactions")

LoginForm == Form({}, {}, "none")

SignupForm == Form({}, {}, "none")

FormOf(kind) ==
  CASE kind = "deposit"   -> DepositForm
    [] kind = "withdraw"  -> WithdrawForm
    [] kind = "quickBuy"  -> QuickBuyForm
    [] kind = "quickSell" -> QuickSellForm
    [] kind = "buy"       -> BuyForm
    [] kind = "sell"      -> SellForm
    [] kind = "login"     -> LoginForm
    [] kind = "signup"    -> SignupForm

MoneyForms == {"deposit", "withdraw"} \cup Tabs

\* quickTransactionInvalidateQuery: the balance and, when that has been read again,
\* the instruments.
Quick == {"quickBuy", "quickSell"}

\* Forms that stay busy until what they have invalidated has been read again.
Patient == {"quickBuy"}

-----------------------------------------------------------------------------
(* Calls                                                                   *)

\* A form is busy while its mutation is pending; a new mount knows of none.
Pending(kind) == \E c \in Slots : calls[c].kind = kind /\ calls[c].mounted

Send(kind, u) ==
  \E c \in Slots :
    /\ calls[c] = Idle /\ \A d \in Slots : d < c => calls[d] # Idle
    /\ calls' = [calls EXCEPT ![c] = [kind |-> kind, user |-> u, mounted |-> TRUE, at |-> "sent"]]
    /\ UNCHANGED <<session, page, nav, cache, accounts, latest, failures, owed, outrun, mixed>>

Submit(form, u) ==
  /\ page = form /\ ~Misplaced /\ ~Pending(form)
  /\ \A k \in FormOf(form).needs \cap Keys : QC!HasData(cache[k])
  /\ Send(form, u)

\* The item of the menu can be clicked again while the answer is awaited.
ClickLogout == LoggedIn /\ page \notin NoLayout /\ Send("logout", session)

\* A mutant: a call is carried out twice.
BumpedTwice(u, ks) ==
  [latest EXCEPT ![u] = [k \in UserKeys |-> IF k \in ks THEN @[k] + 2 ELSE @[k]]]

Bumped(u, ks) ==
  [latest EXCEPT ![u] = [k \in UserKeys |-> IF k \in ks THEN @[k] + 1 ELSE @[k]]]

\* The backend carries the call out, or refuses it; after a lost connection
\* nobody is told.
Reply(c, at) ==
  [calls EXCEPT ![c] = IF @.at = "lost" THEN Idle ELSE [@ EXCEPT !.at = at]]

CarryOut(c) ==
  /\ calls[c].at \in {"sent", "lost"}
  /\ LET kind == calls[c].kind
         u == calls[c].user
         ks == IF kind = "logout" THEN {} ELSE FormOf(kind).changes \cap UserKeys
     IN  \/ /\ kind = "login" => u \in accounts
            /\ kind = "signup" => u \notin accounts
            /\ \A k \in ks : latest[u][k] < MaxVersion
            /\ accounts' = IF kind = "signup" THEN accounts \cup {u} ELSE accounts
            /\ latest' = IF ks = {} THEN latest ELSE Bumped(u, ks)
            /\ calls' = Reply(c, "done")
         \/ /\ kind # "logout"
            /\ calls' = Reply(c, "refused")
            /\ UNCHANGED <<accounts, latest>>
  /\ UNCHANGED <<session, page, nav, cache, failures, owed, outrun, mixed>>

\* Others change the data of u: a long trade is closed, another tab is used.
BackendChanges(u, k) ==
  /\ latest[u][k] < MaxVersion
  /\ latest' = Bumped(u, {k})
  /\ UNCHANGED <<session, page, nav, cache, calls, accounts, failures, owed, outrun, mixed>>

\* The form is told of a failure, and shows it if it is still there.
Refused(c) ==
  /\ calls[c].at = "refused"
  /\ calls' = [calls EXCEPT ![c] = Idle]
  /\ UNCHANGED <<session, page, nav, cache, accounts, latest, failures, owed, outrun, mixed>>

\* The connection breaks: the form is told of a failure, whatever has happened
\* or still happens in the backend.
AnswerLost(c) ==
  /\ calls[c].at \in {"sent", "done"}
  /\ failures < MaxFailures /\ failures' = failures + 1
  /\ calls' = [calls EXCEPT ![c] = Orphaned(c)]
  /\ UNCHANGED <<session, page, nav, cache, accounts, latest, owed, outrun, mixed>>

\* An invalidation marks the entry of k as stale and has it read again.
Invalidated(k) ==
  [j \in Keys |-> IF j = k THEN QC!Invalidate(cache[k], Reader(k), k \in Observed) ELSE cache[j]]

\* A fetch in flight is cancelled only if its query is observed and has data.
Cancels(k) == k \in Observed /\ QC!HasData(cache[k])

\* A user told of success may expect to see what the backend now holds.
Owing(c, k) ==
  [j \in UserKeys |-> IF j = k /\ calls[c].user = session THEN latest[session][j] ELSE owed[j]]

\* The answer to a read that the invalidation does not cancel is on its way: it
\* will land as fresh, and it may be older than what the user is owed.
Outlives(k) == k \in Keys /\ ~Cancels(k) /\ \E f \in cache[k].fetch : f.got # {}

Finish(c) == [calls EXCEPT ![c] = Idle]

\* Those who wait for a fetch go on when it is cancelled.
Cancelled(k) == IF k \in Keys /\ Cancels(k) THEN Release({k}, calls) ELSE calls

InvalidateFor(c, k, next) ==
  /\ cache' = Invalidated(k)
  /\ owed' = Owing(c, k)
  /\ outrun' = IF Outlives(k) THEN outrun \cup {k} ELSE outrun \ {k}
  /\ calls' = [Cancelled(k) EXCEPT ![c] = next]
  /\ UNCHANGED <<session, page, nav, accounts, latest, failures, mixed>>

\* Call c at the next stage; a form that does not wait is free.
Stage(c, at) == [calls[c] EXCEPT !.at = at, !.mounted = @ /\ calls[c].kind \in Patient]

\* It waits for the read of k, unless nobody observes k.
Waits(c, k, waiting, after) == IF k \in Observed \cap Keys THEN Stage(c, waiting) ELSE after

\* A mutant: the form waits for a read also where nobody observes the query.
AnsweredAndWaits(c) ==
  /\ calls[c].kind \in MoneyForms /\ calls[c].at = "done"
  /\ InvalidateFor(c, FormOf(calls[c].kind).invalidates,
                   IF calls[c].kind \in Quick THEN [calls[c] EXCEPT !.at = "refreshing"] ELSE Idle)

\* The answer of a form: its query is invalidated.
Answered(c) ==
  /\ calls[c].kind \in MoneyForms /\ calls[c].at = "done"
  /\ LET k == FormOf(calls[c].kind).invalidates
     IN  InvalidateFor(c, k, IF calls[c].kind \in Quick THEN Waits(c, k, "refreshing", Stage(c, "refreshed"))
                                                        ELSE Idle)

\* The second of a quick trade; a form that waits does so for this one, too.
FollowUp(c) ==
  /\ calls[c].at = "refreshed"
  /\ InvalidateFor(c, "instruments",
                   IF calls[c].mounted THEN Waits(c, "instruments", "rereading", Idle) ELSE Idle)

\* The form of a new account is reset; nothing else happens.
SignupAnswered(c) ==
  /\ calls[c].kind = "signup" /\ calls[c].at = "done"
  /\ calls' = Finish(c)
  /\ UNCHANGED <<session, page, nav, cache, accounts, latest, failures, owed, outrun, mixed>>

-----------------------------------------------------------------------------
(* Sessions                                                                *)

Unmounted(cs) == [c \in Slots |-> [cs[c] EXCEPT !.mounted = FALSE]]

\* What setUserId mounts: the name in the header, and a page that was forbidden.
Revealed ==
  CASE LoggedIn \/ page \in NoLayout -> {}
    [] page \in Protected            -> Shown(page) \cup {"user"}
    [] OTHER                         -> {"user"}

\* setUserId: no query is removed, and the forms of the session stay if it had one.
\* A page revealed before the redirect of a logout starts from what its loader
\* read for the user before; that data is not kept here, the tab counts as mixed.
OpenSession(u, cs) ==
  /\ session' = u
  /\ cache' = [k \in Keys |-> IF k \in Revealed THEN QC!Watch(cache[k], IF k \in UserKeys THEN u ELSE NoUser)
                                                ELSE cache[k]]
  /\ calls' = IF LoggedIn THEN cs ELSE Unmounted(cs)
  /\ owed' = IF u = session THEN owed ELSE [k \in UserKeys |-> 0]
  /\ outrun' = IF u = session THEN outrun ELSE {}
  /\ mixed' = (mixed \/ (LoggedIn /\ u # session) \/ (~LoggedIn /\ page \in Protected))
  /\ UNCHANGED <<page, nav, accounts, latest, failures>>

\* A preset user is chosen from the list, if there is one.
DefaultLogin(u) ==
  /\ page = "login" /\ ~Misplaced
  /\ "preset" \in Keys => \E d \in cache["preset"].data : d.ver # Blank
  /\ OpenSession(u, calls)

\* The answer opens a session wherever the user is by now.
LoginAnswered(c) ==
  /\ calls[c].kind = "login" /\ calls[c].at = "done"
  /\ OpenSession(calls[c].user, Finish(c))

\* Mutants: the queries of the user stay; a loader goes on waiting for its query.
LogoutKeeps(c) ==
  /\ calls[c].kind = "logout" /\ calls[c].at = "done"
  /\ session' = NoUser
  /\ calls' = Release(UserKeys, Unmounted(Finish(c)))
  /\ owed' = [k \in UserKeys |-> 0]
  /\ outrun' = {} /\ mixed' = FALSE
  /\ UNCHANGED <<page, nav, cache, accounts, latest, failures>>

LogoutForgetsLoader(c) ==
  /\ calls[c].kind = "logout" /\ calls[c].at = "done"
  /\ session' = NoUser
  /\ cache' = [k \in Keys |-> IF k \in UserKeys THEN QC!Absent ELSE cache[k]]
  /\ calls' = Release(UserKeys, Unmounted(Finish(c)))
  /\ owed' = [k \in UserKeys |-> 0]
  /\ outrun' = {} /\ mixed' = FALSE
  /\ UNCHANGED <<page, nav, accounts, latest, failures>>

\* The session ends, then all queries of its user are removed.
LogoutAnswered(c) ==
  /\ calls[c].kind = "logout" /\ calls[c].at = "done"
  /\ session' = NoUser
  /\ cache' = [k \in Keys |-> IF k \in UserKeys THEN QC!Absent ELSE cache[k]]
  /\ nav' = {[n EXCEPT !.await = IF @ \cap UserKeys = {} THEN @
                                  ELSE (@ \ UserKeys) \cup {"removed"}] : n \in nav}
  /\ calls' = Release(UserKeys, Unmounted(Finish(c)))
  /\ owed' = [k \in UserKeys |-> 0]
  /\ outrun' = {} /\ mixed' = FALSE
  /\ UNCHANGED <<page, accounts, latest, failures>>

-----------------------------------------------------------------------------
Init ==
  /\ session = NoUser
  /\ page = "start"
  /\ nav = {[to |-> "base", await |-> {}]}
  /\ cache = [k \in Keys |-> QC!Absent]
  /\ calls = [c \in Slots |-> Idle]
  /\ accounts = Registered
  /\ latest = [u \in Users |-> [k \in UserKeys |-> 1]]
  /\ failures = 0
  /\ owed = [k \in UserKeys |-> 0]
  /\ outrun = {}
  /\ mixed = FALSE

Moves ==
  \/ \E p \in Visited : Navigate(p)
  \/ \E p \in Reloaded : Reload(p)
  \/ \E t \in Tabs \cap Visited : SwitchTab(t)
  \/ Redirect \/ Arrive \/ LoaderFails

Reads ==
  \/ Focus
  \/ \E k \in Keys : Age(k) \/ Collect(k) \/ Serve(k) \/ Land(k)

Submits ==
  \/ \E u \in Users, form \in Public : Submit(form, u)
  \/ \E form \in MoneyForms : Submit(form, session)
  \/ \E u \in Registered : DefaultLogin(u)
  \/ ClickLogout

Told(c) ==
  \/ Answered(c) \/ FollowUp(c) \/ Refused(c)
  \/ LoginAnswered(c) \/ SignupAnswered(c) \/ LogoutAnswered(c)

Backend ==
  \/ \E c \in Slots : CarryOut(c) \/ AnswerLost(c) \/ Told(c)
  \/ \E u \in Elsewhere, k \in UserKeys : BackendChanges(u, k)

Next == Moves \/ Reads \/ Submits \/ Backend

Spec == Init /\ [][Next]_vars

\* Reads are answered, redirects and arrivals are effects that React runs.
Fairness ==
  /\ WF_vars(Redirect) /\ WF_vars(Arrive) /\ WF_vars(LoaderFails)
  /\ \A k \in Keys : WF_vars(Serve(k)) /\ WF_vars(Land(k))
  /\ \A c \in Slots : WF_vars(CarryOut(c)) /\ WF_vars(Told(c))

FairSpec == Spec /\ Fairness

-----------------------------------------------------------------------------
(* Properties                                                              *)

(* Every variable has its type.                                            *)
TypeOK ==
  /\ session \in Users \cup {NoUser}
  /\ page \in Pages
  /\ nav \in QC!AtMostOne([to : Pages, await : SUBSET (Keys \cup {"removed"})])
  /\ cache \in [Keys -> QC!Entries]
  /\ calls \in [Slots -> [kind : Kinds \cup {"none"}, user : Users \cup {NoUser}, mounted : BOOLEAN,
                at : {"idle", "sent", "lost", "done", "refused", "refreshing", "refreshed", "rereading"}]]
  /\ accounts \in SUBSET Users
  /\ latest \in [Users -> [UserKeys -> 1..MaxVersion]]
  /\ failures \in 0..MaxFailures
  /\ owed \in [UserKeys -> 0..MaxVersion]
  /\ outrun \in SUBSET UserKeys
  /\ mixed \in BOOLEAN

(* The query keys do not name the user, so nothing but the removal at      *)
(* logout keeps one user's data from the next: without a session nothing   *)
(* of a user is cached or being read, and otherwise everything belongs to  *)
(* the session, unless a late answer to LoginForm replaced the session.    *)
NoForeignData ==
  \A k \in UserKeys :
    /\ ~LoggedIn => ~QC!HasData(cache[k]) /\ ~QC!Fetching(cache[k])
    /\ LoggedIn /\ ~mixed => QC!Concerns(cache[k], session)

(* What a user has done is seen: a query that counts as fresh is not older *)
(* than the answer of the call that last invalidated it.  Two cases are    *)
(* not covered, for there the code shows old data as fresh: an empty list  *)
(* that stands for a failed read, and an answer that was already on its    *)
(* way, to a read that the invalidation did not cancel because the query   *)
(* was unobserved or still without data; nothing newer has landed since.   *)
ReadYourWrites ==
  \A k \in UserKeys \ outrun : \A d \in cache[k].data :
    cache[k].fresh /\ d.owner = session /\ d.ver # Blank => d.ver >= owed[k]

(* The router never waits for a read that nobody makes: what a navigation  *)
(* awaits is in flight, whatever was removed, cancelled or invalidated.    *)
AwaitedIsRead ==
  \A n \in nav : \A k \in n.await \ {"removed"} : QC!Fetching(cache[k])

(* A quick trade whose answer waits for the balance, or then for the       *)
(* instruments, waits for a read of it that is under way.                  *)
RefreshIsRead ==
  \A c \in Slots :
    /\ calls[c].at = "refreshing" => QC!Fetching(cache["balance"])
    /\ calls[c].at = "rereading" => QC!Fetching(cache["instruments"])

(* A page that a session, or the lack of one, forbids is left in the end.  *)
GuardsHold == Misplaced ~> ~Misplaced

(* The user who stays on a page sees in the end what his own calls did:    *)
(* invalidation reads again what is shown.  Where an older answer has      *)
(* outrun the invalidation nothing reads again before the data is stale.   *)
CatchesUp(k) ==
  LET Behind == /\ k \in Observed \ outrun
                /\ \E d \in cache[k].data : d.owner = session /\ d.ver < owed[k]
  IN  Behind ~> ~Behind

HoldingsCatchUp == \A k \in UserKeys : CatchesUp(k)
=============================================================================
