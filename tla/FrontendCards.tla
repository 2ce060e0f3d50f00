--------------------------- MODULE FrontendCards ---------------------------
(***************************************************************************)
(* The credit card pages of the frontend, for a user who stays logged in.  *)
(* CreditCardLayout shows the page that the cached status of the order     *)
(* calls for and redirects otherwise; the pages order and revoke cards and *)
(* invalidate the status.  Errors of the API are cached as data, and make  *)
(* the layout or the status page throw.                                    *)
(***************************************************************************)
EXTENDS Naturals, FiniteSets

CONSTANTS
  Slots,        \* calls that may be in flight at the same time
  Entrances,    \* the card pages at which the application may be loaded
  MaxOrders,    \* bound: orders of the account
  MaxFaults     \* bound: failed reads, calls whose answer nobody hears, and acts
                \* of other clients

ASSUME CardPagesAssumption ==
  /\ Entrances \subseteq {"index", "order", "status", "active"}
  /\ MaxOrders \in Nat \ {0} /\ MaxFaults \in Nat

VARIABLES
  page,      \* the page of the router: home, a card page, ErrorPage, or none yet
  nav,       \* the navigation under way, if any: where to, and what it awaits
  cache,     \* the queries status and history
  calls,     \* order and revoke calls in flight
  order,     \* the order of the account: its id, 0 if there is none, and stage
  last,      \* the id given last
  faults,    \* faults that have occurred
  untimely,  \* history: queries that were read while a call changed the order, or
             \* on the way in though there was none, and not since then
  causes     \* history: "hasty", a form has sent a call while another of its kind
             \* was out, or about an order that was gone; "astray", a revocation
             \* has deleted another order than the one it was sent about;
             \* "failed", a read has failed; "abandoned", nobody waits for the
             \* answer to a call any more; "meddled", another client has acted

vars == <<page, nav, cache, calls, order, last, faults, untimely, causes>>

CardPages == {"index", "order", "status", "active"}

Queries == {"status", "history"}

\* What the API answers: an order, that there is none, or an error.
Order(id, stage) == [id |-> id, stage |-> stage]

None == Order(0, "none")

Error == Order(0, "error")

Stages == {"ordered", "card_delivered"}

QC == INSTANCE QueryCache WITH
        Readers <- {"account"},
        Readings <- {None, Error} \cup {Order(id, s) : id \in 1..MaxOrders, s \in Stages}

Idle == [kind |-> "none", for |-> 0, mounted |-> FALSE, at |-> "idle"]

\* What the application cannot help.
Fault(cause) == faults < MaxFaults /\ faults' = faults + 1 /\ causes' = causes \cup {cause}

\* What is left of call s when nobody waits for its answer any more: a request
\* that the backend may still come to see.
Orphaned(s) ==
  IF calls[s].at \in {"sent", "lost"} THEN [calls[s] EXCEPT !.at = "lost", !.mounted = FALSE] ELSE Idle

-----------------------------------------------------------------------------
(* What the layout makes of the status                                     *)

\* The answer that query q holds.
Holds(c, q, r) == \E d \in c[q].data : d.ver = r

\* The page for the status in cache c.
Destination(c) ==
  CASE Holds(c, "status", None) -> "order"
    [] \E d \in c["status"].data : d.ver.stage = "card_delivered" -> "active"
    [] OTHER -> "status"

\* CreditCardLayout renders the page, or a redirect.
Renders(p, c) == p \in CardPages /\ p = Destination(c)

Misdirected == page \in CardPages /\ ~Renders(page, cache)

\* The layout throws on an error, and so does CreditCardStatus if it is rendered.
Throws(p, c) ==
  /\ p \in CardPages
  /\ Holds(c, "status", Error) \/ (p = "status" /\ Renders(p, c) /\ Holds(c, "history", Error))

Observed ==
  CASE page = "status" /\ ~Misdirected -> Queries
    [] page \in CardPages -> {"status"}
    [] OTHER -> {}

\* The page p with the queries c is rendered; what it shows anew is observed.
Render(p, c, cs) ==
  LET shown == IF Throws(p, c) THEN "error" ELSE p
      form(x) == x.mounted /\ Renders(shown, c)
                 /\ shown = (IF x.kind = "revoke" THEN "active" ELSE "order")
      seen == (IF shown \in CardPages /\ page \notin CardPages THEN {"status"} ELSE {})
              \cup (IF shown = "status" /\ Renders(shown, c) /\ "history" \notin Observed
                    THEN {"history"} ELSE {})
  IN  /\ page' = shown
      /\ cache' = [q \in Queries |-> IF q \in seen THEN QC!Watch(c[q], "account") ELSE c[q]]
      /\ calls' = [s \in Slots |-> [cs[s] EXCEPT !.mounted = form(cs[s])]]

-----------------------------------------------------------------------------
(* Navigation                                                              *)

\* A mutant: the history is read on the way to any card page.
AwaitedEarly(from, p) ==
  IF p \in CardPages /\ from \notin CardPages THEN Queries
  ELSE IF p = "status" THEN {"history"} ELSE {}

\* The loaders that run on the way from page from to p: those of routes entered.
Awaited(from, p) ==
  (IF p \in CardPages /\ from \notin CardPages THEN {"status"} ELSE {})
  \cup (IF p = "status" THEN {"history"} ELSE {})

GoTo(from, p, c) ==
  LET needed == Awaited(from, p)
  IN  /\ cache' = [q \in Queries |-> IF q \in needed THEN QC!Ensure(c[q], "account") ELSE c[q]]
      /\ nav' = {[to |-> p, await |-> {q \in needed : ~QC!HasData(c[q])}]}

\* The menu leads to the home page and to the index of the card pages.
Navigate(p) ==
  /\ page \notin {"error", "start", p}
  /\ \A n \in nav : n.to # p
  /\ GoTo(page, p, cache)
  /\ UNCHANGED <<page, calls, order, last, faults, untimely, causes>>

Redirect ==
  /\ Misdirected
  /\ \A n \in nav : n.to # Destination(cache)
  /\ GoTo(page, Destination(cache), cache)
  /\ UNCHANGED <<page, calls, order, last, faults, untimely, causes>>

Arrive ==
  \E n \in nav :
    /\ n.await = {} /\ nav' = {}
    /\ Render(n.to, cache, calls)
    /\ UNCHANGED <<order, last, faults, untimely, causes>>

\* The application is loaded at page p with an empty cache; a call that has been
\* sent may still be carried out.
Reload(p) ==
  /\ page # "start"
  /\ page' = "start"
  /\ GoTo("start", p, [q \in Queries |-> QC!Absent])
  /\ calls' = [s \in Slots |-> Orphaned(s)]
  /\ untimely' = IF p = "status" /\ order = None THEN {"history"} ELSE {}
  /\ IF \E s \in Slots : calls[s].at = "sent" THEN Fault("abandoned") ELSE UNCHANGED <<faults, causes>>
  /\ UNCHANGED <<order, last>>

-----------------------------------------------------------------------------
(* Reads                                                                   *)

Focus ==
  /\ cache' = [q \in Queries |-> IF q \in Observed THEN QC!Watch(cache[q], "account") ELSE cache[q]]
  /\ UNCHANGED <<page, nav, calls, order, last, faults, untimely, causes>>

Age(q) ==
  /\ cache[q].fresh
  /\ cache' = [cache EXCEPT ![q] = QC!Aged(@)]
  /\ UNCHANGED <<page, nav, calls, order, last, faults, untimely, causes>>

Collect(q) ==
  /\ ~cache[q].fresh /\ QC!HasData(cache[q]) /\ ~QC!Fetching(cache[q])
  /\ q \notin Observed /\ nav = {}
  /\ cache' = [cache EXCEPT ![q] = QC!Absent]
  /\ untimely' = untimely \ {q}
  /\ UNCHANGED <<page, nav, calls, order, last, faults, causes>>

\* getOrderStatus takes 404 for an answer, getOrderStatusHistory for an error.
Answer(q) == IF order = None /\ q = "history" THEN Error ELSE order

Serve(q) ==
  /\ \E f \in cache[q].fetch : f.got = {}
  /\ \/ /\ cache' = [cache EXCEPT ![q] = QC!Served(@, Answer(q))]
        /\ UNCHANGED <<faults, causes>>
     \/ /\ Fault("failed")
        /\ cache' = [cache EXCEPT ![q] = QC!Served(@, Error)]
  /\ UNCHANGED <<page, nav, calls, order, last, untimely>>

\* Forms that wait for the status to be read again are done.
Release(cs) == [s \in Slots |-> IF cs[s].at = "refreshing" THEN Idle ELSE cs[s]]

Land(q) ==
  \E f \in cache[q].fetch :
    /\ f.got # {}
    /\ nav' = {[n EXCEPT !.await = @ \ {q}] : n \in nav}
    /\ Render(page, [cache EXCEPT ![q] = QC!Landed(f)], IF q = "status" THEN Release(calls) ELSE calls)
    /\ untimely' = untimely \ {r \in {q} : \A v \in f.got : v # Error /\ v.id = order.id}
    /\ UNCHANGED <<order, last, faults, causes>>

-----------------------------------------------------------------------------
(* Calls                                                                   *)

\* A mutant: the button of a form can be pressed again while it waits.
SendAgain(kind, p, id) ==
  /\ page = p /\ ~Misdirected
  /\ \E s \in Slots :
       /\ calls[s] = Idle
       /\ calls' = [calls EXCEPT ![s] = [kind |-> kind, for |-> id, mounted |-> TRUE, at |-> "sent"]]
  /\ UNCHANGED <<page, nav, cache, order, last, faults, untimely>>

\* A form of page p that is not waiting for an answer sends its call.
Send(kind, p, id) ==
  /\ page = p /\ ~Misdirected
  /\ \A s \in Slots : ~(calls[s].kind = kind /\ calls[s].mounted)
  /\ \E s \in Slots :
       /\ calls[s] = Idle
       /\ calls' = [calls EXCEPT ![s] = [kind |-> kind, for |-> id, mounted |-> TRUE, at |-> "sent"]]
  /\ UNCHANGED <<page, nav, cache, order, last, faults, untimely>>

\* A form that was mounted again knows of no call in flight.
Repeated(kind) == \E s \in Slots : calls[s].kind = kind /\ ~calls[s].mounted

OrderCard ==
  /\ Send("order", "order", 0)
  /\ causes' = IF Repeated("order") THEN causes \cup {"hasty"} ELSE causes

RevokeCard ==
  \E d \in cache["status"].data :
    /\ Send("revoke", "active", d.ver.id)
    /\ causes' = IF Repeated("revoke") \/ order.id # d.ver.id THEN causes \cup {"hasty"} ELSE causes

\* A mutant: the row of the order stays.
DeletedInName == order' = Order(order.id, "none") /\ UNCHANGED last

\* The answer to call s, for whoever still waits for it.
Reply(s, at) == calls' = [calls EXCEPT ![s] = IF @.at = "lost" THEN Idle ELSE [@ EXCEPT !.at = at]]

\* createCreditCardOrder and deleteOrder of the order service, by account.
Created == order = None /\ last < MaxOrders /\ last' = last + 1 /\ order' = Order(last + 1, "ordered")

Deleted == order' = None /\ UNCHANGED last

CarryOut(s) ==
  /\ calls[s].at \in {"sent", "lost"}
  /\ \/ calls[s].kind = "order" /\ Created /\ Reply(s, "done")
     \/ calls[s].kind = "order" /\ order # None /\ Reply(s, "refused") /\ UNCHANGED <<order, last>>
     \/ calls[s].kind = "revoke" /\ Deleted /\ Reply(s, "done")
  /\ untimely' = untimely \cup {q \in Queries : order' # order /\ QC!Fetching(cache[q])}
  /\ causes' = IF calls[s].kind = "revoke" /\ order.id \notin {0, calls[s].for}
                 THEN causes \cup {"astray"} ELSE causes
  /\ UNCHANGED <<page, nav, cache, faults>>

\* Mutants: only the status is invalidated; the form also waits where nothing is
\* read again.
AnsweredForStatus(s) ==
  /\ calls[s].at = "done"
  /\ cache' = [cache EXCEPT !["status"] = QC!Invalidate(@, "account", page \in CardPages)]
  /\ calls' = IF page \in CardPages
                THEN [Release(calls) EXCEPT ![s] = [calls[s] EXCEPT !.at = "refreshing"]]
                ELSE [calls EXCEPT ![s] = Idle]
  /\ UNCHANGED <<page, nav, order, last, faults, untimely, causes>>

AnsweredAndWaits(s) ==
  /\ calls[s].at = "done"
  /\ cache' = [q \in Queries |-> QC!Invalidate(cache[q], "account", q \in Observed)]
  /\ calls' = [Release(calls) EXCEPT ![s] = [calls[s] EXCEPT !.at = "refreshing"]]
  /\ UNCHANGED <<page, nav, order, last, faults, untimely, causes>>

\* Success: status, and history with it, are invalidated; the form waits for the
\* reads that this starts.
Answered(s) ==
  /\ calls[s].at = "done"
  /\ cache' = [q \in Queries |-> QC!Invalidate(cache[q], "account", q \in Observed)]
  /\ calls' = IF page \in CardPages
                THEN [Release(calls) EXCEPT ![s] = [calls[s] EXCEPT !.at = "refreshing"]]
                ELSE [calls EXCEPT ![s] = Idle]
  /\ UNCHANGED <<page, nav, order, last, faults, untimely, causes>>

\* A form is told of a refusal; a call nobody waits for may never arrive.
Refused(s) ==
  /\ calls[s].at \in {"refused", "lost"}
  /\ calls' = [calls EXCEPT ![s] = Idle]
  /\ UNCHANGED <<page, nav, cache, order, last, faults, untimely, causes>>

AnswerLost(s) ==
  /\ calls[s].at \in {"sent", "done"}
  /\ Fault("abandoned")
  /\ calls' = [calls EXCEPT ![s] = Orphaned(s)]
  /\ UNCHANGED <<page, nav, cache, order, last, untimely>>

-----------------------------------------------------------------------------
(* The order moves on, and other clients act                               *)

Delivered ==
  /\ order.stage = "ordered"
  /\ order' = [order EXCEPT !.stage = "card_delivered"]
  /\ UNCHANGED <<page, nav, cache, calls, last, faults, untimely, causes>>

Meddle ==
  /\ Fault("meddled")
  /\ Created \/ (order # None /\ Deleted)
  /\ UNCHANGED <<page, nav, cache, calls, untimely>>

Init ==
  /\ page = "start"
  /\ nav = {[to |-> "home", await |-> {}]}
  /\ cache = [q \in Queries |-> QC!Absent]
  /\ calls = [s \in Slots |-> Idle]
  /\ order = None /\ last = 0
  /\ faults = 0 /\ untimely = {} /\ causes = {}

Moves ==
  \/ Navigate("home") \/ Navigate("index")
  \/ \E p \in Entrances : Reload(p)
  \/ Redirect \/ Arrive

Reads == Focus \/ \E q \in Queries : Age(q) \/ Collect(q) \/ Serve(q) \/ Land(q)

CallSteps ==
  \/ OrderCard \/ RevokeCard
  \/ \E s \in Slots : CarryOut(s) \/ Answered(s) \/ Refused(s) \/ AnswerLost(s)

Next == Moves \/ Reads \/ CallSteps \/ Delivered \/ Meddle

Spec == Init /\ [][Next]_vars

-----------------------------------------------------------------------------
(* Properties                                                              *)

(* Every variable has its type.                                            *)
TypeOK ==
  /\ page \in CardPages \cup {"home", "error", "start"}
  /\ nav \in QC!AtMostOne([to : CardPages \cup {"home"}, await : SUBSET Queries])
  /\ cache \in [Queries -> QC!Entries]
  /\ calls \in [Slots -> [kind : {"none", "order", "revoke"}, for : 0..MaxOrders,
                          mounted : BOOLEAN, at : {"idle", "sent", "done", "refused", "refreshing", "lost"}]]
  /\ order \in {None} \cup {Order(id, s) : id \in 1..MaxOrders, s \in Stages}
  /\ last \in 0..MaxOrders
  /\ faults \in 0..MaxFaults
  /\ untimely \subseteq Queries
  /\ causes \subseteq {"hasty", "astray", "failed", "abandoned", "meddled"}

(* ErrorPage has one way in.  However order, revocation, delivery and the  *)
(* reads of the two queries alternate, however often forms send and calls  *)
(* are lost, a page only breaks on a history read at the wrong time: the   *)
(* read was under way when the order was revoked, or the loader of the     *)
(* status page sent it though there was no order; the 404 is cached, and   *)
(* the next order shows it.  Exempt are failed reads, other clients, and a *)
(* revocation that has deleted an order it was not sent about.             *)
NoCrash ==
  [][page # "error" /\ page' = "error" /\ causes \cap {"astray", "failed", "meddled"} = {}
     => "history" \in untimely]_vars

(* Whoever has ordered or revoked a card comes to see it: once no call is  *)
(* in flight and the queries that a card page observes count as fresh,     *)
(* they are about the order that there is, and not about one before it,    *)
(* also when reads fail.  Exempt is a query whose read was under way while *)
(* the call was carried out and which has not been read since: its old     *)
(* answer may land as a fresh one.  So are calls whose answer nobody hears *)
(* and other clients.                                                      *)
SettledIsCurrent ==
  /\ page \in CardPages /\ causes \cap {"abandoned", "meddled"} = {}
  /\ \A s \in Slots : calls[s] = Idle
  /\ \A q \in Observed : cache[q].fresh /\ ~QC!Fetching(cache[q])
  => \A q \in Observed \ untimely : \A d \in cache[q].data : d.ver = Error \/ d.ver.id = order.id

(* deleteOrder is told the account, not the order: a revocation still only *)
(* deletes the order whose card the page called active, also when reads    *)
(* fail, land late or are overtaken and when answers are lost.  Exempt are *)
(* other clients, and forms that were left and entered again or that show  *)
(* a card already revoked: they may send a second revocation.              *)
RevokesWhatItShows ==
  [][\A s \in Slots :
       /\ calls[s].kind = "revoke" /\ calls[s].at = "sent" /\ calls'[s].at = "done"
       /\ causes \cap {"hasty", "meddled"} = {}
       => order.id \in {0, calls[s].for}]_vars

(* A form that waits for the status waits for a read of it.                *)
FormsAreReleased ==
  (\E s \in Slots : calls[s].at = "refreshing") => QC!Fetching(cache["status"])
=============================================================================
