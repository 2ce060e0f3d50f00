----------------------------- MODULE CardOrders -----------------------------
(***************************************************************************)
(* The credit card order service: requests that create or delete an order, *)
(* the status updates the third party reports, and the WorkScheduler that  *)
(* sends new orders to the manufacturer.  Every SQL statement is a         *)
(* transaction of its own, so each is a step.  A step marked as answered   *)
(* by an error changes nothing more.  A definition marked as a mutant is   *)
(* a later one with a bug in it; nothing else uses it.                     *)
(***************************************************************************)
EXTENDS Integers, Sequences, FiniteSets

CONSTANTS
  OrderIds,         \* GUIDs, one for each order that may be created
  Accounts,         \* account ids
  Clients,          \* create and delete requests; each is one call
  Handlers,         \* status updates that may be in progress at once
  NoCaller,         \* the caller of a handler nobody waits for
  CardKeyGenerated, \* CreditCards.Id gets a value by itself
  MaxTied           \* bound on the rows of an order that share one second

ASSUME CardOrdersAssumption ==
  /\ CardKeyGenerated \in BOOLEAN
  /\ MaxTied \in Nat
  /\ {"unused", "deleted"} \cap Accounts = {}

VARIABLES
  order,     \* CreditCardOrders: the account of each order, or "unused", "deleted"
  shipping,  \* CreditCardOrders.ShippingId, 0 for NULL
  status,    \* CreditCardOrderStatus: the status of the rows of each order, by Id
  recent,    \* how many of the newest rows of each order share their Timestamp
  cards,     \* CreditCards: how many rows each order has
  client,    \* where each create or delete request is
  handler,   \* where each status update is
  work       \* WorkScheduler.run

tables == <<order, shipping, status, recent, cards>>
orderVars == <<tables, client, handler, work>>

-----------------------------------------------------------------------------
Sequence == [order_created |-> 10, card_ordered |-> 20, card_error |-> 30,
             card_created |-> 39, card_shipped |-> 40, card_delivered |-> 50]

StatusTypes == DOMAIN Sequence

Exists(o) == order[o] \in Accounts

OrdersOf(a) == {o \in OrderIds : order[o] = a}

(* ORDER BY Timestamp DESC LIMIT 1: the column holds seconds, rows of the  *)
(* same second tie, and any of them may be returned.                       *)
LastStatuses(o) ==
  {status[o][n] : n \in {k \in DOMAIN status[o] : k > Len(status[o]) - recent[o]}}

(* insertNewStatus.  Any row may share its second with those before it: a  *)
(* request and WorkScheduler write at any time, and a visit of a scheduler *)
(* of the third party that an exception ends returns before its sleep, so  *)
(* that the next one, overdue at its fixed rate, begins at once.           *)
MayTie(o) == recent[o] \in 1..(MaxTied - 1)

InsertNewStatus(o, type) ==
  /\ status' = [status EXCEPT ![o] = Append(@, type)]
  /\ \/ recent' = [recent EXCEPT ![o] = 1]
     \/ MayTie(o) /\ recent' = [recent EXCEPT ![o] = @ + 1]

-----------------------------------------------------------------------------
NewClient == [at |-> "idle", acct |-> "none", id |-> "none"]

NewHandler == [at |-> "idle", id |-> "none", type |-> "none", ship |-> 0,
               caller |-> NoCaller]

Resting == [at |-> "idle", todo |-> {}, current |-> "none"]

OrdersInit ==
  /\ order = [o \in OrderIds |-> "unused"]
  /\ shipping = [o \in OrderIds |-> 0]
  /\ status = [o \in OrderIds |-> <<>>]
  /\ recent = [o \in OrderIds |-> 0]
  /\ cards = [o \in OrderIds |-> 0]
  /\ client = [c \in Clients |-> NewClient]
  /\ handler = [h \in Handlers |-> NewHandler]
  /\ work = Resting

-----------------------------------------------------------------------------
(* createCreditCardOrder                                                   *)

At(c, label) == client' = [client EXCEPT ![c].at = label]

Done(c) == client' = [client EXCEPT ![c] = [NewClient EXCEPT !.at = "done"]]

\* getOrderCountForAccountId found none; a refused request is not a step.
CountOrders(c, a) ==
  /\ client[c].at = "idle" /\ OrdersOf(a) = {}
  /\ client' = [client EXCEPT ![c] = [@ EXCEPT !.at = "insert", !.acct = a]]
  /\ UNCHANGED <<tables, handler, work>>

InsertNewOrder(c) ==
  /\ client[c].at = "insert"
  /\ \E o \in OrderIds :
       /\ order[o] = "unused"
       /\ order' = [order EXCEPT ![o] = client[c].acct]
       /\ client' = [client EXCEPT ![c] = [@ EXCEPT !.at = "status", !.id = o]]
  /\ UNCHANGED <<shipping, status, recent, cards, handler, work>>

\* The foreign key refuses the row of an order deleted in the meantime.
InsertFirstStatus(c) ==
  /\ client[c].at = "status"
  /\ IF Exists(client[c].id) THEN InsertNewStatus(client[c].id, "order_created")
                             ELSE UNCHANGED <<status, recent>>
  /\ Done(c)
  /\ UNCHANGED <<order, shipping, cards, handler, work>>

-----------------------------------------------------------------------------
(* deleteOrder: three statements.  The subquery of the first two fails     *)
(* when the account has two orders, the foreign keys refuse the third      *)
(* while rows refer to the order.                                          *)

\* Mutant of DeleteStatuses: the other two statements are never reached.
DeleteStatusesOnly(c, a) ==
  /\ client[c].at = "idle" /\ Cardinality(OrdersOf(a)) <= 1
  /\ status' = [o \in OrderIds |-> IF order[o] = a THEN <<>> ELSE status[o]]
  /\ recent' = [o \in OrderIds |-> IF order[o] = a THEN 0 ELSE recent[o]]
  /\ Done(c)
  /\ UNCHANGED <<order, shipping, cards, handler, work>>

DeleteStatuses(c, a) ==
  /\ client[c].at = "idle" /\ Cardinality(OrdersOf(a)) <= 1
  /\ status' = [o \in OrderIds |-> IF order[o] = a THEN <<>> ELSE status[o]]
  /\ recent' = [o \in OrderIds |-> IF order[o] = a THEN 0 ELSE recent[o]]
  /\ client' = [client EXCEPT ![c] = [@ EXCEPT !.at = "cards", !.acct = a]]
  /\ UNCHANGED <<order, shipping, cards, handler, work>>

DeleteCards(c) ==
  LET mine == OrdersOf(client[c].acct)
  IN  /\ client[c].at = "cards"
      /\ \/ /\ Cardinality(mine) <= 1
            /\ cards' = [o \in OrderIds |-> IF o \in mine THEN 0 ELSE cards[o]]
            /\ At(c, "orders")
         \/ Cardinality(mine) > 1 /\ Done(c) /\ UNCHANGED cards
      /\ UNCHANGED <<order, shipping, status, recent, handler, work>>

DeleteOrders(c) ==
  LET mine == OrdersOf(client[c].acct)
  IN  /\ client[c].at = "orders"
      /\ IF \A o \in mine : status[o] = <<>> /\ cards[o] = 0
           THEN order' = [o \in OrderIds |-> IF o \in mine THEN "deleted" ELSE order[o]]
           ELSE UNCHANGED order
      /\ Done(c)
      /\ UNCHANGED <<shipping, status, recent, cards, handler, work>>

-----------------------------------------------------------------------------
(* updateStatus: handleNewStatus and actOnNewStatus                        *)

BeginReport(h, o, type, ship, caller) ==
  /\ handler[h].at = "idle"
  /\ handler' = [handler EXCEPT ![h] = [at |-> "read", id |-> o, type |-> type,
                                        ship |-> ship, caller |-> caller]]
  /\ UNCHANGED <<tables, client, work>>

Step(h, label) == handler' = [handler EXCEPT ![h].at = label]

\* Mutant of HandleNewStatus: the status the order already has is accepted.
HandleNewStatusAgain(h) ==
  LET o    == handler[h].id
      type == handler[h].type
  IN  /\ handler[h].at = "read"
      /\ \/ status[o] = <<>> /\ Step(h, "answered")
         \/ \E last \in LastStatuses(o) :
              Step(h, IF Sequence[type] < Sequence[last] THEN "answered"
                      ELSE IF type \in {"card_created", "card_shipped"} THEN "record"
                      ELSE "append")
      /\ UNCHANGED <<tables, client, work>>

\* Mutant of HandleNewStatus: CARD_SHIPPED shares the case of CARD_DELIVERED.
HandleNewStatusFallThrough(h) ==
  LET o    == handler[h].id
      type == handler[h].type
  IN  /\ handler[h].at = "read"
      /\ \/ status[o] = <<>> /\ Step(h, "answered")
         \/ \E last \in LastStatuses(o) :
              Step(h, IF Sequence[type] <= Sequence[last] THEN "answered"
                      ELSE IF type = "card_created" THEN "record"
                      ELSE "append")
      /\ UNCHANGED <<tables, client, work>>

\* Mutant of HandleNewStatus: a refused update is recorded as SEQUENCE_ERROR.
HandleNewStatusRecorded(h) ==
  LET o    == handler[h].id
      type == handler[h].type
  IN  /\ handler[h].at = "read"
      /\ \/ status[o] = <<>> /\ Step(h, "answered")
         \/ \E last \in LastStatuses(o) :
              IF Sequence[type] <= Sequence[last]
                THEN handler' = [handler EXCEPT ![h].at = "append",
                                                ![h].type = "sequence_error"]
                ELSE Step(h, IF type \in {"card_created", "card_shipped"}
                               THEN "record" ELSE "append")
      /\ UNCHANGED <<tables, client, work>>

\* getLastOrderStatus: no status, or a sequence that does not grow, is refused.
HandleNewStatus(h) ==
  LET o    == handler[h].id
      type == handler[h].type
  IN  /\ handler[h].at = "read"
      /\ \/ status[o] = <<>> /\ Step(h, "answered")
         \/ \E last \in LastStatuses(o) :
              Step(h, IF Sequence[type] <= Sequence[last] THEN "answered"
                      ELSE IF type \in {"card_created", "card_shipped"} THEN "record"
                      ELSE "append")
      /\ UNCHANGED <<tables, client, work>>

\* insertNewCreditCard fails without a value for Id or without the order.
InsertNewCreditCard(h) ==
  LET o == handler[h].id
  IN  /\ handler[h].at = "record" /\ handler[h].type = "card_created"
      /\ IF Exists(o) /\ CardKeyGenerated
           THEN cards' = [cards EXCEPT ![o] = @ + 1] /\ Step(h, "append")
           ELSE UNCHANGED cards /\ Step(h, "answered")
      /\ UNCHANGED <<order, shipping, status, recent, client, work>>

\* Mutant of UpdateOrder: the shipping id is written to every order.
UpdateOrders(h) ==
  /\ handler[h].at = "record" /\ handler[h].type = "card_shipped"
  /\ shipping' = [o \in OrderIds |-> IF Exists(o) THEN handler[h].ship ELSE shipping[o]]
  /\ Step(h, "append")
  /\ UNCHANGED <<order, status, recent, cards, client, work>>

UpdateOrder(h) ==
  LET o == handler[h].id
  IN  /\ handler[h].at = "record" /\ handler[h].type = "card_shipped"
      /\ shipping' = IF Exists(o) THEN [shipping EXCEPT ![o] = handler[h].ship] ELSE shipping
      /\ Step(h, "append")
      /\ UNCHANGED <<order, status, recent, cards, client, work>>

AppendStatus(h) ==
  /\ handler[h].at = "append"
  /\ IF Exists(handler[h].id) THEN InsertNewStatus(handler[h].id, handler[h].type)
                              ELSE UNCHANGED <<status, recent>>
  /\ Step(h, "answered")
  /\ UNCHANGED <<order, shipping, cards, client, work>>

-----------------------------------------------------------------------------
(* WorkScheduler.run                                                       *)

\* Mutant of Waiting: an order already sent is sent again.
WaitingOrSent ==
  {o \in OrderIds : status[o] # <<>> /\
                     status[o][Len(status[o])] \in {"order_created", "card_ordered"}}

\* getOrderIdsWithStatusOrderCreated: the newest row by Id decides here.
Waiting ==
  {o \in OrderIds : status[o] # <<>> /\ status[o][Len(status[o])] = "order_created"}

\* A run that finds no order is not a step.
WorkList ==
  /\ work.at = "idle" /\ Waiting # {}
  /\ work' = [work EXCEPT !.at = "next", !.todo = Waiting]
  /\ UNCHANGED <<tables, client, handler>>

\* getCreditCardManufactureData and the POST the manufacturer answers with 200.
WorkPost(o) ==
  /\ work.at = "next" /\ o \in work.todo /\ Exists(o)
  /\ work' = [work EXCEPT !.at = "posted", !.current = o]
  /\ UNCHANGED <<tables, client, handler>>

\* The order is gone: the manufacturer refuses an empty body, and the answer
\* cannot be parsed.  The exception ends the run.
WorkOrderGone(o) ==
  /\ work.at = "next" /\ o \in work.todo /\ ~Exists(o)
  /\ work' = Resting
  /\ UNCHANGED <<tables, client, handler>>

\* insertNewStatus(CARD_ORDERED), whatever the newest status is by now.
WorkOrdered ==
  /\ work.at = "posted"
  /\ IF Exists(work.current)
       THEN /\ InsertNewStatus(work.current, "card_ordered")
            /\ work' = IF work.todo = {work.current} THEN Resting
                       ELSE [work EXCEPT !.at = "next", !.todo = @ \ {work.current},
                                         !.current = "none"]
       ELSE UNCHANGED <<status, recent>> /\ work' = Resting
  /\ UNCHANGED <<order, shipping, cards, client, handler>>

\* Any exception, such as a lost answer, ends the run.
WorkAbort ==
  /\ work.at \in {"next", "posted"}
  /\ work' = Resting
  /\ UNCHANGED <<tables, client, handler>>

-----------------------------------------------------------------------------
\* The process stops: what was in progress is gone, the tables stay.
OrdersCrash ==
  /\ client' = [c \in Clients |-> IF client[c].at = "idle" THEN NewClient
                                  ELSE [NewClient EXCEPT !.at = "done"]]
  /\ handler' = [h \in Handlers |-> NewHandler]
  /\ work' = Resting
  /\ UNCHANGED tables

ClientStep(c) ==
  \/ InsertNewOrder(c) \/ InsertFirstStatus(c)
  \/ DeleteCards(c) \/ DeleteOrders(c)

HandlerStep(h) ==
  HandleNewStatus(h) \/ InsertNewCreditCard(h) \/ UpdateOrder(h) \/ AppendStatus(h)

WorkStep == WorkList \/ WorkOrdered \/ \E o \in OrderIds : WorkOrderGone(o)

=============================================================================
