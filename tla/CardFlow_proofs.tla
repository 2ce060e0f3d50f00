---------------------------- MODULE CardFlow_proofs ----------------------------
(***************************************************************************)
(* Theorems about the credit card orders, for any orders, accounts,        *)
(* requests and updates in progress: that a status is never ahead of the   *)
(* table it speaks of, and that no order is left without a status.         *)
(***************************************************************************)
EXTENDS CardFlow, FiniteSetTheorems, TLAPS

ClientType ==
  [at : {"idle", "insert", "status", "cards", "orders", "done"},
   acct : Accounts \cup {"none"}, id : OrderIds \cup {"none"}]

HandlerType ==
  [at : {"idle", "read", "record", "append", "answered"},
   id : OrderIds \cup {"none"}, type : StatusTypes \cup {"none"},
   ship : Nat, caller : Threads \cup {NoCaller}]

\* The tables, and what is in progress in the order service.
Typed ==
  /\ order \in [OrderIds -> Accounts \cup {"unused", "deleted"}]
  /\ shipping \in [OrderIds -> Nat]
  /\ status \in [OrderIds -> Seq(StatusTypes)]
  /\ cards \in [OrderIds -> Nat]
  /\ client \in [Clients -> ClientType]
  /\ handler \in [Handlers -> HandlerType]

\* What a request or an update may be about.
Sound ==
  /\ \A c \in Clients : client[c].at \in {"insert", "cards", "orders"} => client[c].acct \in Accounts
  /\ \A h \in Handlers : handler[h].at # "idle" => /\ handler[h].id \in OrderIds
                                                  /\ handler[h].type \in StatusTypes

-----------------------------------------------------------------------------
(* The steps, as the order service sees them                               *)

\* A thread of the third party reports a status.
Reported(h) ==
  \E t \in Threads, o \in OrderIds, type \in StatusTypes \ {"order_created", "card_ordered"},
     ship \in Nat :
    /\ type = "card_shipped" => ship # 0 /\ Exists(o)
    /\ BeginReport(h, o, type, ship, t)

\* Updates are answered, or lose the caller who waits for them.
Released(h) == handler'[h] \in {NewHandler, handler[h], [handler[h] EXCEPT !.caller = NoCaller]}

ReleasedAll ==
  /\ UNCHANGED <<tables, client>>
  /\ handler' = [h \in Handlers |-> handler'[h]]
  /\ \A h \in Handlers : Released(h)
  /\ \/ faults < MaxFaults
     \/ \A h \in Handlers : handler[h].at # "answered" => handler'[h] = handler[h]

LEMMA StatusTypesFact ==
  StatusTypes = {"order_created", "card_ordered", "card_error", "card_created",
                 "card_shipped", "card_delivered"}
BY DEF StatusTypes, Sequence

LEMMA TwoThreads == Threads = {"manufacture", "courier"}
BY DEF Threads

LEMMA ReportCases ==
  ASSUME NEW t \in Threads, NEW o \in OrderIds,
         NEW type \in StatusTypes \ {"order_created", "card_ordered"}, NEW ship \in Nat,
         type = "card_shipped" => ship # 0 /\ Exists(o),
         Report(t, o, type, ship)
  PROVE  \/ \E h \in Handlers : Reported(h)
         \/ UNCHANGED <<tables, client, handler>>
BY DEF Report, Reported, orderVars

LEMMA FaultCases ==
  ASSUME Typed, Faults
  PROVE  \/ UNCHANGED <<tables, client, handler>>
         \/ ReleasedAll
         \/ OrdersCrash /\ faults < MaxFaults
<1>1. faults < MaxFaults
  BY DEF Faults, Fault
<1>2. ASSUME NEW t \in Threads, Break(t) PROVE ReleasedAll
  BY <1>1, <1>2 DEF Break, ReleasedAll, Released
<1>3. ASSUME ThirdPartyStops PROVE ReleasedAll
  BY <1>1, <1>3 DEF ThirdPartyStops, ReleasedAll, Released
<1>4. WorkAbort \/ UNCHANGED orderVars => UNCHANGED <<tables, client, handler>>
  BY DEF WorkAbort, orderVars
<1> QED BY <1>1, <1>2, <1>3, <1>4 DEF Faults, OrderServiceStops

LEMMA AnswerCases ==
  ASSUME Typed, NEW h \in Handlers, Answer(h)
  PROVE  ReleasedAll
<1>1. UNCHANGED <<tables, client>> /\ handler' = [handler EXCEPT ![h] = NewHandler] /\ handler[h].at = "answered"
  BY DEF Answer
<1>2. handler' = [g \in Handlers |-> handler'[g]]
  BY <1>1 DEF Typed
<1>3. \A g \in Handlers : handler'[g] = IF g = h THEN NewHandler ELSE handler[g]
  BY <1>1 DEF Typed
<1> QED BY <1>1, <1>2, <1>3 DEF ReleasedAll, Released

LEMMA StepCases ==
  ASSUME Typed, [Next]_vars
  PROVE  \/ \E c \in Clients, a \in Accounts : CountOrders(c, a)
         \/ Deletable /\ \E c \in Clients, a \in Accounts : DeleteStatuses(c, a)
         \/ \E c \in Clients : ClientStep(c)
         \/ WorkOrdered
         \/ \E h \in Handlers : HandlerStep(h)
         \/ \E h \in Handlers : Reported(h)
         \/ UNCHANGED <<tables, client, handler>>
         \/ ReleasedAll
         \/ OrdersCrash /\ faults < MaxFaults
<1>1. CASE Requests
  BY <1>1 DEF Requests, OrderService
<1>2. CASE Scheduled
  BY <1>2 DEF Scheduled, OrderService, WorkStep, WorkList, WorkOrderGone, PostManufacture, WorkPost
<1>3. CASE Manufacture
  <2>1. ASSUME NEW o \in OrderIds, NEW type \in {"card_error", "card_created"},
               ManufacturerReports(o, type)
        PROVE  \/ \E h \in Handlers : Reported(h)
               \/ UNCHANGED <<tables, client, handler>>
    BY <2>1, ReportCases, StatusTypesFact, TwoThreads DEF ManufacturerReports
  <2>2. Third(ManufactureStep) \/ (\E o \in OrderIds : HandOverInTime(o)) => UNCHANGED orderVars
    BY DEF Third, HandOverInTime
  <2> QED BY <1>3, <2>1, <2>2 DEF Manufacture, orderVars
<1>4. CASE Courier
  <2>1. ASSUME NEW o \in OrderIds, CourierReportsShipped(o)
        PROVE  \/ \E h \in Handlers : Reported(h)
               \/ UNCHANGED <<tables, client, handler>>
    <3>1. PICK ship \in FreshShippingIds : Report("courier", o, "card_shipped", ship)
      BY <2>1 DEF CourierReportsShipped
    <3>2. ship \in Nat /\ ship # 0
      BY DEF FreshShippingIds
    <3> QED BY <2>1, <3>1, <3>2, ReportCases, StatusTypesFact, TwoThreads DEF CourierReportsShipped
  <2>2. ASSUME NEW o \in OrderIds, CourierReportsDelivered(o)
        PROVE  \/ \E h \in Handlers : Reported(h)
               \/ UNCHANGED <<tables, client, handler>>
    BY <2>2, ReportCases, StatusTypesFact, TwoThreads DEF CourierReportsDelivered
  <2>3. Third(CourierStep) \/ (\E o \in OrderIds : CourierFindsNoAddress(o)) => UNCHANGED orderVars
    BY DEF Third, CourierFindsNoAddress
  <2> QED BY <1>4, <2>1, <2>2, <2>3 DEF Courier, orderVars
<1>5. ASSUME NEW h \in Handlers, Serve(h)
      PROVE  HandlerStep(h) \/ ReleasedAll
  BY <1>5, AnswerCases DEF Serve, OrderService
<1>6. (\E t \in Threads : GiveUp(t)) \/ Third(CrisisBegins) \/ Third(CrisisEnds) \/ UNCHANGED vars
        => UNCHANGED orderVars
  BY DEF GiveUp, Third, vars
<1> QED BY <1>1, <1>2, <1>3, <1>4, <1>5, <1>6, FaultCases DEF Next, orderVars

-----------------------------------------------------------------------------
(* Types are preserved                                                     *)

LEMMA AppendedStatus ==
  ASSUME Typed, NEW o, NEW type \in StatusTypes, InsertNewStatus(o, type)
  PROVE  /\ status' \in [OrderIds -> Seq(StatusTypes)]
         /\ \A p \in OrderIds :
              status'[p] = IF p = o THEN Append(status[p], type) ELSE status[p]
<1>1. status' = [status EXCEPT ![o] = Append(status[o], type)] /\ status \in [OrderIds -> Seq(StatusTypes)]
  BY DEF Typed, InsertNewStatus
<1>2. \A p \in OrderIds : Append(status[p], type) \in Seq(StatusTypes)
  BY <1>1
<1> QED BY <1>1, <1>2

LEMMA InitTyped == Init => Typed /\ Sound
BY DEF Init, OrdersInit, NewClient, NewHandler, Typed, Sound, ClientType, HandlerType

LEMMA ClientTyped ==
  ASSUME Typed, Sound, NEW c \in Clients,
         \/ \E a \in Accounts : CountOrders(c, a) \/ DeleteStatuses(c, a)
         \/ ClientStep(c)
  PROVE  Typed' /\ Sound'
<1>1. ASSUME NEW x \in ClientType, x.at \in {"insert", "cards", "orders"} => x.acct \in Accounts,
             client' = [client EXCEPT ![c] = x]
      PROVE  /\ client' \in [Clients -> ClientType]
             /\ \A d \in Clients : client'[d].at \in {"insert", "cards", "orders"}
                                     => client'[d].acct \in Accounts
  BY <1>1 DEF Typed, Sound
<1>2. client[c] \in ClientType /\ [NewClient EXCEPT !.at = "done"] \in ClientType
  BY DEF Typed, NewClient, ClientType
<1>3. Done(c) => /\ client' \in [Clients -> ClientType]
                 /\ \A d \in Clients : client'[d].at \in {"insert", "cards", "orders"}
                                         => client'[d].acct \in Accounts
  BY <1>1, <1>2 DEF Done, NewClient
<1>4. ASSUME NEW a \in Accounts, CountOrders(c, a) PROVE Typed' /\ Sound'
  <2>1. [client[c] EXCEPT !.at = "insert", !.acct = a] \in ClientType
    BY <1>2 DEF ClientType
  <2>2. [client[c] EXCEPT !.at = "insert", !.acct = a].acct = a
    BY <1>2 DEF ClientType
  <2>3. UNCHANGED <<tables, handler>>
    BY <1>4 DEF CountOrders
  <2>4. client' = [client EXCEPT ![c] = [client[c] EXCEPT !.at = "insert", !.acct = a]]
    BY <1>4 DEF CountOrders
  <2> QED BY <1>1, <2>1, <2>2, <2>3, <2>4 DEF Typed, Sound, tables
<1>5. ASSUME NEW a \in Accounts, DeleteStatuses(c, a) PROVE Typed' /\ Sound'
  <2>1. [client[c] EXCEPT !.at = "cards", !.acct = a] \in ClientType
    BY <1>2 DEF ClientType
  <2>2. [client[c] EXCEPT !.at = "cards", !.acct = a].acct = a
    BY <1>2 DEF ClientType
  <2>3. UNCHANGED <<order, shipping, cards, handler>>
    BY <1>5 DEF DeleteStatuses
  <2>4. client' = [client EXCEPT ![c] = [client[c] EXCEPT !.at = "cards", !.acct = a]]
    BY <1>5 DEF DeleteStatuses
  <2>5. status' \in [OrderIds -> Seq(StatusTypes)]
    <3>1. << >> \in Seq(StatusTypes) /\ \A o \in OrderIds : status[o] \in Seq(StatusTypes)
      BY DEF Typed
    <3> QED BY <1>5, <3>1 DEF DeleteStatuses
  <2> QED BY <1>1, <2>1, <2>2, <2>3, <2>4, <2>5 DEF Typed, Sound
<1>6. ASSUME InsertNewOrder(c) PROVE Typed' /\ Sound'
  <2>1. PICK o \in OrderIds :
          /\ order' = [order EXCEPT ![o] = client[c].acct]
          /\ client' = [client EXCEPT ![c] = [client[c] EXCEPT !.at = "status", !.id = o]]
    BY <1>6 DEF InsertNewOrder
  <2>2. /\ [client[c] EXCEPT !.at = "status", !.id = o] \in ClientType
        /\ [client[c] EXCEPT !.at = "status", !.id = o].at = "status"
    BY <1>2 DEF ClientType
  <2>3. client[c].acct \in Accounts
    BY <1>6 DEF InsertNewOrder, Sound
  <2>4. order' \in [OrderIds -> Accounts \cup {"unused", "deleted"}]
    BY <2>1, <2>3 DEF Typed
  <2> QED BY <1>1, <1>6, <2>1, <2>2, <2>4 DEF InsertNewOrder, Typed, Sound
<1>7. ASSUME InsertFirstStatus(c) PROVE Typed' /\ Sound'
  <2>1. status' \in [OrderIds -> Seq(StatusTypes)]
    BY <1>7, AppendedStatus, StatusTypesFact DEF InsertFirstStatus, Typed
  <2> QED BY <1>3, <1>7, <2>1 DEF InsertFirstStatus, Typed, Sound
<1>8. ASSUME DeleteCards(c) PROVE Typed' /\ Sound'
  <2>1. cards' \in [OrderIds -> Nat]
    BY <1>8 DEF DeleteCards, Typed
  <2>2. At(c, "orders") => /\ client' \in [Clients -> ClientType]
                           /\ \A d \in Clients : client'[d].at \in {"insert", "cards", "orders"}
                                                   => client'[d].acct \in Accounts
    <3>1. client[c].acct \in Accounts
      BY <1>8 DEF DeleteCards, Sound
    <3>2. /\ [client[c] EXCEPT !.at = "orders"] \in ClientType
          /\ [client[c] EXCEPT !.at = "orders"].acct = client[c].acct
      BY <1>2 DEF ClientType
    <3> QED BY <1>1, <3>1, <3>2 DEF At
  <2> QED BY <1>3, <1>8, <2>1, <2>2 DEF DeleteCards, Typed, Sound
<1>9. ASSUME DeleteOrders(c) PROVE Typed' /\ Sound'
  <2>1. order' \in [OrderIds -> Accounts \cup {"unused", "deleted"}]
    BY <1>9 DEF DeleteOrders, Typed
  <2> QED BY <1>3, <1>9, <2>1 DEF DeleteOrders, Typed, Sound
<1> QED BY <1>4, <1>5, <1>6, <1>7, <1>8, <1>9 DEF ClientStep

\* An update moves on, and keeps what it is about.
LEMMA StepFields ==
  ASSUME Typed, NEW h \in Handlers, NEW label, Step(h, label)
  PROVE  \A g \in Handlers : /\ handler'[g].id = handler[g].id
                             /\ handler'[g].type = handler[g].type
                             /\ handler'[g].ship = handler[g].ship
                             /\ handler'[g].at = IF g = h THEN label ELSE handler[g].at
<1>1. handler \in [Handlers -> HandlerType] /\ handler[h] \in HandlerType
  BY DEF Typed
<1>2. handler' = [handler EXCEPT ![h] = [handler[h] EXCEPT !.at = label]]
  BY <1>1 DEF Step
<1>3. /\ [handler[h] EXCEPT !.at = label].at = label
      /\ [handler[h] EXCEPT !.at = label].id = handler[h].id
      /\ [handler[h] EXCEPT !.at = label].type = handler[h].type
      /\ [handler[h] EXCEPT !.at = label].ship = handler[h].ship
  BY <1>1 DEF HandlerType
<1> QED BY <1>1, <1>2, <1>3

LEMMA StepTyped ==
  ASSUME Typed, Sound, NEW h \in Handlers, NEW label \in {"read", "record", "append", "answered"},
         handler[h].at # "idle", Step(h, label)
  PROVE  /\ handler' \in [Handlers -> HandlerType]
         /\ \A g \in Handlers : handler'[g].at # "idle" => /\ handler'[g].id \in OrderIds
                                                         /\ handler'[g].type \in StatusTypes
<1>1. handler \in [Handlers -> HandlerType] /\ handler[h] \in HandlerType
  BY DEF Typed
<1>2. handler' = [handler EXCEPT ![h] = [handler[h] EXCEPT !.at = label]]
  BY <1>1 DEF Step
<1>3. [handler[h] EXCEPT !.at = label] \in HandlerType
  BY <1>1 DEF HandlerType
<1>4. handler' \in [Handlers -> HandlerType]
  BY <1>1, <1>2, <1>3
<1> QED BY <1>4, StepFields DEF Sound

\* Where the status read lets an update go.
LEMMA JudgedStep ==
  ASSUME NEW h \in Handlers, HandleNewStatus(h)
  PROVE  \E label \in {"answered", "record", "append"} :
           /\ Step(h, label)
           /\ label = "append" => handler[h].type \notin {"card_created", "card_shipped"}
BY DEF HandleNewStatus

LEMMA HandlerTyped ==
  ASSUME Typed, Sound, NEW h \in Handlers, HandlerStep(h)
  PROVE  Typed' /\ Sound'
<1>1. CASE HandleNewStatus(h)
  <2>1. PICK label \in {"answered", "record", "append"} : Step(h, label)
    BY <1>1, JudgedStep
  <2>2. UNCHANGED <<tables, client>> /\ handler[h].at = "read"
    BY <1>1 DEF HandleNewStatus
  <2> QED BY <2>1, <2>2, StepTyped DEF Typed, Sound, tables
<1>2. CASE InsertNewCreditCard(h)
  <2>1. cards' \in [OrderIds -> Nat]
    <3>1. cards' = [cards EXCEPT ![handler[h].id] = cards[handler[h].id] + 1] \/ cards' = cards
      BY <1>2 DEF InsertNewCreditCard
    <3> QED BY <3>1 DEF Typed
  <2> QED BY <1>2, <2>1, StepTyped DEF InsertNewCreditCard, Typed, Sound
<1>3. CASE UpdateOrder(h)
  <2>1. shipping' \in [OrderIds -> Nat]
    BY <1>3 DEF UpdateOrder, Typed, HandlerType
  <2> QED BY <1>3, <2>1, StepTyped DEF UpdateOrder, Typed, Sound
<1>4. CASE AppendStatus(h)
  <2>1. handler[h].type \in StatusTypes
    BY <1>4 DEF AppendStatus, Sound
  <2>2. status' \in [OrderIds -> Seq(StatusTypes)]
    BY <1>4, <2>1, AppendedStatus DEF AppendStatus, Typed
  <2> QED BY <1>4, <2>2, StepTyped DEF AppendStatus, Typed, Sound
<1> QED BY <1>1, <1>2, <1>3, <1>4 DEF HandlerStep

LEMMA ReportTyped ==
  ASSUME Typed, Sound, NEW h \in Handlers, Reported(h)
  PROVE  Typed' /\ Sound'
<1>1. PICK t \in Threads, o \in OrderIds, type \in StatusTypes, ship \in Nat :
        BeginReport(h, o, type, ship, t)
  BY DEF Reported
<1> DEFINE x == [at |-> "read", id |-> o, type |-> type, ship |-> ship, caller |-> t]
<1>2. x \in HandlerType /\ x.id \in OrderIds /\ x.type \in StatusTypes
  BY DEF HandlerType
<1>3. handler' = [handler EXCEPT ![h] = x] /\ UNCHANGED <<tables, client>>
  BY <1>1 DEF BeginReport
<1> HIDE DEF x
<1> QED BY <1>2, <1>3 DEF Typed, Sound, tables

LEMMA ReleasedTyped ==
  ASSUME Typed, Sound, NEW h \in Handlers, Released(h)
  PROVE  /\ handler'[h] \in HandlerType
         /\ handler'[h].at # "idle" =>
              /\ handler[h].at = handler'[h].at /\ handler[h].id = handler'[h].id
              /\ handler[h].type = handler'[h].type /\ handler[h].ship = handler'[h].ship
<1>1. handler[h] \in HandlerType /\ NewHandler \in HandlerType /\ NewHandler.at = "idle"
  BY DEF Typed, NewHandler, HandlerType
<1> QED BY <1>1 DEF Released, HandlerType

LEMMA TypedNext ==
  ASSUME Typed, Sound, [Next]_vars
  PROVE  Typed' /\ Sound'
<1>1. CASE WorkOrdered
  <2>1. status' \in [OrderIds -> Seq(StatusTypes)]
    BY <1>1, AppendedStatus, StatusTypesFact DEF WorkOrdered, Typed
  <2> QED BY <1>1, <2>1 DEF WorkOrdered, Typed, Sound
<1>2. CASE ReleasedAll
  <2>1. handler' \in [Handlers -> HandlerType]
    BY <1>2, ReleasedTyped DEF ReleasedAll
  <2>2. \A h \in Handlers : handler'[h].at # "idle" => /\ handler'[h].id \in OrderIds
                                                      /\ handler'[h].type \in StatusTypes
    BY <1>2, ReleasedTyped DEF ReleasedAll, Sound
  <2> QED BY <1>2, <2>1, <2>2 DEF ReleasedAll, tables, Typed, Sound
<1>3. CASE OrdersCrash
  BY <1>3 DEF OrdersCrash, tables, Typed, Sound, NewClient, NewHandler, ClientType, HandlerType
<1>4. CASE UNCHANGED <<tables, client, handler>>
  BY <1>4 DEF tables, Typed, Sound
<1> QED BY <1>1, <1>2, <1>3, <1>4, StepCases, ClientTyped, HandlerTyped, ReportTyped

-----------------------------------------------------------------------------
(* A status is never ahead of the tables                                   *)

NoDeletes == \A c \in Clients : client[c].at \notin {"cards", "orders"}

BackedBy(o, type) ==
  /\ type = "card_created" => cards[o] >= 1
  /\ type = "card_shipped" => shipping[o] # 0

\* What an update is about to write is true already, and a parcel is for an
\* order there is.
Backing ==
  \A h \in Handlers :
    /\ handler[h].at = "append" => BackedBy(handler[h].id, handler[h].type)
    /\ handler[h].at # "idle" /\ handler[h].type = "card_shipped" =>
         handler[h].ship # 0 /\ Exists(handler[h].id)

BInv == Typed /\ Sound /\ NoDeletes /\ Backing /\ StatusIsBacked

LEMMA TypesAppended ==
  ASSUME NEW S, NEW s \in Seq(S), NEW type \in S
  PROVE  Range(Append(s, type)) = Range(s) \cup {type}
<1> DEFINE t == Append(s, type)
<1>1. /\ DOMAIN s = 1..Len(s) /\ DOMAIN t = 1..Len(s) + 1 /\ Len(s) \in Nat
      /\ \A k \in 1..Len(s) : t[k] = s[k]
      /\ t[Len(s) + 1] = type
  OBVIOUS
<1> HIDE DEF t
<1>2. \A k \in DOMAIN t : k \in DOMAIN s \/ k = Len(s) + 1
  BY <1>1
<1> QED BY <1>1, <1>2 DEF Range

LEMMA BackedTypes ==
  StatusIsBacked <=> \A o \in OrderIds : \A type \in TypesOf(o) : BackedBy(o, type)
BY DEF StatusIsBacked, BackedBy

LEMMA BackedRow ==
  ASSUME Typed, StatusIsBacked, NEW o, NEW type \in StatusTypes, InsertNewStatus(o, type),
         o \in OrderIds => BackedBy(o, type), UNCHANGED <<shipping, cards>>
  PROVE  StatusIsBacked'
<1>1. ASSUME NEW p \in OrderIds, NEW t \in TypesOf(p)' PROVE BackedBy(p, t)'
  <2>1. status[p] \in Seq(StatusTypes)
    BY DEF Typed
  <2>2. status'[p] = IF p = o THEN Append(status[p], type) ELSE status[p]
    BY AppendedStatus
  <2>3. t \in TypesOf(p) \/ (p = o /\ t = type)
    BY <2>1, <2>2, TypesAppended DEF TypesOf
  <2>4. BackedBy(p, t)
    BY <2>3, BackedTypes
  <2> QED BY <2>4 DEF BackedBy
<1> QED BY <1>1 DEF StatusIsBacked, BackedBy

\* The tables but the orders stay, and orders only come.
LEMMA BackedSame ==
  ASSUME StatusIsBacked, UNCHANGED <<shipping, status, cards>>
  PROVE  StatusIsBacked'
BY DEF StatusIsBacked, TypesOf

LEMMA BackingSame ==
  ASSUME Backing, UNCHANGED <<shipping, cards, handler>>,
         \A o : Exists(o) => Exists(o)'
  PROVE  Backing'
BY DEF Backing, BackedBy

LEMMA BackingInit == Init => NoDeletes /\ Backing /\ StatusIsBacked
<1> SUFFICES ASSUME Init PROVE NoDeletes /\ Backing /\ StatusIsBacked
  OBVIOUS
<1>1. NoDeletes /\ Backing
  BY DEF Init, OrdersInit, NewClient, NewHandler, NoDeletes, Backing
<1>2. \A o \in OrderIds : TypesOf(o) = {}
  BY DEF Init, OrdersInit, TypesOf, Range
<1> QED BY <1>1, <1>2 DEF StatusIsBacked

LEMMA ClientBacked ==
  ASSUME BInv, NEW c \in Clients,
         (\E a \in Accounts : CountOrders(c, a)) \/ ClientStep(c)
  PROVE  NoDeletes' /\ Backing' /\ StatusIsBacked'
<1>1. client \in [Clients -> ClientType] /\ client[c] \in ClientType
  BY DEF BInv, Typed
<1>2. ASSUME NEW a \in Accounts, CountOrders(c, a) PROVE NoDeletes' /\ Backing' /\ StatusIsBacked'
  <2>1. NoDeletes'
    BY <1>1, <1>2 DEF CountOrders, BInv, NoDeletes, ClientType
  <2> QED BY <1>2, <2>1, BackedSame, BackingSame DEF CountOrders, BInv, tables, Exists
<1>3. ASSUME InsertNewOrder(c) PROVE NoDeletes' /\ Backing' /\ StatusIsBacked'
  <2>1. NoDeletes'
    BY <1>1, <1>3 DEF InsertNewOrder, BInv, NoDeletes, ClientType
  <2>2. \A o : Exists(o) => Exists(o)'
    BY <1>3, CardOrdersAssumption DEF InsertNewOrder, BInv, Typed, Sound, Exists
  <2> QED BY <1>3, <2>1, <2>2, BackedSame, BackingSame DEF InsertNewOrder, BInv
<1>4. ASSUME InsertFirstStatus(c) PROVE NoDeletes' /\ Backing' /\ StatusIsBacked'
  <2>1. NoDeletes'
    BY <1>1, <1>4 DEF InsertFirstStatus, Done, NewClient, BInv, NoDeletes
  <2>2. StatusIsBacked'
    BY <1>4, BackedRow, BackedSame, StatusTypesFact DEF InsertFirstStatus, BInv, BackedBy
  <2> QED BY <1>4, <2>1, <2>2, BackingSame DEF InsertFirstStatus, BInv, Exists
<1> QED BY <1>2, <1>3, <1>4 DEF ClientStep, DeleteCards, DeleteOrders, BInv, NoDeletes

\* An update that has not yet written its row.
LEMMA MovedBacking ==
  ASSUME BInv, NEW h \in Handlers, NEW label \in {"read", "record", "append", "answered"},
         handler[h].at # "idle", Step(h, label), UNCHANGED order,
         label = "append" => BackedBy(handler[h].id, handler[h].type)',
         \A o \in OrderIds : \A type : BackedBy(o, type) => BackedBy(o, type)'
  PROVE  Backing'
<1>1. \A g \in Handlers : /\ handler'[g].id = handler[g].id
                          /\ handler'[g].type = handler[g].type
                          /\ handler'[g].ship = handler[g].ship
                          /\ handler'[g].at = IF g = h THEN label ELSE handler[g].at
  BY StepFields DEF BInv
<1>2. ASSUME NEW g \in Handlers, handler'[g].at = "append"
      PROVE  BackedBy(handler[g].id, handler[g].type)'
  <2>1. CASE g # h
    <3>1. handler[g].id \in OrderIds /\ BackedBy(handler[g].id, handler[g].type)
      BY <1>1, <1>2, <2>1 DEF BInv, Backing, Sound
    <3>2. ASSUME NEW o \in OrderIds, NEW type, BackedBy(o, type),
                 o = handler'[g].id, type = handler'[g].type
          PROVE  BackedBy(handler[g].id, handler[g].type)'
      BY <3>2 DEF BackedBy
    <3> QED BY <1>1, <3>1, <3>2
  <2> QED BY <1>1, <1>2, <2>1
<1>3. ASSUME NEW g \in Handlers, handler'[g].at # "idle", handler'[g].type = "card_shipped"
      PROVE  handler'[g].ship # 0 /\ Exists(handler[g].id)'
  BY <1>1, <1>3 DEF BInv, Backing, Exists
<1> QED BY <1>2, <1>3 DEF Backing

LEMMA HandlerBacked ==
  ASSUME BInv, NEW h \in Handlers, HandlerStep(h)
  PROVE  Backing' /\ StatusIsBacked'
<1>1. CASE HandleNewStatus(h)
  <2>1. PICK label \in {"answered", "record", "append"} :
          Step(h, label) /\ (label = "append" => handler[h].type \notin {"card_created", "card_shipped"})
    BY <1>1, JudgedStep
  <2>2. UNCHANGED tables /\ handler[h].at = "read"
    BY <1>1 DEF HandleNewStatus
  <2>3. handler'[h].type = handler[h].type
    BY <2>1, <2>2, StepFields DEF BInv
  <2> QED BY <2>1, <2>2, <2>3, MovedBacking, BackedSame DEF BInv, BackedBy, tables
<1>2. CASE InsertNewCreditCard(h)
  <2> DEFINE o == handler[h].id
  <2>1. handler[h].at = "record" /\ handler[h].type = "card_created" /\ o \in OrderIds
    BY <1>2 DEF InsertNewCreditCard, BInv, Sound
  <2>2. UNCHANGED <<order, shipping, status>>
    BY <1>2 DEF InsertNewCreditCard
  <2>3. PICK label \in {"append", "answered"} :
          /\ Step(h, label)
          /\ label = "append" => cards' = [cards EXCEPT ![o] = cards[o] + 1]
          /\ label = "answered" => cards' = cards
    BY <1>2 DEF InsertNewCreditCard
  <2>4. /\ \A p \in OrderIds : cards'[p] >= cards[p] /\ cards[p] \in Nat /\ cards'[p] \in Nat
        /\ label = "append" => cards'[o] >= 1
    <3>1. cards \in [OrderIds -> Nat]
      BY DEF BInv, Typed
    <3>2. ASSUME NEW p \in OrderIds
          PROVE  /\ cards[p] \in Nat
                 /\ cards'[p] = IF label = "append" /\ p = o THEN cards[p] + 1 ELSE cards[p]
      BY <2>3, <3>1
    <3> QED BY <2>1, <3>2
  <2>5. handler'[h].id = o /\ handler'[h].type = "card_created"
    BY <2>1, <2>3, StepFields DEF BInv
  <2>6. \A p \in OrderIds : \A type : BackedBy(p, type) => BackedBy(p, type)'
    BY <2>2, <2>4 DEF BackedBy
  <2>7. StatusIsBacked'
    BY <2>2, <2>6, BackedTypes DEF BInv, TypesOf, StatusIsBacked, BackedBy
  <2>8. label = "append" => BackedBy(handler[h].id, handler[h].type)'
    BY <2>4, <2>5 DEF BackedBy
  <2> QED BY <2>1, <2>2, <2>3, <2>6, <2>7, <2>8, MovedBacking
<1>3. CASE UpdateOrder(h)
  <2> DEFINE o == handler[h].id
  <2>1. /\ handler[h].at = "record" /\ handler[h].type = "card_shipped" /\ o \in OrderIds
        /\ handler[h].ship # 0 /\ Exists(o)
    BY <1>3 DEF UpdateOrder, BInv, Sound, Backing
  <2>2. UNCHANGED <<order, status, cards>> /\ Step(h, "append")
    BY <1>3 DEF UpdateOrder
  <2>3. shipping' = [shipping EXCEPT ![o] = handler[h].ship]
    BY <1>3, <2>1 DEF UpdateOrder
  <2>4. shipping'[o] # 0 /\ \A p \in OrderIds : shipping[p] # 0 => shipping'[p] # 0
    BY <2>1, <2>3 DEF BInv, Typed
  <2>5. handler'[h].id = o /\ handler'[h].type = "card_shipped"
    BY <2>1, <2>2, StepFields DEF BInv
  <2>6. \A p \in OrderIds : \A type : BackedBy(p, type) => BackedBy(p, type)'
    BY <2>2, <2>4 DEF BackedBy
  <2>7. StatusIsBacked'
    BY <2>2, <2>6, BackedTypes DEF BInv, TypesOf, StatusIsBacked, BackedBy
  <2>8. BackedBy(handler[h].id, handler[h].type)'
    BY <2>4, <2>5 DEF BackedBy
  <2> QED BY <2>1, <2>2, <2>6, <2>7, <2>8, MovedBacking
<1>4. CASE AppendStatus(h)
  <2> DEFINE o == handler[h].id
  <2>1. /\ handler[h].at = "append" /\ o \in OrderIds /\ handler[h].type \in StatusTypes
        /\ BackedBy(o, handler[h].type)
    BY <1>4 DEF AppendStatus, BInv, Sound, Backing
  <2>2. UNCHANGED <<order, shipping, cards>> /\ Step(h, "answered")
    BY <1>4 DEF AppendStatus
  <2>3. StatusIsBacked'
    BY <1>4, <2>1, <2>2, BackedRow, BackedSame DEF AppendStatus, BInv
  <2> QED BY <2>1, <2>2, <2>3, MovedBacking DEF BackedBy
<1> QED BY <1>1, <1>2, <1>3, <1>4 DEF HandlerStep

LEMMA ReportBacked ==
  ASSUME BInv, NEW h \in Handlers, Reported(h)
  PROVE  Backing' /\ StatusIsBacked'
<1>1. PICK t \in Threads, o \in OrderIds, type \in StatusTypes, ship \in Nat :
        /\ type = "card_shipped" => ship # 0 /\ Exists(o)
        /\ BeginReport(h, o, type, ship, t)
  BY DEF Reported
<1> DEFINE x == [at |-> "read", id |-> o, type |-> type, ship |-> ship, caller |-> t]
<1>2. x.at = "read" /\ x.id = o /\ x.type = type /\ x.ship = ship
  OBVIOUS
<1>3. handler' = [handler EXCEPT ![h] = x] /\ UNCHANGED tables
  BY <1>1 DEF BeginReport
<1> HIDE DEF x
<1>4. \A g \in Handlers : handler'[g] = IF g = h THEN x ELSE handler[g]
  BY <1>3 DEF BInv, Typed
<1>5. Backing'
  BY <1>1, <1>2, <1>3, <1>4 DEF BInv, Backing, BackedBy, Exists, tables
<1> QED BY <1>3, <1>5, BackedSame DEF BInv, tables

LEMMA BackedNext ==
  ASSUME ~Deletable, BInv, [Next]_vars
  PROVE  BInv'
<1>1. Typed' /\ Sound'
  BY TypedNext DEF BInv
<1>2. CASE WorkOrdered
  <2>1. StatusIsBacked'
    BY <1>2, BackedRow, BackedSame, StatusTypesFact DEF WorkOrdered, BInv, BackedBy
  <2> QED BY <1>1, <1>2, <2>1, BackingSame DEF WorkOrdered, BInv, NoDeletes, Exists
<1>3. CASE ReleasedAll
  <2>1. Backing'
    BY <1>3, ReleasedTyped DEF ReleasedAll, BInv, Backing, BackedBy, tables, Exists
  <2> QED BY <1>1, <1>3, <2>1, BackedSame DEF ReleasedAll, BInv, tables, NoDeletes
<1>4. CASE OrdersCrash
  <2>1. NoDeletes' /\ Backing'
    BY <1>4 DEF OrdersCrash, NewClient, NewHandler, NoDeletes, Backing
  <2> QED BY <1>1, <1>4, <2>1, BackedSame DEF OrdersCrash, BInv, tables
<1>5. CASE UNCHANGED <<tables, client, handler>>
  BY <1>1, <1>5, BackingSame, BackedSame DEF BInv, tables, NoDeletes, Exists
<1>6. ASSUME NEW h \in Handlers, HandlerStep(h) \/ Reported(h) PROVE BInv'
  <2>1. client' = client
    BY <1>6 DEF HandlerStep, HandleNewStatus, InsertNewCreditCard, UpdateOrder, AppendStatus,
                Reported, BeginReport
  <2> QED BY <1>1, <1>6, <2>1, HandlerBacked, ReportBacked DEF BInv, NoDeletes
<1>7. ASSUME NEW c \in Clients, (\E a \in Accounts : CountOrders(c, a)) \/ ClientStep(c)
      PROVE  BInv'
  BY <1>1, <1>7, ClientBacked DEF BInv
<1>8. Typed
  BY DEF BInv
<1> QED BY <1>2, <1>3, <1>4, <1>5, <1>6, <1>7, <1>8, StepCases

(* While orders are not deleted, a status that says so is true, whatever   *)
(* breaks or stops: the row of a card and the shipping id are written      *)
(* before the status that speaks of them.                                  *)
THEOREM StatusesAreBacked ==
  ASSUME ~Deletable
  PROVE  Spec => []StatusIsBacked
<1>1. Init => BInv
  BY InitTyped, BackingInit DEF BInv
<1>2. BInv /\ [Next]_vars => BInv'
  BY BackedNext
<1>3. BInv => StatusIsBacked
  BY DEF BInv
<1> QED BY <1>1, <1>2, <1>3, PTL DEF Spec

-----------------------------------------------------------------------------
(* No order is left without a status                                       *)

\* The only order of its account has no status.
Alone(o) == Exists(o) /\ OrdersOf(order[o]) = {o} /\ status[o] = << >>

Deleting(a, labels) == \E c \in Clients : client[c].at \in labels /\ client[c].acct = a

Creating(o) == \E c \in Clients : client[c].at = "status" /\ client[c].id = o

Writing(o) == \E h \in Handlers : handler[h].at = "append" /\ handler[h].id = o

Attended ==
  \A o \in OrderIds :
    Alone(o) => Creating(o) \/ Writing(o) \/ Deleting(order[o], {"cards", "orders"})

\* Its third statement fails over a card only while something else is at work.
Carded ==
  \A o \in OrderIds :
    Alone(o) /\ cards[o] # 0 => Writing(o) \/ Deleting(order[o], {"cards"})

UnusedIsBare == \A o \in OrderIds : order[o] = "unused" => cards[o] = 0

Watched == Attended /\ Carded /\ UnusedIsBare

AInv == Typed /\ Sound /\ Watched /\ faults = 0

LEMMA FaultsNext ==
  ASSUME MaxFaults = 0, faults = 0, [Next]_vars
  PROVE  faults' = 0
<1>1. ~Fault
  BY DEF Fault
<1>2. Requests \/ Scheduled => faults' = faults
  BY DEF Requests, Scheduled, OrderService, PostManufacture
<1>3. Manufacture => faults' = faults
  BY <1>1 DEF Manufacture, Third, HandOverInTime, ManufacturerReports, Report
<1>4. Courier => faults' = faults
  BY <1>1 DEF Courier, Third, CourierReportsShipped, CourierFindsNoAddress,
              CourierReportsDelivered, Report
<1>5. ASSUME NEW h \in Handlers, Serve(h) PROVE faults' = faults
  BY <1>5 DEF Serve, OrderService, Answer
<1> QED BY <1>1, <1>2, <1>3, <1>4, <1>5 DEF Next, GiveUp, Third, Faults, vars

\* Rows are written to the orders of W; who attends to another one stays.
LEMMA WatchedStays ==
  ASSUME AInv, UNCHANGED <<order, cards>>, NEW W,
         \A o \in OrderIds : Alone(o)' => Alone(o) /\ o \notin W,
         \A c \in Clients : \/ client'[c] = client[c]
                            \/ client[c].at \notin {"status", "cards", "orders"}
                            \/ client[c].at = "status" /\ client[c].id \in W,
         \A h \in Handlers : handler[h].at = "append" /\ handler[h].id \notin W =>
                               handler'[h].at = "append" /\ handler'[h].id = handler[h].id
  PROVE  Watched'
<1>1. ASSUME NEW o \in OrderIds, Alone(o)'
      PROVE  /\ Creating(o) => Creating(o)'
             /\ Writing(o) => Writing(o)'
             /\ Deleting(order[o], {"cards", "orders"}) => Deleting(order[o], {"cards", "orders"})'
             /\ Deleting(order[o], {"cards"}) => Deleting(order[o], {"cards"})'
  <2>1. o \notin W
    BY <1>1
  <2>2. Creating(o) => Creating(o)'
    BY <2>1 DEF Creating
  <2>3. Writing(o) => Writing(o)'
    BY <2>1 DEF Writing
  <2> QED BY <2>2, <2>3 DEF Deleting
<1>2. Attended'
  BY <1>1 DEF AInv, Watched, Attended
<1>3. Carded'
  BY <1>1 DEF AInv, Watched, Carded
<1> QED BY <1>2, <1>3 DEF AInv, Watched, UnusedIsBare

LEMMA WatchedSame ==
  ASSUME AInv, UNCHANGED <<order, status, cards>>,
         \A c \in Clients : \/ client'[c] = client[c]
                            \/ client[c].at \notin {"status", "cards", "orders"},
         \A h \in Handlers : handler[h].at = "append" =>
                               handler'[h].at = "append" /\ handler'[h].id = handler[h].id
  PROVE  Watched'
<1>1. \A o \in OrderIds : Alone(o)' => Alone(o)
  BY DEF Alone, Exists, OrdersOf
<1> DEFINE W == {}
<1>2. \A o \in OrderIds : Alone(o)' => Alone(o) /\ o \notin W
  BY <1>1
<1>3. \A c \in Clients : \/ client'[c] = client[c]
                         \/ client[c].at \notin {"status", "cards", "orders"}
                         \/ client[c].at = "status" /\ client[c].id \in W
  OBVIOUS
<1>4. \A h \in Handlers : handler[h].at = "append" /\ handler[h].id \notin W =>
                            handler'[h].at = "append" /\ handler'[h].id = handler[h].id
  OBVIOUS
<1> HIDE DEF W
<1> QED BY <1>2, <1>3, <1>4, WatchedStays

\* An order that gets a row, or that is gone, is not alone.
LEMMA AloneWritten ==
  ASSUME Typed, NEW o, NEW type \in StatusTypes, UNCHANGED order,
         IF Exists(o) THEN InsertNewStatus(o, type) ELSE UNCHANGED status
  PROVE  \A p \in OrderIds : Alone(p)' => Alone(p) /\ p \notin {o}
<1> SUFFICES ASSUME NEW p \in OrderIds, Alone(p)' PROVE Alone(p) /\ p # o
  OBVIOUS
<1>1. CASE Exists(o)
  <2>1. status'[p] = IF p = o THEN Append(status[p], type) ELSE status[p]
    BY <1>1, AppendedStatus
  <2>2. status[p] \in Seq(StatusTypes)
    BY DEF Typed
  <2>3. Append(status[p], type) # << >>
    BY <2>2
  <2> QED BY <2>1, <2>3 DEF Alone, Exists, OrdersOf
<1>2. CASE ~Exists(o)
  BY <1>2 DEF Alone, Exists, OrdersOf
<1> QED BY <1>1, <1>2

LEMMA CreateWatched ==
  ASSUME AInv, NEW c \in Clients,
         (\E a \in Accounts : CountOrders(c, a)) \/ InsertNewOrder(c) \/ InsertFirstStatus(c)
  PROVE  Watched'
<1>0. client \in [Clients -> ClientType] /\ client[c] \in ClientType
  BY DEF AInv, Typed
<1>1. ASSUME NEW a \in Accounts, CountOrders(c, a) PROVE Watched'
  <2>1. \A d \in Clients : client'[d] = client[d] \/ client[d].at \notin {"status", "cards", "orders"}
    BY <1>0, <1>1 DEF CountOrders
  <2>2. UNCHANGED <<order, status, cards, handler>>
    BY <1>1 DEF CountOrders, tables
  <2> QED BY <2>1, <2>2, WatchedSame
<1>2. CASE InsertFirstStatus(c)
  <2> DEFINE o == client[c].id
  <2>1. \A p \in OrderIds : Alone(p)' => Alone(p) /\ p \notin {o}
    BY <1>2, AloneWritten, StatusTypesFact DEF InsertFirstStatus, AInv
  <2>2. \A d \in Clients : \/ client'[d] = client[d]
                           \/ client[d].at = "status" /\ client[d].id \in {o}
    BY <1>0, <1>2 DEF InsertFirstStatus, Done
  <2>3. UNCHANGED <<order, cards, handler>>
    BY <1>2 DEF InsertFirstStatus
  <2> HIDE DEF o
  <2> QED BY <2>1, <2>2, <2>3, WatchedStays
<1>3. CASE InsertNewOrder(c)
  <2>1. PICK o \in OrderIds :
          /\ order[o] = "unused"
          /\ order' = [order EXCEPT ![o] = client[c].acct]
          /\ client' = [client EXCEPT ![c] = [client[c] EXCEPT !.at = "status", !.id = o]]
    BY <1>3 DEF InsertNewOrder
  <2>2. /\ client[c].at = "insert" /\ client[c].acct \in Accounts
        /\ UNCHANGED <<status, cards, handler>>
    BY <1>3 DEF InsertNewOrder, AInv, Sound
  <2>3. /\ client'[c].at = "status" /\ client'[c].id = o
        /\ \A d \in Clients \ {c} : client'[d] = client[d]
    BY <1>0, <2>1 DEF ClientType
  <2>4. /\ order'[o] = client[c].acct /\ \A p \in OrderIds \ {o} : order'[p] = order[p]
        /\ order[o] \notin Accounts /\ "unused" \notin Accounts
    BY <2>1, CardOrdersAssumption DEF AInv, Typed
  <2>5. ASSUME NEW p \in OrderIds \ {o}, Alone(p)' PROVE Alone(p) /\ order'[p] = order[p]
    <3>1. order[p] \in Accounts /\ order[p] # client[c].acct
      BY <2>4, <2>5 DEF Alone, Exists, OrdersOf
    <3>2. OrdersOf(order[p]) = OrdersOf(order[p])'
      BY <2>4, <3>1 DEF OrdersOf
    <3> QED BY <2>2, <2>4, <2>5, <3>1, <3>2 DEF Alone, Exists
  <2>6. cards[o] = 0
    BY <2>1 DEF AInv, Watched, UnusedIsBare
  <2>7. ASSUME NEW p \in OrderIds
        PROVE  /\ Creating(o)'
               /\ Creating(p) => Creating(p)'
               /\ Writing(p) => Writing(p)'
               /\ \A a : /\ Deleting(a, {"cards", "orders"}) => Deleting(a, {"cards", "orders"})'
                         /\ Deleting(a, {"cards"}) => Deleting(a, {"cards"})'
    BY <2>2, <2>3 DEF Creating, Writing, Deleting
  <2>8. Attended'
    BY <2>5, <2>7 DEF AInv, Watched, Attended
  <2>9. Carded'
    BY <2>2, <2>5, <2>6, <2>7 DEF AInv, Watched, Carded
  <2>10. UnusedIsBare'
    BY <2>2, <2>4, <2>6 DEF AInv, Watched, UnusedIsBare
  <2> QED BY <2>8, <2>9, <2>10 DEF Watched
<1> QED BY <1>1, <1>2, <1>3

LEMMA DeleteWatched ==
  ASSUME AInv, NEW c \in Clients,
         (\E a \in Accounts : DeleteStatuses(c, a)) \/ DeleteCards(c) \/ DeleteOrders(c)
  PROVE  Watched'
<1>0. /\ client \in [Clients -> ClientType] /\ client[c] \in ClientType
      /\ order \in [OrderIds -> Accounts \cup {"unused", "deleted"}]
  BY DEF AInv, Typed
<1>1. ASSUME NEW a \in Accounts, DeleteStatuses(c, a) PROVE Watched'
  <2>1. client' = [client EXCEPT ![c] = [client[c] EXCEPT !.at = "cards", !.acct = a]]
    BY <1>1 DEF DeleteStatuses
  <2>2. /\ client'[c].at = "cards" /\ client'[c].acct = a /\ client[c].at = "idle"
        /\ \A d \in Clients \ {c} : client'[d] = client[d]
    <3>1. /\ [client[c] EXCEPT !.at = "cards", !.acct = a].at = "cards"
          /\ [client[c] EXCEPT !.at = "cards", !.acct = a].acct = a
      BY <1>0 DEF ClientType
    <3>2. client[c].at = "idle"
      BY <1>1 DEF DeleteStatuses
    <3> QED BY <1>0, <2>1, <3>1, <3>2
  <2>3. UNCHANGED <<order, cards, handler>>
    BY <1>1 DEF DeleteStatuses
  <2>4. Deleting(a, {"cards"})' /\ Deleting(a, {"cards", "orders"})'
    BY <2>2 DEF Deleting
  <2>5. ASSUME NEW o \in OrderIds, Alone(o)', order[o] # a
        PROVE  Alone(o)
    BY <1>1, <2>3, <2>5 DEF DeleteStatuses, Alone, Exists, OrdersOf
  <2>6. ASSUME NEW o \in OrderIds
        PROVE  /\ Creating(o) => Creating(o)'
               /\ Writing(o) => Writing(o)'
               /\ \A b : /\ Deleting(b, {"cards", "orders"}) => Deleting(b, {"cards", "orders"})'
                         /\ Deleting(b, {"cards"}) => Deleting(b, {"cards"})'
    BY <2>2, <2>3 DEF Creating, Writing, Deleting
  <2>7. Attended'
    BY <2>3, <2>4, <2>5, <2>6 DEF AInv, Watched, Attended
  <2>8. Carded'
    BY <2>3, <2>4, <2>5, <2>6 DEF AInv, Watched, Carded
  <2> QED BY <2>3, <2>7, <2>8 DEF AInv, Watched, UnusedIsBare
<1>2. CASE DeleteCards(c)
  <2> DEFINE acct == client[c].acct
             mine == OrdersOf(acct)
  <2>1. client[c].at = "cards" /\ UNCHANGED <<order, status, handler>>
    BY <1>2 DEF DeleteCards
  <2>2. \A d \in Clients \ {c} : client'[d] = client[d]
    BY <1>0, <1>2 DEF DeleteCards, At, Done
  <2>3. ASSUME NEW o \in OrderIds, Alone(o), order[o] = acct
        PROVE  cards'[o] = 0 /\ Deleting(order[o], {"cards", "orders"})'
    <3>1. mine = {o} /\ Cardinality(mine) = 1
      BY <2>3, FS_Singleton DEF Alone
    <3>2. cards' = [p \in OrderIds |-> IF p \in mine THEN 0 ELSE cards[p]] /\ At(c, "orders")
      BY <1>2, <3>1 DEF DeleteCards
    <3>3. client'[c].at = "orders" /\ client'[c].acct = acct
      BY <1>0, <3>2 DEF At, ClientType
    <3> QED BY <2>1, <2>3, <3>1, <3>2, <3>3 DEF Deleting
  <2>4. ASSUME NEW o \in OrderIds, order[o] # acct
        PROVE  /\ cards'[o] = cards[o]
               /\ Deleting(order[o], {"cards", "orders"}) => Deleting(order[o], {"cards", "orders"})'
               /\ Deleting(order[o], {"cards"}) => Deleting(order[o], {"cards"})'
    <3>1. cards'[o] = cards[o]
      BY <1>2, <2>4 DEF DeleteCards, OrdersOf
    <3> QED BY <2>1, <2>2, <2>4, <3>1 DEF Deleting
  <2>5. ASSUME NEW o \in OrderIds
        PROVE  /\ Alone(o)' => Alone(o)
               /\ Creating(o) => Creating(o)'
               /\ Writing(o) => Writing(o)'
    BY <2>1, <2>2 DEF Alone, Exists, OrdersOf, Creating, Writing
  <2> HIDE DEF acct
  <2>6. Attended'
    BY <2>1, <2>3, <2>4, <2>5 DEF AInv, Watched, Attended
  <2>7. Carded'
    BY <2>1, <2>3, <2>4, <2>5 DEF AInv, Watched, Carded
  <2>8. UnusedIsBare'
    <3>1. acct # "unused"
      BY <2>1, CardOrdersAssumption DEF acct, AInv, Sound
    <3> QED BY <2>1, <2>4, <3>1 DEF AInv, Watched, UnusedIsBare
  <2> QED BY <2>6, <2>7, <2>8 DEF Watched
<1>3. CASE DeleteOrders(c)
  <2> DEFINE acct == client[c].acct
             mine == OrdersOf(acct)
  <2>1. client[c].at = "orders" /\ UNCHANGED <<status, cards, handler>>
    BY <1>3 DEF DeleteOrders
  <2>2. \A d \in Clients \ {c} : client'[d] = client[d]
    BY <1>0, <1>3 DEF DeleteOrders, Done
  <2>3. \/ \A o \in OrderIds : order'[o] = IF order[o] = acct THEN "deleted" ELSE order[o]
        \/ /\ order' = order
           /\ \E o \in OrderIds : order[o] = acct /\ (status[o] # << >> \/ cards[o] # 0)
    <3>1. CASE \A o \in mine : status[o] = << >> /\ cards[o] = 0
      BY <1>3, <3>1 DEF DeleteOrders, OrdersOf
    <3>2. CASE ~\A o \in mine : status[o] = << >> /\ cards[o] = 0
      BY <1>3, <3>2 DEF DeleteOrders, OrdersOf
    <3> QED BY <3>1, <3>2
  <2>4. {"unused", "deleted"} \cap Accounts = {}
    BY CardOrdersAssumption
  <2>5. ASSUME NEW o \in OrderIds, Alone(o)'
        PROVE  order'[o] = order[o] /\ Alone(o) /\ (order[o] # acct \/ cards[o] # 0)
    <3>1. /\ order'[o] = order[o] /\ order[o] \in Accounts
          /\ {p \in OrderIds : order'[p] = order'[o]} = {o} /\ status[o] = << >>
      BY <2>1, <2>3, <2>4, <2>5 DEF Alone, Exists, OrdersOf
    <3>2. OrdersOf(order[o]) = {o}
      BY <2>3, <2>4, <3>1 DEF OrdersOf
    <3>3. order[o] # acct \/ cards[o] # 0
      BY <2>3, <2>4, <3>1, <3>2 DEF OrdersOf
    <3> QED BY <3>1, <3>2, <3>3 DEF Alone, Exists
  <2>6. ASSUME NEW o \in OrderIds
        PROVE  /\ Creating(o) => Creating(o)'
               /\ Writing(o) => Writing(o)'
               /\ Deleting(order[o], {"cards"}) => \E d \in Clients : client'[d].at = "cards" /\ client'[d].acct = order[o]
    BY <2>1, <2>2 DEF Creating, Writing, Deleting
  <2>7. ASSUME NEW o \in OrderIds, order[o] # acct, Deleting(order[o], {"cards", "orders"})
        PROVE  \E d \in Clients : client'[d].at \in {"cards", "orders"} /\ client'[d].acct = order[o]
    BY <2>1, <2>2, <2>7 DEF Deleting
  <2> HIDE DEF acct
  <2>8. Carded'
    BY <2>1, <2>5, <2>6 DEF AInv, Watched, Carded, Deleting
  <2>9. Attended'
    <3>1. ASSUME NEW o \in OrderIds, Alone(o)'
          PROVE  Creating(o)' \/ Writing(o)' \/ Deleting(order[o], {"cards", "orders"})'
      <4>1. CASE order[o] # acct
        BY <2>5, <2>6, <2>7, <3>1, <4>1 DEF AInv, Watched, Attended, Deleting
      <4>2. CASE cards[o] # 0
        BY <2>5, <2>6, <3>1, <4>2 DEF AInv, Watched, Carded, Deleting
      <4> QED BY <2>5, <3>1, <4>1, <4>2
    <3> QED BY <3>1 DEF Attended
  <2>10. UnusedIsBare'
    BY <2>1, <2>3 DEF AInv, Watched, UnusedIsBare
  <2> QED BY <2>8, <2>9, <2>10 DEF Watched
<1> QED BY <1>1, <1>2, <1>3

LEMMA HandlerWatched ==
  ASSUME AInv, NEW h \in Handlers, HandlerStep(h) \/ Reported(h)
  PROVE  Watched'
<1>1. Typed /\ Sound
  BY DEF AInv
<1>2. ASSUME NEW label \in {"read", "record", "append", "answered"}, handler[h].at \in {"read", "record"},
             Step(h, label), UNCHANGED <<order, status, cards, client>>
      PROVE  Watched'
  <2>1. \A g \in Handlers : /\ handler'[g].id = handler[g].id
                            /\ handler'[g].at = IF g = h THEN label ELSE handler[g].at
    BY <1>1, <1>2, StepFields
  <2> QED BY <1>2, <2>1, WatchedSame
<1>3. CASE HandleNewStatus(h)
  <2>1. PICK label \in {"answered", "record", "append"} : Step(h, label)
    BY <1>3, JudgedStep
  <2> QED BY <1>2, <1>3, <2>1 DEF HandleNewStatus, tables
<1>4. CASE UpdateOrder(h)
  BY <1>2, <1>4 DEF UpdateOrder
<1>5. CASE InsertNewCreditCard(h)
  <2> DEFINE o == handler[h].id
  <2>1. handler[h].at = "record" /\ o \in OrderIds /\ UNCHANGED <<order, status, client>>
    BY <1>1, <1>5 DEF InsertNewCreditCard, Sound
  <2>2. CASE cards' = cards
    BY <1>2, <1>5, <2>1, <2>2 DEF InsertNewCreditCard
  <2>3. CASE cards' # cards
    <3>1. Exists(o) /\ cards' = [cards EXCEPT ![o] = cards[o] + 1] /\ Step(h, "append")
      BY <1>5, <2>3 DEF InsertNewCreditCard
    <3>2. \A g \in Handlers : /\ handler'[g].id = handler[g].id
                              /\ handler'[g].at = IF g = h THEN "append" ELSE handler[g].at
      BY <1>1, <3>1, StepFields
    <3>3. \A p \in OrderIds \ {o} : cards'[p] = cards[p]
      BY <1>1, <3>1 DEF Typed
    <3>4. Writing(o)' /\ \A p : Writing(p) => \E g \in Handlers : handler'[g].at = "append" /\ handler'[g].id = p
      <4>1. handler[h].id = handler'[h].id /\ handler'[h].at = "append"
        BY <3>2
      <4> QED BY <2>1, <3>2, <4>1 DEF Writing
    <3>5. ASSUME NEW p \in OrderIds PROVE Alone(p)' <=> Alone(p)
      BY <2>1 DEF Alone, Exists, OrdersOf
    <3>6. Attended'
      BY <2>1, <3>4, <3>5 DEF AInv, Watched, Attended, Creating, Writing, Deleting
    <3>7. Carded'
      <4>1. ASSUME NEW p \in OrderIds, Alone(p)', cards'[p] # 0
            PROVE  Writing(p)' \/ Deleting(order[p], {"cards"})'
        <5>1. CASE p = o
          BY <3>2, <5>1 DEF Writing
        <5>2. CASE p # o
          BY <2>1, <3>3, <3>4, <3>5, <4>1, <5>2 DEF AInv, Watched, Carded, Writing, Deleting
        <5> QED BY <5>1, <5>2
      <4> QED BY <4>1 DEF Carded
    <3>8. UnusedIsBare'
      BY <2>1, <3>1, <3>3, CardOrdersAssumption DEF AInv, Watched, UnusedIsBare, Exists
    <3> QED BY <3>6, <3>7, <3>8 DEF Watched
  <2> QED BY <2>2, <2>3
<1>6. CASE AppendStatus(h)
  <2> DEFINE o == handler[h].id
  <2>1. handler[h].at = "append" /\ handler[h].type \in StatusTypes
    BY <1>1, <1>6 DEF AppendStatus, Sound
  <2>2. UNCHANGED <<order, cards, client>> /\ Step(h, "answered")
    BY <1>6 DEF AppendStatus
  <2>3. \A p \in OrderIds : Alone(p)' => Alone(p) /\ p \notin {o}
    BY <1>1, <1>6, <2>1, <2>2, AloneWritten DEF AppendStatus
  <2>4. \A g \in Handlers : /\ handler'[g].id = handler[g].id
                            /\ handler'[g].at = IF g = h THEN "answered" ELSE handler[g].at
    BY <1>1, <2>2, StepFields
  <2>5. \A g \in Handlers : handler[g].at = "append" /\ handler[g].id \notin {o} =>
                              handler'[g].at = "append" /\ handler'[g].id = handler[g].id
    BY <2>4
  <2> HIDE DEF o
  <2> QED BY <2>2, <2>3, <2>5, WatchedStays
<1>7. CASE Reported(h)
  <2>1. UNCHANGED <<tables, client>> /\ handler[h].at = "idle"
    BY <1>7 DEF Reported, BeginReport
  <2>2. \A g \in Handlers \ {h} : handler'[g] = handler[g]
    BY <1>1, <1>7 DEF Reported, BeginReport, Typed
  <2>3. UNCHANGED <<order, status, cards>> /\ client' = client
    BY <2>1 DEF tables
  <2> QED BY <2>1, <2>2, <2>3, WatchedSame
<1> QED BY <1>3, <1>4, <1>5, <1>6, <1>7 DEF HandlerStep

LEMMA WatchedNext ==
  ASSUME MaxFaults = 0, AInv, [Next]_vars
  PROVE  Watched'
<1>1. Typed /\ Sound /\ faults = 0
  BY DEF AInv
<1>2. CASE WorkOrdered
  <2>1. \A o \in OrderIds : Alone(o)' => Alone(o) /\ o \notin {work.current}
    BY <1>1, <1>2, AloneWritten, StatusTypesFact DEF WorkOrdered
  <2>2. UNCHANGED <<order, cards, client, handler>>
    BY <1>2 DEF WorkOrdered
  <2> QED BY <2>1, <2>2, WatchedStays
<1>3. CASE ReleasedAll
  <2>1. \A h \in Handlers : handler[h].at # "answered" => handler'[h] = handler[h]
    BY <1>1, <1>3 DEF ReleasedAll
  <2>2. UNCHANGED <<order, status, cards, client>>
    BY <1>3 DEF ReleasedAll, tables
  <2> QED BY <2>1, <2>2, WatchedSame
<1>4. CASE UNCHANGED <<tables, client, handler>>
  <2>1. UNCHANGED <<order, status, cards, client, handler>>
    BY <1>4 DEF tables
  <2> QED BY <2>1, WatchedSame
<1> QED BY <1>1, <1>2, <1>3, <1>4, StepCases, CreateWatched, DeleteWatched, HandlerWatched
        DEF ClientStep

LEMMA WatchedInit == Init => Watched
<1> SUFFICES ASSUME Init PROVE Watched
  OBVIOUS
<1>1. \A o \in OrderIds : ~Exists(o) /\ cards[o] = 0
  BY CardOrdersAssumption DEF Init, OrdersInit, Exists
<1> QED BY <1>1 DEF Watched, Attended, Carded, UnusedIsBare, Alone

(* While nothing breaks or stops, no order is stranded, however requests   *)
(* that create or delete orders and updates of their status interleave:    *)
(* whoever makes a status impossible is followed by a statement that is    *)
(* still to come, or by another that is at work on the same order.         *)
THEOREM OrdersAreAttended ==
  ASSUME MaxFaults = 0
  PROVE  Spec => []NoOrderStranded
<1>1. Init => AInv
  BY InitTyped, WatchedInit DEF AInv, Init
<1>2. AInv /\ [Next]_vars => AInv'
  BY TypedNext, WatchedNext, FaultsNext DEF AInv
<1>3. AInv => NoOrderStranded
  BY DEF AInv, Watched, Attended, Alone, Creating, Writing, Deleting, NoOrderStranded
<1> QED BY <1>1, <1>2, <1>3, PTL DEF Spec

===============================================================================
