------------------------------ MODULE CardFlow ------------------------------
(***************************************************************************)
(* The order service and the third party together.  They call each other   *)
(* over HTTP without timeouts: the caller waits until it is answered or    *)
(* the connection breaks, and a broken call may have been carried out, may *)
(* still be carried out, or may never have arrived.                        *)
(***************************************************************************)
EXTENDS CardOrders, ThirdParty, FiniteSetsExt, Functions

CONSTANTS
  MaxFaults,    \* how many connections may break and processes may stop
  Timely,       \* WorkScheduler writes CARD_ORDERED within a scheduler period
  MaxProcesses, \* bound on each list of the third party
  Deletable     \* deleteOrder may be called

ASSUME CardFlowAssumption ==
  /\ Orders = OrderIds
  /\ Threads \cap {NoCaller} = {}
  /\ MaxProcesses \in Nat
  /\ FlagValues \subseteq BOOLEAN
  /\ MaxFaults \in Nat
  /\ Timely \in BOOLEAN /\ Deletable \in BOOLEAN

VARIABLE faults  \* connections broken and processes stopped so far

vars == <<orderVars, thirdVars, faults>>

Init == OrdersInit /\ ThirdInit /\ faults = 0

Fault == faults < MaxFaults /\ faults' = faults + 1

\* A step of the order service alone, and of the third party alone.
OrderService(step) == step /\ UNCHANGED <<thirdVars, faults>>

Third(step) == step /\ UNCHANGED <<orderVars, faults>>

-----------------------------------------------------------------------------
(* The calls                                                               *)

\* WorkScheduler calls the manufacturer.
PostManufacture(o) ==
  /\ Len(making) < MaxProcesses
  /\ WorkPost(o) /\ IssueCreditCard(o)
  /\ UNCHANGED faults

\* A thread of the third party calls updateStatus; the request arrives or not.
Report(t, o, type, ship) ==
  \/ \E h \in Handlers : BeginReport(h, o, type, ship, t) /\ UNCHANGED faults
  \/ Fault /\ UNCHANGED orderVars

FreshShippingIds ==
  1..(Len(sending) + Cardinality(OrderIds) + 1)
    \ ({sending[n].ship : n \in DOMAIN sending} \cup {shipping[o] : o \in OrderIds})

ManufacturerReports(o, type) == MakeCard(o, type) /\ Report("manufacture", o, type, 0)

\* getShippingAddress finds the order, and the card is sent.
CourierReportsShipped(o) ==
  /\ Exists(o)
  /\ \E ship \in FreshShippingIds :
       /\ \A other \in FreshShippingIds : ship <= other
       /\ SendCard(o, ship)
       /\ Report("courier", o, "card_shipped", ship)

CourierFindsNoAddress(o) == ~Exists(o) /\ Third(NoAddress(o))

CourierReportsDelivered(o) == DeliverCard(o) /\ Report("courier", o, "card_delivered", 0)

\* The answer of handler h ends the wait of its caller.
Answer(h) ==
  /\ handler[h].at = "answered"
  /\ handler' = [handler EXCEPT ![h] = NewHandler]
  /\ IF handler[h].caller = NoCaller THEN UNCHANGED thirdVars ELSE Answered(handler[h].caller)
  /\ UNCHANGED <<tables, client, work, faults>>

\* The connection of thread t breaks; its handler, if any, goes on alone.
Break(t) ==
  /\ Broken(t)
  /\ handler' = [h \in Handlers |->
                   IF handler[h].caller = t THEN [handler[h] EXCEPT !.caller = NoCaller]
                                            ELSE handler[h]]
  /\ UNCHANGED <<tables, client, work>>

\* A request that never arrived is given up.
GiveUp(t) == (\A h \in Handlers : handler[h].caller # t) /\ Third(Broken(t))

\* The order service stops: threads waiting for it see the connection break.
OrderServiceStops ==
  /\ OrdersCrash
  /\ thread' = [t \in Threads |-> IF thread[t].at = "waiting" THEN Asleep ELSE thread[t]]
  /\ UNCHANGED <<making, sending, crisis>>

\* The third party stops: its handlers go on alone.
ThirdPartyStops ==
  /\ ThirdCrash
  /\ handler' = [h \in Handlers |-> [handler[h] EXCEPT !.caller = NoCaller]]
  /\ UNCHANGED <<tables, client, work>>

-----------------------------------------------------------------------------
Requests ==
  \E c \in Clients :
    \/ \E a \in Accounts :
         \/ OrderService(CountOrders(c, a))
         \/ Deletable /\ OrderService(DeleteStatuses(c, a))
    \/ OrderService(ClientStep(c))

Scheduled == OrderService(WorkStep) \/ \E o \in OrderIds : PostManufacture(o)

\* A card is handed over in the visit after the one that made it.  While
\* WorkScheduler has the answer to its POST but has not written CARD_ORDERED it
\* posts nothing else, so no new process disturbs a walk of the manufacturer
\* and, unless a connection breaks, these two visits have a sleep between them.
HandOverInTime(o) ==
  /\ Len(sending) < MaxProcesses
  /\ Timely /\ faults = 0 => work.at # "posted" \/ work.current # o
  /\ Third(HandOver(o))

Manufacture ==
  \/ Third(ManufactureStep) \/ \E o \in OrderIds : HandOverInTime(o)
  \/ \E o \in OrderIds, type \in {"card_error", "card_created"} : ManufacturerReports(o, type)

Courier ==
  \/ Third(CourierStep)
  \/ \E o \in OrderIds :
       CourierReportsShipped(o) \/ CourierFindsNoAddress(o) \/ CourierReportsDelivered(o)

Serve(h) == OrderService(HandlerStep(h)) \/ Answer(h)

Faults ==
  /\ Fault
  /\ \/ WorkAbort /\ UNCHANGED thirdVars
     \/ \E t \in Threads : Break(t)
     \/ AddressFails /\ UNCHANGED orderVars
     \/ OrderServiceStops \/ ThirdPartyStops

Next ==
  \/ Requests \/ Scheduled \/ Manufacture \/ Courier
  \/ \E h \in Handlers : Serve(h)
  \/ \E t \in Threads : GiveUp(t)
  \/ Third(CrisisBegins) \/ Third(CrisisEnds)
  \/ Faults

Spec == Init /\ [][Next]_vars

-----------------------------------------------------------------------------
(* Properties                                                              *)

(* Every variable has its type; the one type invariant of the modules      *)
(* CardOrders, ThirdParty and CardFlow.                                    *)
TypeOK ==
  /\ order \in [OrderIds -> Accounts \cup {"unused", "deleted"}]
  /\ shipping \in [OrderIds -> Nat]
  /\ status \in [OrderIds -> Seq(StatusTypes)]
  /\ \A o \in OrderIds : recent[o] \in 0..Len(status[o])
  /\ cards \in [OrderIds -> Nat]
  /\ client \in [Clients -> [at : {"idle", "insert", "status", "cards", "orders", "done"},
                             acct : Accounts \cup {"none"}, id : OrderIds \cup {"none"}]]
  /\ handler \in [Handlers -> [at : {"idle", "read", "record", "append", "answered"},
                               id : OrderIds \cup {"none"}, type : StatusTypes \cup {"none"},
                               ship : Nat, caller : Threads \cup {NoCaller}]]
  /\ work \in [at : {"idle", "next", "posted"}, todo : SUBSET OrderIds,
               current : OrderIds \cup {"none"}]
  /\ making \in Seq([id : OrderIds, state : {"issuing", "error", "created"}])
  /\ sending \in Seq([id : OrderIds, state : {"new", "sent", "delivered"}, ship : Nat])
  /\ thread \in [Threads -> [at : {"idle", "scan", "waiting"}, next : Nat,
                             remove : SUBSET Nat, grown : BOOLEAN]]
  /\ crisis \in BOOLEAN
  /\ faults \in 0..MaxFaults

TypesOf(o) == Range(status[o])

(* An order never has two credit cards, though its manufacture and its     *)
(* parcel may be handled more than once.                                   *)
OneCardPerOrder == \A o \in OrderIds : cards[o] <= 1

(* A status that says so is true: a created card has its row and a shipped *)
(* one its shipping id, whatever breaks between the two statements.        *)
StatusIsBacked ==
  \A o \in OrderIds :
    /\ "card_created" \in TypesOf(o) => cards[o] >= 1
    /\ "card_shipped" \in TypesOf(o) => shipping[o] # 0

(* Once an order is said to be shipped, the parcel of a card that was      *)
(* handed over twice replaces its shipping id only if the newest rows of   *)
(* the order share one second: then the row that decides may be an older   *)
(* one.  While the newest row is alone in its second, the id stays.        *)
ShippingIdStable ==
  [][\A o \in OrderIds : "card_shipped" \in TypesOf(o) /\ recent[o] = 1
       => shipping'[o] = shipping[o]]_vars

(* No order is stranded: once no request and no update is at work on it,   *)
(* the only order of an account has a status, or nobody would ever go on   *)
(* with it while it keeps the account from ordering again.                 *)
NoOrderStranded ==
  \A o \in OrderIds :
    Exists(o) /\ OrdersOf(order[o]) = {o} /\ status[o] = <<>> =>
      \/ \E c \in Clients : client[c].id = o \/ client[c].acct = order[o]
      \/ \E h \in Handlers : handler[h].id = o

StageOf(type) ==
  CASE type = "order_created" -> 1
    [] type \in {"card_ordered", "card_error"} -> 2
    [] type = "card_created" -> 3
    [] type = "card_shipped" -> 4
    [] type = "card_delivered" -> 5

Lifecycle == INSTANCE CardLifecycle WITH
  stage <- [o \in OrderIds |-> Max({0} \cup {StageOf(type) : type \in TypesOf(o)})],
  made <- cards,
  label <- shipping

(* Seen through the furthest status it has reached, an order climbs the    *)
(* stages of CardLifecycle one by one while nothing breaks.                *)
ImplementsLifecycle == Lifecycle!LifeSpec

(* Fairness: the schedulers run at a fixed rate, Spring serves what it has *)
(* accepted, a crisis is ended, and of the cards made again and again four *)
(* in five succeed.                                                        *)
LiveSpec ==
  /\ Init
  /\ [][\/ Requests \/ Scheduled \/ Manufacture \/ Courier
        \/ \E h \in Handlers : Serve(h)
        \/ Third(CrisisEnds)]_vars
  /\ WF_vars(Third(CrisisEnds))
  /\ \A c \in Clients : WF_vars(OrderService(ClientStep(c)))
  /\ \A h \in Handlers : WF_vars(Serve(h))
  /\ WF_vars(Scheduled) /\ WF_vars(Manufacture) /\ WF_vars(Courier)
  /\ \A o \in OrderIds : SF_vars(ManufacturerReports(o, "card_created"))

(* While nothing breaks, an order that is not deleted is delivered in the  *)
(* end, also after failures in the factory.                                *)
OrderIsDelivered ==
  \A o \in OrderIds : Exists(o) ~> "card_delivered" \in TypesOf(o)

=============================================================================
