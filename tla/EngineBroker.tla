---------------------------- MODULE EngineBroker ----------------------------
(***************************************************************************)
(* The engine drives the batches of the broker.  A tick begins a batch and *)
(* waits for it; when the connection breaks or the engine stops, ASP.NET   *)
(* finishes the batch all the same.  Nobody but the engine calls the       *)
(* endpoint here.  In the other direction the broker posts every trade a   *)
(* batch closes to the engine, from a task nobody awaits, and a POST that  *)
(* fails is not repeated.                                                  *)
(***************************************************************************)
EXTENDS Broker, Engine

CONSTANT MaxFaults   \* bound on broken connections, lost posts and restarts

ASSUME EngineBrokerAssumption == Posts = Batches /\ MaxFaults \in Nat

VARIABLES
  faults,  \* how many of these there have been
  told,    \* trades the engine has received at /notification, which logs them
  lost     \* trades whose closing was posted in vain

postVars == <<told, lost>>

allVars == <<vars, engineVars, faults, postVars>>

EngineBrokerInit == Init /\ EngineInit /\ faults = 0 /\ told = {} /\ lost = {}

\* ProcessLongRunningTransactions is called.
TickBegins ==
  /\ \E s \in Schedules, b \in Batches : Tick(s, b) /\ BatchBegin(b)
  /\ UNCHANGED <<faults, postVars>>

\* ... and has returned.
TickAnswered ==
  /\ \E b \in Batches : awaited = b /\ pc[b] = "idle"
  /\ TickEnds
  /\ UNCHANGED <<vars, faults, postVars>>

EngineCall == CallStep /\ UNCHANGED <<vars, faults, postVars>>

Fault == faults < MaxFaults /\ faults' = faults + 1

ConnectionBreaks == TickEnds /\ Fault /\ UNCHANGED <<vars, postVars>>

EngineStops == Restart /\ Fault /\ UNCHANGED <<vars, postVars>>

\* The POST of a started task arrives.  A trade whose POST was lost may be
\* announced again, by the batch that closes it after a rollback.
Notify(t) ==
  /\ t \in announced \ told
  /\ told' = told \cup {t}
  /\ UNCHANGED <<vars, engineVars, faults, lost>>

\* The exception is logged, or the process of the task stops.
PostLost(t) ==
  /\ t \in announced \ (told \cup lost)
  /\ lost' = lost \cup {t} /\ Fault
  /\ UNCHANGED <<vars, engineVars, told>>

BrokerStep ==
  /\ \/ \E r \in Requests : QuickStart(r) \/ MoneyStart(r) \/ LongStart(r) \/ Finish(r)
     \/ \E b \in Batches : BatchStep(b)
     \/ \E t \in DOMAIN trades : Expire(t)
  /\ UNCHANGED <<engineVars, faults, postVars>>

\* Overlapping batches wait for each other's rows: InnoDB aborts one of them.
Deadlocked == \A b \in Batches : Flushed(b) => ~ENABLED BatchStep(b)

DeadlockVictim ==
  /\ Deadlocked
  /\ \E b \in Batches : Flushed(b) /\ BatchFail(b)
  /\ UNCHANGED <<engineVars, faults, postVars>>

EngineBrokerNext ==
  \/ BrokerStep \/ DeadlockVictim \/ TickBegins \/ TickAnswered
  \/ ConnectionBreaks \/ EngineStops \/ EngineCall
  \/ \E t \in announced : Notify(t) \/ PostLost(t)

\* Every trade there can be.
TradeIds == 1..(Len(OpeningTrades) + Cardinality(Requests))

EngineBrokerSpec == EngineBrokerInit /\ [][EngineBrokerNext]_allVars

(* Fairness: the pool of the engine runs what is due, ASP.NET drives each  *)
(* request it has begun, and InnoDB grants row locks in the order of       *)
(* arrival, so a step that is blocked again and again is served.  A task   *)
(* that has been started is run and its POST arrives, unless it is lost.   *)
(* Nobody has to call start or stop.  But for deadlocks no step of the     *)
(* broker fails.                                                           *)
Fairness ==
  /\ WF_allVars(TickBegins) /\ WF_allVars(TickAnswered) /\ WF_allVars(DeadlockVictim)
  /\ \A t \in TradeIds : WF_allVars(t \notin lost /\ Notify(t))
  /\ \A b \in Batches : SF_allVars(BatchStep(b) /\ UNCHANGED <<engineVars, faults, postVars>>)
  /\ \A r \in Requests :
       /\ WF_allVars(Finish(r) /\ UNCHANGED <<engineVars, faults, postVars>>)
       /\ SF_allVars(Save(r) /\ UNCHANGED <<engineVars, faults, postVars>>)

LiveSpec == EngineBrokerSpec /\ Fairness

-----------------------------------------------------------------------------
(* The engine itself has but one batch running, however many schedules     *)
(* overlapping starts have left: only a broken connection or a restart     *)
(* makes it call for a batch while another one is still at work.           *)
BatchesExplained == Cardinality({b \in Batches : pc[b] # "idle"}) <= 1 + faults

(* While nothing fails in the broker, a long trade whose time is up is     *)
(* closed in the end, unless every schedule has been cancelled.            *)
ExpiredIsClosed ==
  \A t \in TradeIds :
    t \in expired ~> live = {} \/ (t \in DOMAIN trades /\ trades[t].closed)

(* While nothing fails in the broker, a trade that is closed by a batch is *)
(* made known to the engine in the end, also when the batch that announced *)
(* it first was the victim of a deadlock, unless its POST was lost: nobody *)
(* tries again.                                                            *)
ClosedIsTold ==
  \A t \in TradeIds :
    (t \in DOMAIN trades /\ trades[t].closed /\ trades[t].dir \in {"longbuy", "longsell"})
      ~> t \in told \cup lost

(* While nothing fails in the broker, every request that has begun is      *)
(* answered, though its save may have to wait for the rows a batch holds.  *)
RequestsAnswered ==
  \A r \in Requests : pc[r] # "idle" ~> pc[r] = "done"

=============================================================================
