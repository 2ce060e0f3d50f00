---------------------------- MODULE Engine_proofs ----------------------------
(***************************************************************************)
(* Theorems about the engine, alone and with the broker.                   *)
(***************************************************************************)
EXTENDS EngineBroker, Broker_proofs, FiniteSetTheorems

LEMMA EngineInitOK == EngineInit => EngineInv
BY EngineAssumption
DEF EngineInit, EngineInv, EngineTypeOK, CancelledIsCleared, NotYetAssigned, Unknown,
    Schedules, Calls

LEMMA StartOK ==
  ASSUME EngineInv, NEW c \in Starts, Start(c)
  PROVE  EngineInv'
<1> USE EngineAssumption
    DEF EngineInv, EngineTypeOK, CancelledIsCleared, NotYetAssigned, Unknown, Schedules,
        Calls, Move
<1>1. CASE StartCheck(c)
  BY <1>1 DEF StartCheck
<1>2. CASE StartSchedule(c)
  BY <1>2 DEF StartSchedule
<1>3. CASE StartAssign(c)
  BY <1>3 DEF StartAssign
<1> QED BY <1>1, <1>2, <1>3 DEF Start

LEMMA StopOK ==
  ASSUME EngineInv, NEW c \in Stops, Stop(c)
  PROVE  EngineInv'
<1> USE EngineAssumption
    DEF EngineInv, EngineTypeOK, CancelledIsCleared, NotYetAssigned, Unknown, Schedules,
        Calls, Move
<1>1. CASE StopCheck(c)
  BY <1>1 DEF StopCheck
<1>2. CASE StopCancel(c)
  <2>1. PICK s \in {seen[c], scheduled} \ {None} :
          live' = live \ {s} /\ seen' = [seen EXCEPT ![c] = s]
    BY <1>2 DEF StopCancel
  <2>2. EngineTypeOK'
    BY <1>2, <2>1 DEF StopCancel
  <2>3. CancelledIsCleared'
    BY <1>2, <2>1 DEF StopCancel
  <2>4. NotYetAssigned'
    BY <1>2, <2>1 DEF StopCancel
  <2> QED BY <2>2, <2>3, <2>4
<1>3. CASE StopThrows(c)
  BY <1>3 DEF StopThrows
<1>4. CASE StopClear(c)
  BY <1>4 DEF StopClear
<1> QED BY <1>1, <1>2, <1>3, <1>4 DEF Stop

LEMMA TickOK ==
  ASSUME EngineInv, NEW s \in Schedules, NEW p \in Posts, Tick(s, p)
  PROVE  EngineInv'
BY DEF Tick, EngineInv, EngineTypeOK, CancelledIsCleared, NotYetAssigned, Unknown

LEMMA TickEndsOK == EngineInv /\ TickEnds => EngineInv'
BY DEF TickEnds, EngineInv, EngineTypeOK, CancelledIsCleared, NotYetAssigned, Unknown

LEMMA RestartOK == EngineInv /\ Restart => EngineInv'
BY EngineAssumption
DEF Restart, EngineInv, EngineTypeOK, CancelledIsCleared, NotYetAssigned, Unknown,
    Schedules, Calls

LEMMA EngineNextOK == EngineInv /\ [EngineNext]_engineVars => EngineInv'
<1> SUFFICES ASSUME EngineInv, [EngineNext]_engineVars
             PROVE  EngineInv'
  OBVIOUS
<1>1. CASE CallStep
  BY <1>1, StartOK, StopOK DEF CallStep
<1>2. CASE \E s \in Schedules, p \in Posts : Tick(s, p)
  BY <1>2, TickOK
<1>3. CASE TickEnds
  BY <1>3, TickEndsOK
<1>4. CASE Restart
  BY <1>4, RestartOK
<1>5. CASE UNCHANGED engineVars
  BY <1>5 DEF engineVars, EngineInv, EngineTypeOK, CancelledIsCleared, NotYetAssigned, Unknown
<1> QED BY <1>1, <1>2, <1>3, <1>4, <1>5 DEF EngineNext

(* However starts, stops, ticks and restarts overlap, a schedule that has  *)
(* been cancelled is still assigned only while the call that cancelled it  *)
(* is about to assign null, and no other call knows a schedule before the  *)
(* start that has made it has assigned it (BaseSchedulerController).       *)
THEOREM EngineInvariance == EngineSpec => []EngineInv
BY EngineInitOK, EngineNextOK, PTL DEF EngineSpec

(* However calls of /start and /stop and restarts overlap, a status of     *)
(* "running" is true as soon as no stop is about to assign null            *)
(* (BaseSchedulerController).                                              *)
THEOREM StatusRunningIsTrue == EngineSpec => []RunningIsTrue
<1>1. EngineInv => RunningIsTrue
  BY DEF EngineInv, CancelledIsCleared, RunningIsTrue
<1> QED BY <1>1, EngineInvariance, PTL

-----------------------------------------------------------------------------
(* With the broker                                                         *)

LEMMA StepsAreEngineSteps ==
  [EngineBrokerNext]_allVars => [EngineNext]_engineVars
<1> SUFFICES ASSUME [EngineBrokerNext]_allVars
             PROVE  [EngineNext]_engineVars
  OBVIOUS
<1>1. CASE BrokerStep \/ DeadlockVictim \/ UNCHANGED allVars
  BY <1>1 DEF BrokerStep, DeadlockVictim, allVars
<1>2. CASE TickBegins
  BY <1>2, EngineBrokerAssumption DEF TickBegins, EngineNext
<1>3. CASE TickAnswered
  BY <1>3 DEF TickAnswered, EngineNext
<1>4. CASE ConnectionBreaks
  BY <1>4 DEF ConnectionBreaks, EngineNext
<1>5. CASE EngineStops
  BY <1>5 DEF EngineStops, EngineNext
<1>6. CASE EngineCall
  BY <1>6 DEF EngineCall, EngineNext
<1>7. CASE \E t \in announced : Notify(t) \/ PostLost(t)
  BY <1>7 DEF Notify, PostLost
<1> QED BY <1>1, <1>2, <1>3, <1>4, <1>5, <1>6, <1>7 DEF EngineBrokerNext

LEMMA StepsAreBrokerSteps ==
  [EngineBrokerNext]_allVars => [Next]_vars
<1> SUFFICES ASSUME [EngineBrokerNext]_allVars
             PROVE  [Next]_vars
  OBVIOUS
<1>1. CASE BrokerStep
  BY <1>1 DEF BrokerStep, Next, Reliable
<1>2. CASE DeadlockVictim
  BY <1>2 DEF DeadlockVictim, Next, Failure
<1>3. CASE TickBegins
  BY <1>3 DEF TickBegins, Next, Reliable
<1>4. CASE TickAnswered \/ ConnectionBreaks \/ EngineStops \/ EngineCall \/ UNCHANGED allVars
  BY <1>4 DEF TickAnswered, ConnectionBreaks, EngineStops, EngineCall, allVars
<1>5. CASE \E t \in announced : Notify(t) \/ PostLost(t)
  BY <1>5 DEF Notify, PostLost
<1> QED BY <1>1, <1>2, <1>3, <1>4, <1>5 DEF EngineBrokerNext

(* Driven by the engine, the engine and the broker each behave as they do  *)
(* alone, so the theorems about either hold of both together.              *)
THEOREM ComposedBehaviour == EngineBrokerSpec => EngineSpec /\ Spec
<1>1. EngineBrokerInit => EngineInit /\ Init
  BY DEF EngineBrokerInit
<1> QED BY <1>1, StepsAreEngineSteps, StepsAreBrokerSteps, PTL
        DEF EngineBrokerSpec, EngineSpec, Spec

\* The batches at work, and those of them no tick waits for.
Busy == {b \in Batches : pc[b] # "idle"}

Orphaned == Busy \ {awaited}

\* A batch without a tick has lost it to a broken connection or a restart.
OrphansExplained ==
  /\ faults \in Nat
  /\ IsFiniteSet(Busy)
  /\ Cardinality(Orphaned) <= faults

\* Adding at most one element to a finite set.
LEMMA OneMore ==
  ASSUME NEW S, NEW T, NEW x, IsFiniteSet(S), T \subseteq S \cup {x}
  PROVE  /\ IsFiniteSet(T)
         /\ Cardinality(S) \in Nat /\ Cardinality(T) \in Nat
         /\ Cardinality(T) <= Cardinality(S) + 1
<1>1. Cardinality(S) \in Nat
  BY FS_CardinalityType
<1>2. IsFiniteSet(S \cup {x})
  BY FS_AddElement
<1>3. Cardinality(S \cup {x}) = IF x \in S THEN Cardinality(S) ELSE Cardinality(S) + 1
  BY FS_AddElement
<1>4. IsFiniteSet(T) /\ Cardinality(T) <= Cardinality(S \cup {x})
  BY <1>2, FS_Subset
<1>5. Cardinality(T) \in Nat
  BY <1>4, FS_CardinalityType
<1> QED BY <1>1, <1>3, <1>4, <1>5

\* The inductive step, wherever the batches that have lost their tick grow by
\* no more than the faults.
LEMMA FewerOrphans ==
  ASSUME OrphansExplained,
         IsFiniteSet(Busy'),
         \/ Orphaned' \subseteq Orphaned /\ faults' = faults
         \/ Orphaned' \subseteq Orphaned \cup {awaited} /\ faults' = faults + 1
  PROVE  OrphansExplained'
<1>1. IsFiniteSet(Orphaned) /\ faults \in Nat /\ Cardinality(Orphaned) <= faults
  BY FS_Subset DEF OrphansExplained, Orphaned
<1>2. Cardinality(Orphaned) \in Nat
  BY <1>1, FS_CardinalityType
<1>3. CASE Orphaned' \subseteq Orphaned /\ faults' = faults
  <2>1. IsFiniteSet(Orphaned') /\ Cardinality(Orphaned') <= Cardinality(Orphaned)
    BY <1>1, <1>3, FS_Subset
  <2>2. Cardinality(Orphaned') \in Nat
    BY <2>1, FS_CardinalityType
  <2>3. Cardinality(Orphaned') <= faults' /\ faults' \in Nat
    BY <1>1, <1>2, <1>3, <2>1, <2>2
  <2> QED BY <2>3 DEF OrphansExplained
<1>4. CASE Orphaned' \subseteq Orphaned \cup {awaited} /\ faults' = faults + 1
  <2>1. Cardinality(Orphaned') \in Nat /\ Cardinality(Orphaned') <= Cardinality(Orphaned) + 1
    BY <1>1, <1>4, OneMore
  <2>2. Cardinality(Orphaned') <= faults' /\ faults' \in Nat
    BY <1>1, <1>2, <1>4, <2>1
  <2> QED BY <2>2 DEF OrphansExplained
<1> QED BY <1>3, <1>4

\* No step of the broker begins a batch, but those the engine asks for.
LEMMA BrokerKeepsBusy ==
  ASSUME TypeOK, BrokerStep \/ DeadlockVictim
  PROVE  Busy' \subseteq Busy
<1>0. /\ pc \in [Sessions -> Labels]
      /\ Requests \cap Batches = {} /\ Sessions = Requests \cup Batches
  BY BrokerAssumption DEF TypeOK, Labels, Sessions
<1>1. ASSUME NEW s \in Sessions, NEW label, NEW u, Goto(s, label, u),
             s \in Requests \/ pc[s] # "idle"
      PROVE  Busy' \subseteq Busy
  BY <1>0, <1>1 DEF Goto, Busy
<1>2. ASSUME NEW r \in Requests, QuickStart(r) \/ MoneyStart(r) \/ LongStart(r) \/ Finish(r)
      PROVE  \E label, u : Goto(r, label, u)
  <2>1. CASE QuickStart(r)
    BY <2>1, Zenon DEF QuickStart, BuyCheck, SellReadBalance
  <2>2. CASE MoneyStart(r)
    BY <2>2, Zenon DEF MoneyStart, Deposit, Withdraw, ModifyBalance
  <2>3. CASE LongStart(r)
    BY <2>3, Zenon DEF LongStart, CreateLong
  <2>4. CASE SellCheck(r) \/ SellRefuse(r) \/ Save(r)
    BY <2>4, Zenon DEF SellCheck, SellRefuse, Save
  <2>5. CASE Compute(r)
    BY <2>5, Zenon DEF Compute
  <2> QED BY <1>2, <2>1, <2>2, <2>3, <2>4, <2>5 DEF Finish
<1>3. ASSUME NEW b \in Batches, BatchStep(b) \/ BatchFail(b)
      PROVE  pc[b] # "idle" /\ \E label, u : Goto(b, label, u)
  <2>1. CASE BatchSaveOverdue(b) \/ BatchCommit(b) \/ BatchFail(b)
    BY <2>1, Zenon DEF BatchSaveOverdue, BatchCommit, BatchFail
  <2>2. ASSUME NEW t, NEW p, LongBuy(b, t, p)
        PROVE  pc[b] # "idle" /\ \E label, u : Goto(b, label, u)
    BY <2>2, Zenon DEF LongBuy, Handled
  <2>3. ASSUME NEW t, NEW p, LongSell(b, t, p)
        PROVE  pc[b] # "idle" /\ \E label, u : Goto(b, label, u)
    BY <2>3, Zenon DEF LongSell, Handled
  <2>4. ASSUME NEW t, NotLong(b, t)
        PROVE  pc[b] # "idle" /\ \E label, u : Goto(b, label, u)
    BY <2>4, Zenon DEF NotLong, Handled
  <2> QED BY <1>3, <2>1, <2>2, <2>3, <2>4 DEF BatchStep
<1>4. CASE \E t \in DOMAIN trades : Expire(t)
  BY <1>4 DEF Expire, Busy
<1> QED BY <1>0, <1>1, <1>2, <1>3, <1>4 DEF BrokerStep, DeadlockVictim

LEMMA OrphansInit == EngineBrokerInit => OrphansExplained
<1> SUFFICES ASSUME EngineBrokerInit PROVE OrphansExplained
  OBVIOUS
<1>1. Busy = {} /\ Orphaned = {} /\ faults = 0
  BY DEF EngineBrokerInit, Init, Busy, Orphaned, Sessions
<1> QED BY <1>1, FS_EmptySet DEF OrphansExplained

LEMMA OrphansNext ==
  TypeOK /\ OrphansExplained /\ [EngineBrokerNext]_allVars => OrphansExplained'
<1> SUFFICES ASSUME TypeOK, OrphansExplained, [EngineBrokerNext]_allVars
             PROVE  OrphansExplained'
  OBVIOUS
<1>0. IsFiniteSet(Busy) /\ pc \in [Sessions -> Labels] /\ Batches \subseteq Sessions
  BY DEF OrphansExplained, TypeOK, Labels, Sessions
<1>1. CASE BrokerStep \/ DeadlockVictim
  <2>1. Busy' \subseteq Busy /\ awaited' = awaited /\ faults' = faults
    BY <1>1, BrokerKeepsBusy DEF BrokerStep, DeadlockVictim, engineVars
  <2>2. IsFiniteSet(Busy') /\ Orphaned' \subseteq Orphaned
    BY <1>0, <2>1, FS_Subset DEF Orphaned
  <2> QED BY <2>1, <2>2, FewerOrphans
<1>2. CASE TickBegins
  <2>1. PICK s \in Schedules, b \in Batches : Tick(s, b) /\ BatchBegin(b)
    BY <1>2 DEF TickBegins
  <2>2. awaited = None /\ awaited' = b /\ faults' = faults
    BY <1>2, <2>1 DEF Tick, TickBegins
  <2>3. pc[b] = "idle" /\ \E u : pc' = [pc EXCEPT ![b] = "overdue"]
    BY <2>1, Zenon DEF BatchBegin, Begin, Goto
  <2>4. Busy' \subseteq Busy \cup {b} /\ b \notin Busy
    BY <1>0, <2>3 DEF Busy
  <2>5. Orphaned' \subseteq Orphaned
    BY <2>2, <2>4, EngineAssumption, EngineBrokerAssumption DEF Orphaned, Busy
  <2>6. IsFiniteSet(Busy')
    BY <1>0, <2>4, OneMore
  <2> QED BY <2>2, <2>5, <2>6, FewerOrphans
<1>3. CASE TickAnswered
  <2>1. PICK b \in Batches : awaited = b /\ pc[b] = "idle"
    BY <1>3 DEF TickAnswered
  <2>2. Busy' = Busy /\ faults' = faults
    BY <1>3 DEF TickAnswered, vars, Busy
  <2>3. Orphaned' \subseteq Orphaned
    BY <2>1, <2>2 DEF Orphaned, Busy
  <2> QED BY <1>0, <2>2, <2>3, FewerOrphans
<1>4. CASE ConnectionBreaks \/ EngineStops
  <2>1. Busy' = Busy /\ faults' = faults + 1
    BY <1>4 DEF ConnectionBreaks, EngineStops, Fault, vars, Busy
  <2>2. Orphaned' \subseteq Orphaned \cup {awaited}
    BY <2>1 DEF Orphaned
  <2> QED BY <1>0, <2>1, <2>2, FewerOrphans
<1>5. CASE EngineCall
  <2>1. awaited' = awaited
    BY <1>5 DEF EngineCall, CallStep, Start, Stop, StartCheck, StartSchedule, StartAssign,
                StopCheck, StopCancel, StopThrows, StopClear
  <2>2. Busy' = Busy /\ faults' = faults
    BY <1>5 DEF EngineCall, vars, Busy
  <2> QED BY <1>0, <2>1, <2>2, FewerOrphans DEF Orphaned
<1>6. CASE UNCHANGED allVars
  BY <1>6 DEF allVars, vars, engineVars, OrphansExplained, Orphaned, Busy
<1>7. CASE \E t \in announced : Notify(t)
  <2>1. Busy' = Busy /\ Orphaned' = Orphaned /\ faults' = faults
    BY <1>7 DEF Notify, vars, engineVars, Busy, Orphaned
  <2> QED BY <1>0, <2>1, FewerOrphans
<1>8. CASE \E t \in announced : PostLost(t)
  <2>1. Busy' = Busy /\ Orphaned' = Orphaned /\ faults' = faults + 1
    BY <1>8 DEF PostLost, Fault, vars, engineVars, Busy, Orphaned
  <2> QED BY <1>0, <2>1, FewerOrphans
<1> QED BY <1>1, <1>2, <1>3, <1>4, <1>5, <1>6, <1>7, <1>8 DEF EngineBrokerNext

(* However many schedules overlapping starts have left, the engine never   *)
(* has more batches at work than one and one more for each connection that *)
(* has broken and each restart: its scheduler runs one tick at a time      *)
(* (EngineApplication), and a tick waits for its batch (tradeLogic).       *)
THEOREM OneBatchAtATime == EngineBrokerSpec => []BatchesExplained
<1>1. OrphansExplained => BatchesExplained
  <2> SUFFICES ASSUME OrphansExplained PROVE BatchesExplained
    OBVIOUS
  <2>1. IsFiniteSet(Orphaned) /\ faults \in Nat /\ Cardinality(Orphaned) <= faults
    BY FS_Subset DEF OrphansExplained, Orphaned
  <2>2. Busy \subseteq Orphaned \cup {awaited}
    BY DEF Orphaned
  <2>3. /\ Cardinality(Orphaned) \in Nat /\ Cardinality(Busy) \in Nat
        /\ Cardinality(Busy) <= Cardinality(Orphaned) + 1
    BY <2>1, <2>2, OneMore
  <2>4. Cardinality(Busy) <= 1 + faults
    BY <2>1, <2>3
  <2> QED BY <2>4, Zenon DEF BatchesExplained, Busy
<1>2. EngineBrokerSpec => Spec
  BY ComposedBehaviour, PTL
<1> QED BY <1>1, <1>2, TypeCorrect, OrphansInit, OrphansNext, PTL DEF EngineBrokerSpec

=============================================================================
