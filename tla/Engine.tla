------------------------------- MODULE Engine -------------------------------
(***************************************************************************)
(* The engine: a schedule that posts /trade/long/process to the broker     *)
(* every minute, and the endpoints /start and /stop that create and cancel *)
(* it.  They check and assign the field scheduledFuture without a lock or  *)
(* volatile.  The thread pool of the scheduler has one thread, so a tick   *)
(* that is due while the pool waits for the broker is run later.           *)
(*                                                                         *)
(* A schedule has the name of the call that created it, or Boot for the    *)
(* one of @PostConstruct.  A definition marked as a mutant is the next one *)
(* with a bug in it; nothing else uses it.                                 *)
(***************************************************************************)
CONSTANTS
  Starts,  \* calls of /start
  Stops,   \* calls of /stop
  Boot,    \* the schedule created when the engine starts
  Posts,   \* posts to the broker that may be in progress
  None     \* Java's null, and no post

Calls == Starts \cup Stops

Schedules == Starts \cup {Boot}

ASSUME EngineAssumption ==
  Starts \cap Stops = {} /\ Boot \notin Starts /\ None \notin Schedules \cup Posts

VARIABLES
  scheduled,  \* the field scheduledFuture
  live,       \* schedules that have been created and not cancelled
  at,         \* where each call is
  seen,       \* the schedule a stop has read, then the one it has cancelled
  awaited     \* the post the thread of the pool is waiting for

engineVars == <<scheduled, live, at, seen, awaited>>

EngineInit ==
  /\ scheduled = Boot
  /\ live = {Boot}
  /\ at = [c \in Calls |-> "idle"]
  /\ seen = [c \in Calls |-> None]
  /\ awaited = None

Move(c, from, to) == at[c] = from /\ at' = [at EXCEPT ![c] = to]

-----------------------------------------------------------------------------
(* A call that finds nothing to do ("scheduler was already started!")      *)
(* changes nothing and is not a step.                                      *)

(* start: the check, the creation of the schedule, and the assignment.     *)

StartCheck(c) ==
  /\ scheduled = None
  /\ Move(c, "idle", "starting")
  /\ UNCHANGED <<scheduled, live, seen, awaited>>

\* scheduleAtFixedRate: the first tick is due at once.
StartSchedule(c) ==
  /\ Move(c, "starting", "assigning")
  /\ live' = live \cup {c}
  /\ UNCHANGED <<scheduled, seen, awaited>>

StartAssign(c) ==
  /\ Move(c, "assigning", "done")
  /\ scheduled' = c
  /\ UNCHANGED <<live, seen, awaited>>

-----------------------------------------------------------------------------
(* stop: the check, cancel(false), and the assignment of null.  The field  *)
(* is read twice and may have been assigned in between; the compiled code  *)
(* may also use the value of the first read again.                         *)

StopCheck(c) ==
  /\ scheduled # None
  /\ Move(c, "idle", "stopping")
  /\ seen' = [seen EXCEPT ![c] = scheduled]
  /\ UNCHANGED <<scheduled, live, awaited>>

StopCancel(c) ==
  /\ Move(c, "stopping", "clearing")
  /\ \E s \in {seen[c], scheduled} \ {None} :
       /\ live' = live \ {s}
       /\ seen' = [seen EXCEPT ![c] = s]
  /\ UNCHANGED <<scheduled, awaited>>

\* NullPointerException: another stop has assigned null.
StopThrows(c) ==
  /\ scheduled = None
  /\ Move(c, "stopping", "done")
  /\ UNCHANGED <<scheduled, live, seen, awaited>>

\* Mutant of StopClear: the cancelled schedule is left in the field.
StopWithoutClear(c) ==
  /\ Move(c, "clearing", "done")
  /\ UNCHANGED <<scheduled, live, seen, awaited>>

StopClear(c) ==
  /\ Move(c, "clearing", "done")
  /\ scheduled' = None
  /\ UNCHANGED <<live, seen, awaited>>

-----------------------------------------------------------------------------
(* Ticks: tradeLogic.                                                      *)

\* Mutant of Tick: a thread for each schedule.
TickInParallel(s, p) ==
  /\ s \in live
  /\ awaited' = p
  /\ UNCHANGED <<scheduled, live, at, seen>>

\* Schedule s posts p and waits; cancelling s does not end the wait.
Tick(s, p) ==
  /\ awaited = None /\ s \in live
  /\ awaited' = p
  /\ UNCHANGED <<scheduled, live, at, seen>>

\* An answer, whatever its code, or an IOException: both are only logged.
TickEnds ==
  /\ awaited # None
  /\ awaited' = None
  /\ UNCHANGED <<scheduled, live, at, seen>>

\* The engine stops (which calls stop() and interrupts the tick) or is killed,
\* and is started again.
Restart ==
  /\ scheduled' = Boot
  /\ live' = {Boot}
  /\ at' = [c \in Calls |-> IF at[c] = "idle" THEN "idle" ELSE "done"]
  /\ awaited' = None
  /\ UNCHANGED seen

-----------------------------------------------------------------------------
Start(c) == StartCheck(c) \/ StartSchedule(c) \/ StartAssign(c)

Stop(c) == StopCheck(c) \/ StopCancel(c) \/ StopThrows(c) \/ StopClear(c)

CallStep == (\E c \in Starts : Start(c)) \/ (\E c \in Stops : Stop(c))

EngineNext ==
  \/ CallStep
  \/ \E s \in Schedules, p \in Posts : Tick(s, p)
  \/ TickEnds
  \/ Restart

EngineSpec == EngineInit /\ [][EngineNext]_engineVars

-----------------------------------------------------------------------------
(* Every variable has its type; the one type invariant of this module.     *)
EngineTypeOK ==
  /\ scheduled \in Schedules \cup {None}
  /\ live \subseteq Schedules
  /\ at \in [Calls -> {"idle", "starting", "assigning", "stopping", "clearing", "done"}]
  /\ seen \in [Calls -> Schedules \cup {None}]
  /\ awaited \in Posts \cup {None}

(* /status tells the truth when it says "running": unless a stop is about  *)
(* to assign null, the schedule in the field is there and ticks.  However  *)
(* starts and stops overlap, none leaves a cancelled schedule behind that  *)
(* would make every later start answer "already started".                  *)
RunningIsTrue ==
  scheduled # None /\ (\A c \in Calls : at[c] # "clearing") => scheduled \in live

(* The inductive invariant behind it.                                      *)

\* A schedule that is not in live has been cancelled by a stop that is yet to
\* assign null.
CancelledIsCleared ==
  scheduled \in live \cup {None}
    \/ \E c \in Calls : at[c] = "clearing" /\ seen[c] = scheduled

\* A call that has not assigned its schedule is the only one to know it.
Unknown(s) == scheduled # s /\ \A c \in Calls : seen[c] # s

NotYetAssigned ==
  \A c \in Starts :
    /\ at[c] \in {"idle", "starting", "assigning"} => Unknown(c)
    /\ at[c] = "assigning" => c \in live

EngineInv == EngineTypeOK /\ CancelledIsCleared /\ NotYetAssigned

=============================================================================
