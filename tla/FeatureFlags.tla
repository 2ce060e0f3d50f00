---------------------------- MODULE FeatureFlags ----------------------------
(***************************************************************************)
(* One modifiable flag: the registry of feature-flag-service, which keeps  *)
(* it in memory only, the page of the frontend that shows and toggles it,  *)
(* and other clients that set it.  The page is open all the time; the      *)
(* header of the frontend observes the list of flags on every page.        *)
(***************************************************************************)
EXTENDS Naturals, FiniteSets

CONSTANTS
  Managed,     \* frontend_feature_flag_management: the page may modify flags
  MaxChanges,  \* bound: changes of the flag
  MaxFaults    \* bound: calls that fail, and processes that stop

ASSUME FlagAssumption ==
  /\ Managed \in BOOLEAN
  /\ MaxChanges \in Nat \ {0} /\ MaxFaults \in Nat

VARIABLES
  flag,       \* how often the flag has changed; it is off at the start
  config,     \* what the page knows of Managed
  list,       \* the query of the page for the list of flags
  toggle,     \* the call of the button of the flag
  announced,  \* the change after which the page last announced success
  faults      \* faults so far

flagVars == <<flag, config, list, toggle, announced, faults>>

Enabled(n) == n % 2 = 1

\* A failed read of the list answers an empty one.
Blank == MaxChanges + 1

QC == INSTANCE QueryCache WITH Readers <- {"page"}, Readings <- 0..MaxChanges + 1

Idle == [at |-> "idle", want |-> FALSE, done |-> 0]

Fault == faults < MaxFaults /\ faults' = faults + 1

-----------------------------------------------------------------------------
(* The service                                                             *)

\* updateFlag sets the value, whatever it was.
Set(want) ==
  IF Enabled(flag) = want THEN flag' = flag ELSE flag < MaxChanges /\ flag' = flag + 1

\* Another tab, or the curl command that the page offers.
OthersSet ==
  /\ \E want \in BOOLEAN : Enabled(flag) # want /\ Set(want)
  /\ UNCHANGED <<config, list, toggle, announced, faults>>

\* The service starts again with the value that its environment gives.
ServiceRestarts ==
  /\ Enabled(flag) /\ Set(FALSE)
  /\ Fault
  /\ UNCHANGED <<config, list, toggle, announced>>

-----------------------------------------------------------------------------
(* The page                                                                *)

\* getConfig: the default is that the page may modify flags.
ReadConfig ==
  /\ \/ config' = (IF Managed THEN "allowed" ELSE "forbidden") /\ UNCHANGED faults
     \/ config' = "allowed" /\ Fault
  /\ config' # config
  /\ UNCHANGED <<flag, list, toggle, announced>>

\* An observer is mounted, or the window gets the focus when the list is stale.
ReadList ==
  /\ ~QC!Fetching(list)
  /\ list' = QC!Join(list, "page")
  /\ UNCHANGED <<flag, config, toggle, announced, faults>>

\* The button waits until the list has been read again, or that read is cancelled.
Announce ==
  IF toggle.at = "refreshing"
    THEN toggle' = Idle /\ announced' = toggle.done
    ELSE UNCHANGED <<toggle, announced>>

\* The button of the page: refetchQueries of all flags.
ReloadList ==
  /\ QC!HasData(list) /\ list' = QC!Request(list, "page")
  /\ IF QC!Fetching(list) THEN Announce ELSE UNCHANGED <<toggle, announced>>
  /\ UNCHANGED <<flag, config, faults>>

ServeList ==
  /\ \E f \in list.fetch : f.got = {}
  /\ \/ list' = QC!Served(list, flag) /\ UNCHANGED faults
     \/ list' = QC!Served(list, Blank) /\ Fault
  /\ UNCHANGED <<flag, config, toggle, announced>>

LandList ==
  /\ \E f \in list.fetch : f.got # {} /\ list' = QC!Landed(f)
  /\ Announce
  /\ UNCHANGED <<flag, config, faults>>

\* The button of a FeatureFlagItem, enabled while its flag is in the list.
ClickToggle ==
  /\ config = "allowed" /\ toggle = Idle
  /\ \E d \in list.data :
       /\ d.ver # Blank
       /\ toggle' = [Idle EXCEPT !.at = "sent", !.want = ~Enabled(d.ver)]
  /\ UNCHANGED <<flag, config, list, announced, faults>>

\* handleFlagToggle puts the value wanted.
CarryOutToggle ==
  /\ toggle.at = "sent"
  /\ Set(toggle.want)
  /\ toggle' = [toggle EXCEPT !.at = "done", !.done = flag']
  /\ UNCHANGED <<config, list, announced, faults>>

\* The call fails, or its answer is lost.
ToggleFails ==
  /\ toggle.at \in {"sent", "done"}
  /\ toggle' = Idle
  /\ Fault
  /\ UNCHANGED <<flag, config, list, announced>>

\* Success: the list is read again before the page says so.
ToggleAnswered ==
  /\ toggle.at = "done"
  /\ list' = QC!Invalidate(list, "page", TRUE)
  /\ toggle' = [toggle EXCEPT !.at = "refreshing"]
  /\ UNCHANGED <<flag, config, announced, faults>>

-----------------------------------------------------------------------------
FlagInit ==
  /\ flag = 0
  /\ config = "unread"
  /\ list = QC!Absent
  /\ toggle = Idle /\ announced = 0
  /\ faults = 0

PageSteps ==
  \/ ReadConfig \/ ReadList \/ ReloadList \/ ServeList \/ LandList
  \/ ClickToggle \/ CarryOutToggle \/ ToggleFails \/ ToggleAnswered

FlagNext == OthersSet \/ ServiceRestarts \/ PageSteps

-----------------------------------------------------------------------------
(* Properties                                                              *)

FlagTypeOK ==
  /\ flag \in 0..MaxChanges
  /\ config \in {"unread", "allowed", "forbidden"}
  /\ list \in QC!Entries
  /\ toggle \in [at : {"idle", "sent", "done", "refreshing"}, want : BOOLEAN, done : 0..MaxChanges]
  /\ announced \in 0..MaxChanges
  /\ faults \in 0..MaxFaults

(* What the page has announced it shows, or it is about to: no read of the *)
(* list that was answered before the toggle survives it.  An empty list    *)
(* stands for a read that failed.                                          *)
AnnouncedIsShown ==
  LET Old(v) == v # Blank /\ v < announced
  IN  /\ \A d \in list.data : Old(d.ver) => QC!Fetching(list)
      /\ \A f \in list.fetch : \A v \in f.got : ~Old(v)
=============================================================================
