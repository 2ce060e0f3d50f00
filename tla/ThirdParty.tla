----------------------------- MODULE ThirdParty -----------------------------
(***************************************************************************)
(* The third party: a manufacturer and a courier, each a list of processes *)
(* in memory that a scheduler thread walks through again and again.  The   *)
(* walk uses an iterator: a process added meanwhile makes its next step    *)
(* throw, which ends the walk before what it finished has been removed.  A *)
(* definition marked as a mutant is a later one with a bug in it; nothing  *)
(* else uses it.                                                           *)
(***************************************************************************)
EXTENDS Integers, Sequences, FiniteSets

CONSTANTS
  Orders,     \* ids of the orders a process may be for
  FlagValues  \* values the flag factory_crisis may take

VARIABLES
  making,   \* ManufactureScheduler.syncList
  sending,  \* CourierScheduler.syncList
  thread,   \* the two scheduler threads
  crisis    \* the feature flag factory_crisis

thirdVars == <<making, sending, thread, crisis>>

Threads == {"manufacture", "courier"}

Asleep == [at |-> "idle", next |-> 1, remove |-> {}, grown |-> FALSE]

ThirdInit ==
  /\ making = <<>>
  /\ sending = <<>>
  /\ thread = [t \in Threads |-> Asleep]
  /\ crisis \in FlagValues

\* Adding to the list of thread t is seen by the iterator it holds, if any.
NoticeGrowth(t) == [thread[t] EXCEPT !.grown = thread[t].at # "idle"]

\* ManufacturerController.issueCreditCard
IssueCreditCard(o) ==
  /\ making' = Append(making, [id |-> o, state |-> "issuing"])
  /\ thread' = [thread EXCEPT !["manufacture"] = NoticeGrowth("manufacture")]
  /\ UNCHANGED <<sending, crisis>>

-----------------------------------------------------------------------------
(* What the two schedulers have in common                                  *)

Walk(t, list) ==
  /\ thread[t].at = "idle" /\ list # <<>>
  /\ thread' = [thread EXCEPT ![t].at = "scan"]
  /\ UNCHANGED <<making, sending, crisis>>

\* The iterator of t has delivered the process at n.
Visits(t, list, n) ==
  thread[t].at = "scan" /\ thread[t].next = n /\ n \in DOMAIN list /\ ~thread[t].grown

\* ConcurrentModificationException
Disturbed(t) ==
  /\ thread[t].at = "scan" /\ thread[t].grown
  /\ thread' = [thread EXCEPT ![t] = Asleep]
  /\ UNCHANGED <<making, sending, crisis>>

\* The processes that are not removed, in their order.
Kept(list, remove) ==
  LET stays == DOMAIN list \ remove
      place == CHOOSE f \in [1..Cardinality(stays) -> stays] :
                 \A i, j \in DOMAIN f : i < j => f[i] < f[j]
  IN  [k \in DOMAIN place |-> list[place[k]]]

Finished(t, list) == thread[t].at = "scan" /\ thread[t].next = Len(list) + 1

\* updateStatus returns, whatever the status code of the answer.
Answered(t) ==
  /\ thread[t].at = "waiting"
  /\ thread' = [thread EXCEPT ![t] = [thread[t] EXCEPT !.at = "scan", !.next = @ + 1]]
  /\ UNCHANGED <<making, sending, crisis>>

\* updateStatus throws: the walk ends, the process keeps its new state.
Broken(t) ==
  /\ thread[t].at = "waiting"
  /\ thread' = [thread EXCEPT ![t] = Asleep]
  /\ UNCHANGED <<making, sending, crisis>>

-----------------------------------------------------------------------------
(* ManufactureScheduler.run                                                *)

\* Mutant of MakeCard: a process that has failed once always fails.
MakeCardAtOnce(o, type) ==
  \E n \in DOMAIN making :
    /\ Visits("manufacture", making, n)
    /\ making[n].id = o /\ making[n].state \in {"issuing", "error"}
    /\ \/ /\ type = "card_error" /\ (crisis => making[n].state = "issuing")
          /\ making' = [making EXCEPT ![n].state = "error"]
       \/ /\ type = "card_created" /\ ~crisis /\ making[n].state = "issuing"
          /\ making' = [making EXCEPT ![n].state = "created"]
    /\ thread' = [thread EXCEPT !["manufacture"].at = "waiting"]
    /\ UNCHANGED <<sending, crisis>>

\* processIssueAndErrorStatus up to updateStatus(type, o): the state is set
\* before it is reported.
MakeCard(o, type) ==
  \E n \in DOMAIN making :
    /\ Visits("manufacture", making, n)
    /\ making[n].id = o /\ making[n].state \in {"issuing", "error"}
    /\ \/ /\ type = "card_error" /\ (crisis => making[n].state = "issuing")
          /\ making' = [making EXCEPT ![n].state = "error"]
       \/ /\ type = "card_created" /\ ~crisis
          /\ making' = [making EXCEPT ![n].state = "created"]
    /\ thread' = [thread EXCEPT !["manufacture"].at = "waiting"]
    /\ UNCHANGED <<sending, crisis>>

\* Nothing happens to a failed process while the crisis lasts.
SkipFailed ==
  \E n \in DOMAIN making :
    /\ Visits("manufacture", making, n)
    /\ making[n].state = "error" /\ crisis
    /\ thread' = [thread EXCEPT !["manufacture"].next = n + 1]
    /\ UNCHANGED <<making, sending, crisis>>

HandOver(o) ==
  \E n \in DOMAIN making :
    /\ Visits("manufacture", making, n)
    /\ making[n].id = o /\ making[n].state = "created"
    /\ sending' = Append(sending, [id |-> o, state |-> "new", ship |-> 0])
    /\ thread' = [thread EXCEPT
         !["manufacture"] = [thread["manufacture"] EXCEPT !.next = n + 1, !.remove = @ \cup {n}],
         !["courier"] = NoticeGrowth("courier")]
    /\ UNCHANGED <<making, crisis>>

ManufactureEnds ==
  /\ Finished("manufacture", making)
  /\ making' = Kept(making, thread["manufacture"].remove)
  /\ thread' = [thread EXCEPT !["manufacture"] = Asleep]
  /\ UNCHANGED <<sending, crisis>>

-----------------------------------------------------------------------------
(* CourierScheduler.run                                                    *)

\* processNewCardReceivedStatus with an address, up to updateStatus.
SendCard(o, ship) ==
  \E n \in DOMAIN sending :
    /\ Visits("courier", sending, n)
    /\ sending[n].id = o /\ sending[n].state = "new"
    /\ sending' = [sending EXCEPT ![n] = [@ EXCEPT !.state = "sent", !.ship = ship]]
    /\ thread' = [thread EXCEPT !["courier"].at = "waiting"]
    /\ UNCHANGED <<making, crisis>>

\* The order service knows no address: the process stays for the next run.
NoAddress(o) ==
  \E n \in DOMAIN sending :
    /\ Visits("courier", sending, n)
    /\ sending[n].id = o /\ sending[n].state = "new"
    /\ thread' = [thread EXCEPT !["courier"].next = n + 1]
    /\ UNCHANGED <<making, sending, crisis>>

\* processCardSentStatus up to updateStatus.
DeliverCard(o) ==
  \E n \in DOMAIN sending :
    /\ Visits("courier", sending, n)
    /\ sending[n].id = o /\ sending[n].state = "sent"
    /\ sending' = [sending EXCEPT ![n].state = "delivered"]
    /\ thread' = [thread EXCEPT !["courier"].at = "waiting"]
    /\ UNCHANGED <<making, crisis>>

ForgetDelivered ==
  \E n \in DOMAIN sending :
    /\ Visits("courier", sending, n)
    /\ sending[n].state = "delivered"
    /\ thread' = [thread EXCEPT !["courier"] =
                    [thread["courier"] EXCEPT !.next = n + 1, !.remove = @ \cup {n}]]
    /\ UNCHANGED <<making, sending, crisis>>

CourierEnds ==
  /\ Finished("courier", sending)
  /\ sending' = Kept(sending, thread["courier"].remove)
  /\ thread' = [thread EXCEPT !["courier"] = Asleep]
  /\ UNCHANGED <<making, crisis>>

\* getShippingAddress throws: the walk ends.
AddressFails ==
  \E n \in DOMAIN sending :
    /\ Visits("courier", sending, n) /\ sending[n].state = "new"
    /\ thread' = [thread EXCEPT !["courier"] = Asleep]
    /\ UNCHANGED <<making, sending, crisis>>

-----------------------------------------------------------------------------
\* The flag is switched in the feature flag service.
CrisisBegins == ~crisis /\ TRUE \in FlagValues /\ crisis' = TRUE /\ UNCHANGED <<making, sending, thread>>

CrisisEnds == crisis /\ FALSE \in FlagValues /\ crisis' = FALSE /\ UNCHANGED <<making, sending, thread>>

\* The process stops: both lists are gone.
ThirdCrash ==
  /\ making' = <<>> /\ sending' = <<>>
  /\ thread' = [t \in Threads |-> Asleep]
  /\ UNCHANGED crisis

\* Steps of a thread that involve nobody else.
ManufactureStep ==
  \/ Walk("manufacture", making) \/ Disturbed("manufacture")
  \/ SkipFailed \/ ManufactureEnds

CourierStep ==
  \/ Walk("courier", sending) \/ Disturbed("courier")
  \/ ForgetDelivered \/ CourierEnds

=============================================================================
