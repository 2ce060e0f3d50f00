------------------------- MODULE CardLifecycle_proofs -------------------------
(***************************************************************************)
(* Theorems about the credit card orders together with the processes of    *)
(* the third party: their types, whatever breaks, and, while nothing       *)
(* breaks, that an order has one card and climbs the stages of             *)
(* CardLifecycle.                                                          *)
(***************************************************************************)
EXTENDS CardFlow_proofs

-----------------------------------------------------------------------------
(* What stays in a list                                                    *)

\* How many elements of S come no later than n.
Rank(S, n) == Cardinality({m \in S : m <= n})

LEMMA RankGrows ==
  ASSUME NEW S \in SUBSET Nat, IsFiniteSet(S), NEW a \in S, NEW b \in S, a < b
  PROVE  Rank(S, a) < Rank(S, b)
<1> DEFINE A == {m \in S : m <= a}
           B == {m \in S : m <= b}
<1>1. A \in SUBSET B /\ b \in B /\ b \notin A /\ B \in SUBSET S
  <2>1. a \in Nat /\ b \in Nat /\ \A m \in S : m \in Nat
    OBVIOUS
  <2>2. \A m \in S : m <= a => m <= b
    BY <2>1
  <2>3. b <= b /\ ~(b <= a)
    BY <2>1
  <2> QED BY <2>2, <2>3
<1> HIDE DEF A, B
<1>2. IsFiniteSet(B)
  BY <1>1, FS_Subset
<1>3. IsFiniteSet(A) /\ Cardinality(A) <= Cardinality(B) /\ (Cardinality(B) = Cardinality(A) => B = A)
  BY <1>1, <1>2, FS_Subset
<1>4. Cardinality(A) \in Nat /\ Cardinality(B) \in Nat
  BY <1>2, <1>3, FS_CardinalityType
<1>5. Cardinality(A) < Cardinality(B)
  BY <1>1, <1>3, <1>4
<1> QED BY <1>5 DEF A, B, Rank

LEMMA RankBounds ==
  ASSUME NEW S \in SUBSET Nat, IsFiniteSet(S), NEW n \in S
  PROVE  Rank(S, n) \in 1..Cardinality(S)
<1> DEFINE A == {m \in S : m <= n}
<1>1. A \in SUBSET S /\ n \in A
  OBVIOUS
<1> HIDE DEF A
<1>2. IsFiniteSet(A) /\ Cardinality(A) <= Cardinality(S)
  BY <1>1, FS_Subset
<1>3. Cardinality(A) \in Nat /\ Cardinality(S) \in Nat
  BY <1>2, FS_CardinalityType
<1>4. Cardinality(A) # 0
  BY <1>1, <1>2, FS_EmptySet
<1> QED BY <1>2, <1>3, <1>4 DEF A, Rank

\* A finite set of numbers can be enumerated in their order.
LEMMA Enumerated ==
  ASSUME NEW S \in SUBSET Nat, IsFiniteSet(S)
  PROVE  /\ Cardinality(S) \in Nat
         /\ \E f \in [1..Cardinality(S) -> S] : \A i, j \in DOMAIN f : i < j => f[i] < f[j]
<1> DEFINE K == Cardinality(S)
           rank == [n \in S |-> Rank(S, n)]
           f == [k \in 1..K |-> CHOOSE n \in S : rank[n] = k]
<1>1. K \in Nat /\ IsFiniteSet(1..K) /\ Cardinality(1..K) = K
  <2>1. K \in Nat
    BY FS_CardinalityType
  <2>2. IsFiniteSet(1..K) /\ Cardinality(1..K) = IF 1 > K THEN 0 ELSE K - 1 + 1
    BY <2>1, FS_Interval
  <2> QED BY <2>1, <2>2
<1>2. rank \in [S -> 1..K]
  BY RankBounds
<1>3. \A a, b \in S : a < b => rank[a] < rank[b]
  BY RankGrows
<1> HIDE DEF rank
<1>4. rank \in Injection(S, 1..K)
  <2>1. \A a, b \in S : rank[a] = rank[b] => a = b
    <3> SUFFICES ASSUME NEW a \in S, NEW b \in S, rank[a] = rank[b] PROVE a = b
      OBVIOUS
    <3>1. rank[a] \in 1..K /\ rank[b] \in 1..K /\ a \in Nat /\ b \in Nat
      BY <1>2
    <3> QED BY <1>1, <1>3, <3>1
  <2> QED BY <1>2, <2>1 DEF Injection, IsInjective
<1>5. rank \in Surjection(S, 1..K)
  <2>1. Cardinality(S) = Cardinality(1..K)
    BY <1>1
  <2> HIDE DEF K
  <2> QED BY <1>1, <1>4, <2>1, FS_Injection
<1>6. \A k \in 1..K : \E n \in S : rank[n] = k
  BY <1>5 DEF Surjection
<1>7. \A k \in 1..K : f[k] \in S /\ rank[f[k]] = k
  BY <1>6
<1>8. f \in [1..K -> S]
  BY <1>7
<1>9. \A i, j \in 1..K : i < j => f[i] < f[j]
  <2> SUFFICES ASSUME NEW i \in 1..K, NEW j \in 1..K, i < j PROVE f[i] < f[j]
    OBVIOUS
  <2> HIDE DEF f
  <2>1. f[i] \in S /\ f[j] \in S /\ rank[f[i]] = i /\ rank[f[j]] = j
    BY <1>7
  <2>2. f[i] \in Nat /\ f[j] \in Nat
    BY <2>1
  <2>3. f[i] # f[j]
    BY <2>1
  <2>4. ~(f[j] < f[i])
    <3>1. f[j] < f[i] => j < i
      BY <1>3, <2>1
    <3>2. i \in Nat /\ j \in Nat
      BY <1>1
    <3> QED BY <3>1, <3>2
  <2> QED BY <2>2, <2>3, <2>4
<1> HIDE DEF f
<1> QED BY <1>1, <1>8, <1>9

\* Where each element of kept stands in list.
Placed(kept, list, place) ==
  /\ DOMAIN place = DOMAIN kept
  /\ \A i \in DOMAIN place : place[i] \in DOMAIN list /\ kept[i] = list[place[i]]
  /\ \A i, j \in DOMAIN place : i # j => place[i] # place[j]

\* What is kept of a list are different elements of it.
LEMMA KeptList ==
  ASSUME NEW E, NEW list \in Seq(E), NEW remove
  PROVE  /\ Kept(list, remove) \in Seq(E)
         /\ \E place : Placed(Kept(list, remove), list, place)
<1> DEFINE stays == DOMAIN list \ remove
           Rising(f) == \A i, j \in DOMAIN f : i < j => f[i] < f[j]
           place == CHOOSE f \in [1..Cardinality(stays) -> stays] : Rising(f)
           kept == [k \in DOMAIN place |-> list[place[k]]]
<1>1. DOMAIN list = 1..Len(list) /\ Len(list) \in Nat
  OBVIOUS
<1>2. IsFiniteSet(DOMAIN list)
  BY <1>1, FS_Interval
<1>3. stays \in SUBSET Nat /\ stays \in SUBSET DOMAIN list
  BY <1>1
<1>4. IsFiniteSet(stays)
  BY <1>2, <1>3, FS_Subset
<1>5. Cardinality(stays) \in Nat /\ \E f \in [1..Cardinality(stays) -> stays] : Rising(f)
  BY <1>3, <1>4, Enumerated
<1>6. place \in [1..Cardinality(stays) -> stays] /\ Rising(place)
  BY <1>5
<1>7. kept = Kept(list, remove)
  BY DEF Kept
<1> HIDE DEF place
<1>8. place \in [1..Cardinality(stays) -> DOMAIN list]
  BY <1>3, <1>6
<1>9. \A i, j \in DOMAIN place : i # j => place[i] # place[j]
  <2> SUFFICES ASSUME NEW i \in DOMAIN place, NEW j \in DOMAIN place, i # j PROVE place[i] # place[j]
    OBVIOUS
  <2>1. DOMAIN place = 1..Cardinality(stays)
    BY <1>8
  <2> HIDE DEF stays
  <2>2. i \in Nat /\ j \in Nat
    BY <1>5, <2>1
  <2>3. place[i] \in Nat /\ place[j] \in Nat
    BY <1>1, <1>8, <2>1
  <2>4. i < j \/ j < i
    BY <2>2
  <2>5. place[i] < place[j] \/ place[j] < place[i]
    BY <1>6, <2>4
  <2> QED BY <2>3, <2>5
<1>10. kept \in [1..Cardinality(stays) -> E]
  <2> HIDE DEF stays
  <2>1. DOMAIN place = 1..Cardinality(stays) /\ \A k \in 1..Cardinality(stays) : place[k] \in DOMAIN list
    BY <1>8
  <2>2. \A n \in DOMAIN list : list[n] \in E
    OBVIOUS
  <2> QED BY <2>1, <2>2
<1>11. kept \in Seq(E)
  <2> HIDE DEF stays, kept
  <2> QED BY <1>5, <1>10
<1>12. DOMAIN kept = DOMAIN place /\ \A i \in DOMAIN place : kept[i] = list[place[i]]
  OBVIOUS
<1> HIDE DEF kept
<1>13. Placed(kept, list, place)
  BY <1>8, <1>9, <1>12 DEF Placed
<1> QED BY <1>7, <1>11, <1>13

-----------------------------------------------------------------------------
(* Types                                                                   *)

ThreadType ==
  [at : {"idle", "scan", "waiting"}, next : Nat, remove : SUBSET Nat, grown : BOOLEAN]

MakingType == [id : OrderIds, state : {"issuing", "error", "created"}]

SendingType == [id : OrderIds, state : {"new", "sent", "delivered"}, ship : Nat]

\* The third party.
ThirdTyped ==
  /\ making \in Seq(MakingType)
  /\ sending \in Seq(SendingType)
  /\ thread \in [Threads -> ThreadType]
  /\ crisis \in BOOLEAN

\* The rest of the order service.
WorkTyped ==
  work \in [at : {"idle", "next", "posted"}, todo : SUBSET OrderIds,
            current : OrderIds \cup {"none"}]

Tied ==
  /\ recent \in [OrderIds -> Nat]
  /\ \A o \in OrderIds : recent[o] \in 0..Len(status[o])

LEMMA ThreadSet ==
  ASSUME ThirdTyped, NEW t \in Threads, NEW x \in ThreadType, thread' = [thread EXCEPT ![t] = x]
  PROVE  thread' \in [Threads -> ThreadType]
BY DEF ThirdTyped

LEMMA AsleepTyped == Asleep \in ThreadType
BY DEF Asleep, ThreadType

\* A step of one thread that leaves the lists alone.
LEMMA WalkTyped ==
  ASSUME ThirdTyped, NEW t \in Threads, NEW list, Walk(t, list)
  PROVE  ThirdTyped'
<1>1. thread[t] \in ThreadType
  BY DEF ThirdTyped
<1>2. [thread[t] EXCEPT !.at = "scan"] \in ThreadType
  BY <1>1 DEF ThreadType
<1>3. thread' \in [Threads -> ThreadType]
  BY <1>2, ThreadSet DEF Walk
<1> QED BY <1>3 DEF Walk, ThirdTyped

LEMMA SleepTyped ==
  ASSUME ThirdTyped, NEW t \in Threads, Disturbed(t) \/ Broken(t)
  PROVE  ThirdTyped'
<1>1. thread' \in [Threads -> ThreadType]
  BY AsleepTyped, ThreadSet DEF Disturbed, Broken
<1> QED BY <1>1 DEF Disturbed, Broken, ThirdTyped

LEMMA AnsweredTyped ==
  ASSUME ThirdTyped, NEW t \in Threads, Answered(t)
  PROVE  ThirdTyped'
<1>1. thread[t] \in ThreadType
  BY DEF ThirdTyped
<1>2. [thread[t] EXCEPT !.at = "scan", !.next = @ + 1] \in ThreadType
  <2>1. thread[t].next + 1 \in Nat
    BY <1>1 DEF ThreadType
  <2> QED BY <1>1, <2>1 DEF ThreadType
<1>3. thread' = [thread EXCEPT ![t] = [thread[t] EXCEPT !.at = "scan", !.next = @ + 1]]
  BY DEF Answered
<1>4. thread' \in [Threads -> ThreadType]
  BY <1>2, <1>3, ThreadSet
<1> QED BY <1>4 DEF Answered, ThirdTyped

\* A thread that goes on to another place, or waits.
LEMMA MovedTyped ==
  ASSUME ThirdTyped, NEW t \in Threads, NEW n \in Nat, NEW R \in SUBSET Nat
  PROVE  /\ [thread[t] EXCEPT !.at = "waiting"] \in ThreadType
         /\ [thread[t] EXCEPT !.next = n] \in ThreadType
         /\ [thread[t] EXCEPT !.next = n, !.remove = @ \cup R] \in ThreadType
<1>1. thread[t] \in ThreadType
  BY DEF ThirdTyped
<1>2. thread[t].remove \cup R \in SUBSET Nat
  BY <1>1 DEF ThreadType
<1> QED BY <1>1, <1>2 DEF ThreadType

LEMMA PlacesAreNumbers ==
  ASSUME ThirdTyped
  PROVE  /\ \A n \in DOMAIN making : n \in Nat /\ n + 1 \in Nat /\ making[n] \in MakingType
         /\ \A n \in DOMAIN sending : n \in Nat /\ n + 1 \in Nat /\ sending[n] \in SendingType
BY DEF ThirdTyped

LEMMA ManufactureTyped ==
  ASSUME ThirdTyped,
         \/ SkipFailed \/ ManufactureEnds
         \/ \E o \in OrderIds : \E type : MakeCard(o, type)
  PROVE  ThirdTyped'
<1>1. "manufacture" \in Threads
  BY TwoThreads
<1>2. CASE SkipFailed
  <2>1. PICK n \in DOMAIN making :
          thread' = [thread EXCEPT !["manufacture"] = [thread["manufacture"] EXCEPT !.next = n + 1]]
    BY <1>2 DEF SkipFailed
  <2>2. n + 1 \in Nat
    BY PlacesAreNumbers
  <2>3. [thread["manufacture"] EXCEPT !.next = n + 1] \in ThreadType
    BY <1>1, <2>2, MovedTyped
  <2>4. thread' \in [Threads -> ThreadType]
    BY <1>1, <2>1, <2>3, ThreadSet
  <2> QED BY <1>2, <2>4 DEF SkipFailed, ThirdTyped
<1>3. CASE ManufactureEnds
  <2>1. making' \in Seq(MakingType)
    BY <1>3, KeptList DEF ManufactureEnds, ThirdTyped
  <2>2. thread' \in [Threads -> ThreadType]
    BY <1>1, <1>3, AsleepTyped, ThreadSet DEF ManufactureEnds
  <2> QED BY <1>3, <2>1, <2>2 DEF ManufactureEnds, ThirdTyped
<1>4. ASSUME NEW o \in OrderIds, NEW type, MakeCard(o, type) PROVE ThirdTyped'
  <2>1. PICK n \in DOMAIN making, s \in {"error", "created"} :
          making' = [making EXCEPT ![n] = [making[n] EXCEPT !.state = s]]
    BY <1>4 DEF MakeCard
  <2>2. [making[n] EXCEPT !.state = s] \in MakingType
    BY PlacesAreNumbers DEF MakingType
  <2>3. making' \in Seq(MakingType)
    BY <2>1, <2>2 DEF ThirdTyped
  <2>4. [thread["manufacture"] EXCEPT !.at = "waiting"] \in ThreadType
    BY <1>1, MovedTyped
  <2>5. thread' = [thread EXCEPT !["manufacture"] = [thread["manufacture"] EXCEPT !.at = "waiting"]]
    BY <1>4 DEF MakeCard
  <2>6. thread' \in [Threads -> ThreadType]
    BY <1>1, <2>4, <2>5, ThreadSet
  <2> QED BY <1>4, <2>3, <2>6 DEF MakeCard, ThirdTyped
<1> QED BY <1>2, <1>3, <1>4

LEMMA CourierTyped ==
  ASSUME ThirdTyped,
         \/ ForgetDelivered \/ CourierEnds \/ AddressFails
         \/ \E o \in OrderIds : NoAddress(o) \/ DeliverCard(o) \/ \E ship \in Nat : SendCard(o, ship)
  PROVE  ThirdTyped'
<1>1. "courier" \in Threads
  BY TwoThreads
<1>2. ASSUME NEW o \in OrderIds, NoAddress(o) PROVE ThirdTyped'
  <2>1. PICK n \in DOMAIN sending :
          thread' = [thread EXCEPT !["courier"] = [thread["courier"] EXCEPT !.next = n + 1]]
    BY <1>2 DEF NoAddress
  <2>2. n + 1 \in Nat
    BY PlacesAreNumbers
  <2>3. [thread["courier"] EXCEPT !.next = n + 1] \in ThreadType
    BY <1>1, <2>2, MovedTyped
  <2>4. thread' \in [Threads -> ThreadType]
    BY <1>1, <2>1, <2>3, ThreadSet
  <2> QED BY <1>2, <2>4 DEF NoAddress, ThirdTyped
<1>3. CASE ForgetDelivered
  <2>1. PICK n \in DOMAIN sending :
          thread' = [thread EXCEPT !["courier"] =
                       [thread["courier"] EXCEPT !.next = n + 1, !.remove = @ \cup {n}]]
    BY <1>3 DEF ForgetDelivered
  <2>2. n + 1 \in Nat /\ {n} \in SUBSET Nat
    BY PlacesAreNumbers
  <2>3. [thread["courier"] EXCEPT !.next = n + 1, !.remove = @ \cup {n}] \in ThreadType
    BY <1>1, <2>2, MovedTyped
  <2>4. thread' \in [Threads -> ThreadType]
    BY <1>1, <2>1, <2>3, ThreadSet
  <2> QED BY <1>3, <2>4 DEF ForgetDelivered, ThirdTyped
<1>4. CASE CourierEnds
  <2>1. sending' \in Seq(SendingType)
    BY <1>4, KeptList DEF CourierEnds, ThirdTyped
  <2>2. thread' \in [Threads -> ThreadType]
    BY <1>1, <1>4, AsleepTyped, ThreadSet DEF CourierEnds
  <2> QED BY <1>4, <2>1, <2>2 DEF CourierEnds, ThirdTyped
<1>5. CASE AddressFails
  <2>1. thread' \in [Threads -> ThreadType]
    BY <1>1, <1>5, AsleepTyped, ThreadSet DEF AddressFails
  <2> QED BY <1>5, <2>1 DEF AddressFails, ThirdTyped
<1>6. ASSUME NEW o \in OrderIds, DeliverCard(o) \/ \E ship \in Nat : SendCard(o, ship)
      PROVE  ThirdTyped'
  <2>1. PICK n \in DOMAIN sending, s \in {"sent", "delivered"}, ship \in Nat :
          \/ sending' = [sending EXCEPT ![n] = [sending[n] EXCEPT !.state = s]]
          \/ sending' = [sending EXCEPT ![n] = [sending[n] EXCEPT !.state = s, !.ship = ship]]
    BY <1>6 DEF DeliverCard, SendCard
  <2>2. /\ [sending[n] EXCEPT !.state = s] \in SendingType
        /\ [sending[n] EXCEPT !.state = s, !.ship = ship] \in SendingType
    BY PlacesAreNumbers DEF SendingType
  <2>3. sending' \in Seq(SendingType)
    <3>1. \A x \in SendingType : [sending EXCEPT ![n] = x] \in Seq(SendingType)
      BY DEF ThirdTyped
    <3> QED BY <2>1, <2>2, <3>1
  <2>4. [thread["courier"] EXCEPT !.at = "waiting"] \in ThreadType
    BY <1>1, MovedTyped
  <2>5. thread' = [thread EXCEPT !["courier"] = [thread["courier"] EXCEPT !.at = "waiting"]]
    BY <1>6 DEF DeliverCard, SendCard
  <2>6. thread' \in [Threads -> ThreadType]
    BY <1>1, <2>4, <2>5, ThreadSet
  <2> QED BY <1>6, <2>3, <2>6 DEF DeliverCard, SendCard, ThirdTyped
<1> QED BY <1>2, <1>3, <1>4, <1>5, <1>6

\* A process is added to a list.
LEMMA GrownTyped ==
  ASSUME ThirdTyped, NEW o \in OrderIds, IssueCreditCard(o) \/ HandOver(o)
  PROVE  ThirdTyped'
<1>1. "manufacture" \in Threads /\ "courier" \in Threads
  BY TwoThreads
<1>2. \A t \in Threads : thread[t] \in ThreadType
  BY DEF ThirdTyped
<1>3. \A t \in Threads : NoticeGrowth(t) \in ThreadType
  BY <1>2 DEF NoticeGrowth, ThreadType
<1>4. CASE IssueCreditCard(o)
  <2>1. [id |-> o, state |-> "issuing"] \in MakingType
    BY DEF MakingType
  <2>2. making' \in Seq(MakingType)
    BY <1>4, <2>1 DEF IssueCreditCard, ThirdTyped
  <2>3. thread' \in [Threads -> ThreadType]
    BY <1>1, <1>3, <1>4, ThreadSet DEF IssueCreditCard
  <2> QED BY <1>4, <2>2, <2>3 DEF IssueCreditCard, ThirdTyped
<1>5. CASE HandOver(o)
  <2>1. [id |-> o, state |-> "new", ship |-> 0] \in SendingType
    BY DEF SendingType
  <2>2. sending' \in Seq(SendingType)
    <3>1. \A x \in SendingType : Append(sending, x) \in Seq(SendingType)
      BY DEF ThirdTyped
    <3> QED BY <1>5, <2>1, <3>1 DEF HandOver
  <2>3. PICK n \in DOMAIN making :
          thread' = [thread EXCEPT
            !["manufacture"] = [thread["manufacture"] EXCEPT
                                  !.next = n + 1, !.remove = @ \cup {n}],
            !["courier"] = NoticeGrowth("courier")]
    BY <1>5 DEF HandOver
  <2>4. n + 1 \in Nat /\ {n} \in SUBSET Nat
    BY PlacesAreNumbers
  <2>5. [thread["manufacture"] EXCEPT
           !.next = n + 1, !.remove = @ \cup {n}] \in ThreadType
    BY <1>1, <2>4, MovedTyped
  <2>6. thread' \in [Threads -> ThreadType]
    BY <1>1, <1>3, <2>3, <2>5 DEF ThirdTyped
  <2> QED BY <1>5, <2>2, <2>6 DEF HandOver, ThirdTyped
<1> QED BY <1>4, <1>5

\* Whoever stops leaves the threads asleep or as they are.
LEMMA StoppedTyped ==
  ASSUME ThirdTyped, ThirdCrash \/ OrderServiceStops
  PROVE  ThirdTyped'
<1>1. CASE ThirdCrash
  BY <1>1, AsleepTyped DEF ThirdCrash, ThirdTyped
<1>2. CASE OrderServiceStops
  BY <1>2, AsleepTyped DEF OrderServiceStops, ThirdTyped
<1> QED BY <1>1, <1>2

LEMMA ThirdNext ==
  ASSUME Typed, ThirdTyped, [Next]_vars
  PROVE  ThirdTyped'
<1>1. ASSUME UNCHANGED thirdVars PROVE ThirdTyped'
  BY <1>1 DEF thirdVars, ThirdTyped
<1>2. "manufacture" \in Threads /\ "courier" \in Threads
  BY TwoThreads
<1>3. CASE Requests
  BY <1>1, <1>3 DEF Requests, OrderService
<1>4. CASE Scheduled
  BY <1>1, <1>4, GrownTyped DEF Scheduled, OrderService, PostManufacture
<1>5. CASE Manufacture
  <2>1. ASSUME NEW o \in OrderIds, HandOverInTime(o) PROVE ThirdTyped'
    BY <2>1, GrownTyped DEF HandOverInTime, Third
  <2>2. ASSUME NEW o \in OrderIds, NEW type, ManufacturerReports(o, type) PROVE ThirdTyped'
    BY <2>2, ManufactureTyped DEF ManufacturerReports
  <2>3. ASSUME Third(ManufactureStep) PROVE ThirdTyped'
    BY <1>2, <2>3, WalkTyped, SleepTyped, ManufactureTyped DEF Third, ManufactureStep
  <2> QED BY <1>5, <2>1, <2>2, <2>3 DEF Manufacture
<1>6. CASE Courier
  <2>1. ASSUME NEW o \in OrderIds, CourierReportsShipped(o) PROVE ThirdTyped'
    <3>1. PICK ship \in FreshShippingIds : SendCard(o, ship)
      BY <2>1 DEF CourierReportsShipped
    <3>2. ship \in Nat
      BY DEF FreshShippingIds
    <3> QED BY <3>1, <3>2, CourierTyped
  <2>2. ASSUME NEW o \in OrderIds, CourierFindsNoAddress(o) \/ CourierReportsDelivered(o)
        PROVE  ThirdTyped'
    BY <2>2, CourierTyped DEF CourierFindsNoAddress, CourierReportsDelivered, Third
  <2>3. ASSUME Third(CourierStep) PROVE ThirdTyped'
    BY <1>2, <2>3, WalkTyped, SleepTyped, CourierTyped DEF Third, CourierStep
  <2> QED BY <1>6, <2>1, <2>2, <2>3 DEF Courier
<1>7. ASSUME NEW t \in Threads, GiveUp(t) \/ Break(t) PROVE ThirdTyped'
  BY <1>7, SleepTyped DEF GiveUp, Break, Third
<1>8. CASE Third(CrisisBegins) \/ Third(CrisisEnds)
  BY <1>8 DEF Third, CrisisBegins, CrisisEnds, ThirdTyped
<1>9. CASE Faults
  <2>1. ASSUME WorkAbort /\ UNCHANGED thirdVars PROVE ThirdTyped'
    BY <1>1, <2>1
  <2>2. ASSUME AddressFails PROVE ThirdTyped'
    BY <2>2, CourierTyped
  <2>3. ASSUME OrderServiceStops PROVE ThirdTyped'
    BY <2>3, StoppedTyped
  <2>4. ASSUME ThirdPartyStops PROVE ThirdTyped'
    BY <2>4, StoppedTyped DEF ThirdPartyStops
  <2> QED BY <1>7, <1>9, <2>1, <2>2, <2>3, <2>4 DEF Faults
<1>10. ASSUME NEW h \in Handlers, Serve(h) PROVE ThirdTyped'
  <2>1. CASE OrderService(HandlerStep(h))
    BY <1>1, <2>1 DEF OrderService
  <2>2. CASE Answer(h)
    <3>1. handler[h].caller = NoCaller \/ handler[h].caller \in Threads
      BY DEF Typed, HandlerType
    <3> QED BY <1>1, <2>2, <3>1, AnsweredTyped DEF Answer
  <2> QED BY <1>10, <2>1, <2>2 DEF Serve
<1>11. ASSUME UNCHANGED vars PROVE ThirdTyped'
  BY <1>1, <1>11 DEF vars
<1> QED BY <1>3, <1>4, <1>5, <1>6, <1>7, <1>8, <1>9, <1>10, <1>11 DEF Next

LEMMA WorkNext ==
  ASSUME WorkTyped, [Next]_vars
  PROVE  WorkTyped'
<1>1. ASSUME UNCHANGED work PROVE WorkTyped'
  BY <1>1 DEF WorkTyped
<1>2. ASSUME work' = Resting PROVE WorkTyped'
  BY <1>2 DEF Resting, WorkTyped
<1>3. ASSUME WorkList PROVE WorkTyped'
  BY <1>3 DEF WorkList, Waiting, WorkTyped
<1>4. ASSUME NEW o \in OrderIds, WorkPost(o) PROVE WorkTyped'
  BY <1>4 DEF WorkPost, WorkTyped
<1>5. ASSUME WorkOrdered PROVE WorkTyped'
  BY <1>2, <1>5 DEF WorkOrdered, WorkTyped
<1>6. CASE Requests
  BY <1>1, <1>6 DEF Requests, OrderService, CountOrders, DeleteStatuses, ClientStep, InsertNewOrder,
                    InsertFirstStatus, DeleteCards, DeleteOrders
<1>7. CASE Scheduled
  BY <1>2, <1>3, <1>4, <1>5, <1>7 DEF Scheduled, OrderService, WorkStep, WorkOrderGone, PostManufacture
<1>8. ASSUME NEW t, NEW o, NEW type, NEW ship, Report(t, o, type, ship) PROVE WorkTyped'
  BY <1>1, <1>8 DEF Report, BeginReport, orderVars
<1>9. CASE Manufacture
  BY <1>1, <1>8, <1>9 DEF Manufacture, Third, HandOverInTime, ManufacturerReports, orderVars
<1>10. CASE Courier
  BY <1>1, <1>8, <1>10 DEF Courier, Third, CourierReportsShipped, CourierFindsNoAddress,
                           CourierReportsDelivered, orderVars
<1>11. ASSUME NEW h \in Handlers, Serve(h) PROVE WorkTyped'
  BY <1>1, <1>11 DEF Serve, OrderService, Answer, HandlerStep, HandleNewStatus, InsertNewCreditCard,
                     UpdateOrder, AppendStatus
<1>12. CASE Faults
  BY <1>1, <1>2, <1>12 DEF Faults, WorkAbort, Break, OrderServiceStops, OrdersCrash, ThirdPartyStops,
                           orderVars
<1> QED BY <1>1, <1>6, <1>7, <1>9, <1>10, <1>11, <1>12 DEF Next, GiveUp, Third, vars, orderVars

\* A row joins those of the same second, or starts another.
LEMMA RowTied ==
  ASSUME Typed, Tied, NEW o, NEW type \in StatusTypes, InsertNewStatus(o, type)
  PROVE  Tied'
<1>0. recent' \in [OrderIds -> Nat]
  <2>1. recent \in [OrderIds -> Nat] /\ \A p \in OrderIds : recent[p] + 1 \in Nat
    BY DEF Tied
  <2> QED BY <2>1 DEF InsertNewStatus
<1> SUFFICES ASSUME NEW p \in OrderIds PROVE recent'[p] \in 0..Len(status'[p])
  BY <1>0 DEF Tied
<1>1. status[p] \in Seq(StatusTypes) /\ recent[p] \in 0..Len(status[p])
  BY DEF Typed, Tied
<1>2. status'[p] = IF p = o THEN Append(status[p], type) ELSE status[p]
  BY AppendedStatus
<1>3. Len(status[p]) \in Nat /\ Len(Append(status[p], type)) = Len(status[p]) + 1
  BY <1>1
<1>4. \/ recent' = [recent EXCEPT ![o] = 1]
      \/ recent' = [recent EXCEPT ![o] = recent[o] + 1]
  BY DEF InsertNewStatus
<1>5. recent'[p] = recent[p] \/ (p = o /\ recent'[p] \in {1, recent[p] + 1})
  BY <1>4 DEF Tied
<1> QED BY <1>1, <1>2, <1>3, <1>5

LEMMA TiedNext ==
  ASSUME Typed, Sound, Tied, [Next]_vars
  PROVE  Tied'
<1>1. ASSUME UNCHANGED <<status, recent>> PROVE Tied'
  BY <1>1 DEF Tied
<1>2. CASE Requests
  <2>1. ASSUME NEW c \in Clients, NEW a \in Accounts, DeleteStatuses(c, a) PROVE Tied'
    <3>1. \A o \in OrderIds : status[o] \in Seq(StatusTypes) /\ Len(<<>>) = 0 /\ 0 \in 0..0
      BY DEF Typed
    <3>2. recent' \in [OrderIds -> Nat]
      BY <2>1 DEF DeleteStatuses, Tied
    <3>3. ASSUME NEW o \in OrderIds PROVE recent'[o] \in 0..Len(status'[o])
      BY <2>1, <3>1 DEF DeleteStatuses, Tied
    <3> QED BY <3>2, <3>3 DEF Tied
  <2>2. ASSUME NEW c \in Clients, InsertFirstStatus(c) PROVE Tied'
    BY <1>1, <2>2, RowTied, StatusTypesFact DEF InsertFirstStatus
  <2>3. ASSUME NEW c \in Clients, ClientStep(c) \/ \E a \in Accounts : CountOrders(c, a) PROVE Tied'
    BY <1>1, <2>2, <2>3 DEF ClientStep, CountOrders, InsertNewOrder, DeleteCards, DeleteOrders, tables
  <2> QED BY <1>2, <2>1, <2>3 DEF Requests, OrderService
<1>3. CASE Scheduled
  <2>1. ASSUME WorkOrdered PROVE Tied'
    BY <1>1, <2>1, RowTied, StatusTypesFact DEF WorkOrdered
  <2> QED BY <1>1, <1>3, <2>1 DEF Scheduled, OrderService, WorkStep, WorkList, WorkOrderGone,
                                  PostManufacture, WorkPost, tables
<1>4. ASSUME NEW t, NEW o, NEW type, NEW ship, Report(t, o, type, ship) PROVE Tied'
  BY <1>1, <1>4 DEF Report, BeginReport, orderVars, tables
<1>5. CASE Manufacture
  BY <1>1, <1>4, <1>5 DEF Manufacture, Third, HandOverInTime, ManufacturerReports, orderVars, tables
<1>6. CASE Courier
  BY <1>1, <1>4, <1>6 DEF Courier, Third, CourierReportsShipped, CourierFindsNoAddress,
                          CourierReportsDelivered, orderVars, tables
<1>7. ASSUME NEW h \in Handlers, Serve(h) PROVE Tied'
  <2>1. ASSUME AppendStatus(h) PROVE Tied'
    <3>1. handler[h].type \in StatusTypes
      BY <2>1 DEF AppendStatus, Sound
    <3> QED BY <1>1, <2>1, <3>1, RowTied DEF AppendStatus
  <2> QED BY <1>1, <1>7, <2>1 DEF Serve, OrderService, Answer, HandlerStep, HandleNewStatus,
                                  InsertNewCreditCard, UpdateOrder, tables
<1>8. CASE Faults
  BY <1>1, <1>8 DEF Faults, WorkAbort, Break, OrderServiceStops, OrdersCrash, ThirdPartyStops,
                    orderVars, tables
<1> QED BY <1>1, <1>2, <1>3, <1>5, <1>6, <1>7, <1>8 DEF Next, GiveUp, Third, vars, orderVars, tables

LEMMA FaultsBounded ==
  ASSUME faults \in 0..MaxFaults, [Next]_vars
  PROVE  faults' \in 0..MaxFaults
<1>1. MaxFaults \in Nat
  BY CardFlowAssumption
<1>2. Fault => faults' \in 0..MaxFaults
  BY <1>1 DEF Fault
<1>3. faults' = faults => faults' \in 0..MaxFaults
  OBVIOUS
<1>4. CASE Requests \/ Scheduled
  BY <1>3, <1>4 DEF Requests, Scheduled, OrderService, PostManufacture
<1>5. CASE Manufacture
  BY <1>2, <1>3, <1>5 DEF Manufacture, Third, HandOverInTime, ManufacturerReports, Report
<1>6. CASE Courier
  BY <1>2, <1>3, <1>6 DEF Courier, Third, CourierReportsShipped, CourierFindsNoAddress,
                          CourierReportsDelivered, Report
<1>7. ASSUME NEW h \in Handlers, Serve(h) PROVE faults' = faults
  BY <1>7 DEF Serve, OrderService, Answer
<1> QED BY <1>2, <1>3, <1>4, <1>5, <1>6, <1>7 DEF Next, GiveUp, Third, Faults, vars

\* The invariant behind the types: a request or an update is about an order.
FlowTyped ==
  Typed /\ Sound /\ ThirdTyped /\ WorkTyped /\ Tied /\ faults \in 0..MaxFaults

LEMMA FlowNext ==
  ASSUME FlowTyped, [Next]_vars
  PROVE  FlowTyped'
BY TypedNext, ThirdNext, WorkNext, TiedNext, FaultsBounded DEF FlowTyped

LEMMA FlowInit == Init => FlowTyped
<1> SUFFICES ASSUME Init PROVE FlowTyped
  OBVIOUS
<1>1. Typed /\ Sound
  BY InitTyped
<1>2. ThirdTyped
  <2>1. making = <<>> /\ sending = <<>> /\ thread = [t \in Threads |-> Asleep] /\ crisis \in BOOLEAN
    BY CardFlowAssumption DEF Init, ThirdInit
  <2>2. making \in Seq(MakingType) /\ sending \in Seq(SendingType)
    BY <2>1
  <2> QED BY <2>1, <2>2, AsleepTyped DEF ThirdTyped
<1>3. WorkTyped
  BY DEF Init, OrdersInit, Resting, WorkTyped
<1>4. Tied
  BY DEF Init, OrdersInit, Tied
<1>5. faults \in 0..MaxFaults
  BY CardFlowAssumption DEF Init
<1> QED BY <1>1, <1>2, <1>3, <1>4, <1>5 DEF FlowTyped

(* Every variable of the order service and of the third party keeps its    *)
(* type, for any orders, requests, updates in progress, processes and      *)
(* faults, also where a walk is disturbed or a list is lost.               *)
THEOREM FlowTypes == Spec => []TypeOK
<1>1. FlowTyped => TypeOK
  BY DEF FlowTyped, Typed, ThirdTyped, WorkTyped, Tied, TypeOK, ClientType, HandlerType, ThreadType,
         MakingType, SendingType
<1> QED BY <1>1, FlowInit, FlowNext, PTL DEF Spec

-----------------------------------------------------------------------------
(* One order at a time, while nothing breaks                               *)

Labels == {"read", "record", "append", "answered"}

Reports == {"card_error", "card_created", "card_shipped", "card_delivered"}

CallerOf(type) == IF type \in {"card_error", "card_created"} THEN "manufacture" ELSE "courier"

\* The manufacturer and the courier have a process for o.
InMaking(o, state) == \E n \in DOMAIN making : making[n].id = o /\ making[n].state = state

Parcel(o, state) == \E n \in DOMAIN sending : sending[n].id = o /\ sending[n].state = state

\* An update of this type is this far.
Update(o, type, label) ==
  \E h \in Handlers : handler[h].at = label /\ handler[h].id = o /\ handler[h].type = type

Has(o, type) == type \in TypesOf(o)

Newest(o) == status[o][Len(status[o])]

Posted(o) == work.at = "posted" /\ work.current = o

\* The card of o has one process, one row and one update that writes it.
CardFits(o) ==
  /\ InMaking(o, "issuing") \/ InMaking(o, "error") =>
       /\ cards[o] = 0 /\ ~Has(o, "card_created")
       /\ \A l \in Labels : ~Update(o, "card_created", l)
  /\ InMaking(o, "created") =>
       \/ Has(o, "card_created")
       \/ \E l \in {"read", "record", "append"} : Update(o, "card_created", l)
  /\ \A l \in Labels : Update(o, "card_error", l) => ~Has(o, "card_created")
  /\ \A l \in {"read", "record"} :
       Update(o, "card_created", l) => cards[o] = 0 /\ ~Has(o, "card_created")
  /\ Update(o, "card_created", "append") => cards[o] = 1 /\ ~Has(o, "card_created")
  /\ Has(o, "card_created") => cards[o] = 1
  /\ cards[o] # 0 => /\ cards[o] = 1
                     /\ Has(o, "card_created") \/ Update(o, "card_created", "append")

\* A parcel is for a card that has been made; a second one with the same card
\* is refused, as the newest row is of the first one, unless rows tie.
ParcelFits(o) ==
  /\ \/ \E s \in {"new", "sent", "delivered"} : Parcel(o, s)
     \/ \E type \in {"card_shipped", "card_delivered"}, l \in Labels : Update(o, type, l)
     => Has(o, "card_created") /\ ~Posted(o)
  /\ Parcel(o, "sent") \/ Parcel(o, "delivered") =>
       \/ Has(o, "card_shipped")
       \/ \E l \in {"read", "record", "append"} : Update(o, "card_shipped", l)
  /\ \A l \in {"record", "append"} :
       Update(o, "card_shipped", l) => ~Has(o, "card_shipped") \/ recent[o] > 1
  /\ shipping[o] # 0 => Has(o, "card_shipped") \/ Update(o, "card_shipped", "append")
  /\ \A l \in Labels : Update(o, "card_delivered", l) => Has(o, "card_shipped")
  /\ Has(o, "card_shipped") =>
       /\ Has(o, "card_created") /\ ~Posted(o)
       /\ Newest(o) \in {"card_shipped", "card_delivered"}
  /\ Has(o, "card_delivered") => Has(o, "card_shipped")

Untouched(o) ==
  /\ cards[o] = 0 /\ shipping[o] = 0
  /\ \A s \in {"issuing", "error", "created"} : ~InMaking(o, s)
  /\ \A s \in {"new", "sent", "delivered"} : ~Parcel(o, s)
  /\ \A type \in Reports, l \in Labels : ~Update(o, type, l)

\* What WorkScheduler has listed or will list has not been sent before.
OrderFits(o) ==
  /\ ~Untouched(o) \/ Posted(o) \/ o \in work.todo => status[o] # <<>>
  /\ status[o] # <<>> => Exists(o)
  /\ o \in work.todo \/ (status[o] # <<>> /\ Newest(o) = "order_created") =>
       Posted(o) \/ (Untouched(o) /\ TypesOf(o) \subseteq {"order_created"})

Fits(o) == CardFits(o) /\ ParcelFits(o) /\ OrderFits(o)

\* No order is at the manufacturer twice.
OneProcess == \A m, n \in DOMAIN making : making[m].id = making[n].id => m = n

\* A thread of the third party waits for the one update it has reported.
Called ==
  \A h \in Handlers : handler[h].at # "idle" =>
    /\ handler[h].type \in Reports
    /\ handler[h].caller = CallerOf(handler[h].type)
    /\ thread[handler[h].caller].at = "waiting"
    /\ \A g \in Handlers :
         handler[g].at # "idle" /\ handler[g].caller = handler[h].caller => g = h

\* A request that is about to write the first status is alone with its order.
Creators ==
  \A c \in Clients : client[c].at = "status" =>
    /\ client[c].id \in OrderIds /\ Exists(client[c].id) /\ status[client[c].id] = <<>>
    /\ \A d \in Clients : client[d].at = "status" /\ client[d].id = client[c].id => d = c

Lasting ==
  /\ OneProcess /\ Called /\ Creators
  /\ work.at = "posted" => work.current \in OrderIds
  /\ \A o \in OrderIds : Fits(o)

LInv == FlowTyped /\ BInv /\ Lasting

\* Nothing breaks, nothing is deleted, and every period is kept.
Reliable == MaxFaults = 0 /\ Timely /\ ~Deletable /\ CardKeyGenerated

LEMMA NoFault ==
  ASSUME Reliable, FlowTyped
  PROVE  faults = 0 /\ ~Fault /\ ~Faults
BY DEF Reliable, FlowTyped, Fault, Faults

-----------------------------------------------------------------------------
(* An order nothing happens to                                             *)

SameRows(o) ==
  /\ status'[o] = status[o] /\ recent'[o] = recent[o]
  /\ cards'[o] = cards[o] /\ shipping'[o] = shipping[o]
  /\ Exists(o) => Exists(o)'

\* Only an update that has been answered may be over.
SameUpdates(o) ==
  \A type \in Reports, l \in Labels :
    /\ Update(o, type, l)' => Update(o, type, l)
    /\ Update(o, type, l) => l = "answered" \/ Update(o, type, l)'

FewerProcesses(o) ==
  /\ \A s : InMaking(o, s)' => InMaking(o, s)
  /\ \A s : Parcel(o, s)' => Parcel(o, s)

SameWork(o) == (Posted(o)' <=> Posted(o)) /\ (o \in work.todo' => o \in work.todo)

LEMMA RowsSame ==
  ASSUME NEW o, SameRows(o)
  PROVE  /\ TypesOf(o)' = TypesOf(o) /\ Newest(o)' = Newest(o)
         /\ \A type : Has(o, type)' <=> Has(o, type)
BY DEF SameRows, TypesOf, Newest, Has

LEMMA FitsSame ==
  ASSUME NEW o, Fits(o), SameRows(o), SameUpdates(o), FewerProcesses(o), SameWork(o)
  PROVE  Fits(o)'
<1>1. /\ TypesOf(o)' = TypesOf(o) /\ Newest(o)' = Newest(o)
      /\ \A type : Has(o, type)' <=> Has(o, type)
  BY RowsSame
<1>2. /\ \A type \in Reports, l \in Labels :
           /\ Update(o, type, l)' => Update(o, type, l)
           /\ Update(o, type, l) => l = "answered" \/ Update(o, type, l)'
      /\ \A s : InMaking(o, s)' => InMaking(o, s)
      /\ \A s : Parcel(o, s)' => Parcel(o, s)
      /\ status'[o] = status[o] /\ recent'[o] = recent[o]
      /\ cards'[o] = cards[o] /\ shipping'[o] = shipping[o]
      /\ Posted(o)' <=> Posted(o)
  BY DEF SameUpdates, FewerProcesses, SameRows, SameWork
<1>3. CardFits(o)'
  BY <1>1, <1>2 DEF Fits, CardFits, Reports, Labels
<1>4. ParcelFits(o)'
  BY <1>1, <1>2 DEF Fits, ParcelFits, Reports, Labels
<1>5. Untouched(o) => Untouched(o)'
  BY <1>2 DEF Untouched
<1>6. OrderFits(o)'
  BY <1>1, <1>2, <1>5 DEF Fits, OrderFits, SameRows, SameWork
<1> QED BY <1>3, <1>4, <1>6 DEF Fits

LEMMA CreatorsSame ==
  ASSUME Creators, client' = client,
         \A o \in OrderIds : (Exists(o) => Exists(o)') /\ (status[o] = <<>> => status'[o] = <<>>)
  PROVE  Creators'
<1> SUFFICES ASSUME NEW c \in Clients, client[c].at = "status"
             PROVE  /\ client[c].id \in OrderIds /\ order'[client[c].id] \in Accounts
                    /\ status'[client[c].id] = <<>>
                    /\ \A d \in Clients :
                         client[d].at = "status" /\ client[d].id = client[c].id => d = c
  BY DEF Creators, Exists
<1> QED BY DEF Creators, Exists

LEMMA CalledSame ==
  ASSUME Called, handler' = handler,
         \A t \in Threads : thread[t].at = "waiting" => thread'[t].at = "waiting"
  PROVE  Called'
<1>1. \A type : CallerOf(type) \in Threads
  BY DEF CallerOf, Threads
<1> QED BY <1>1 DEF Called

LEMMA UpdatesSame ==
  ASSUME handler' = handler
  PROVE  \A o : SameUpdates(o)
BY DEF SameUpdates, Update

\* What may be forgotten: processes that are done with.
LEMMA QuietStep ==
  ASSUME LInv, UNCHANGED orderVars, OneProcess', \A o \in OrderIds : FewerProcesses(o),
         \A t \in Threads : thread[t].at = "waiting" => thread'[t].at = "waiting"
  PROVE  Lasting'
<1>1. /\ UNCHANGED <<order, shipping, status, recent, cards, client, handler, work>>
      /\ \A o : Exists(o)' <=> Exists(o)
  BY DEF orderVars, tables, Exists
<1>2. Called' /\ Creators'
  BY <1>1, CalledSame, CreatorsSame DEF LInv, Lasting
<1>3. ASSUME NEW o \in OrderIds PROVE Fits(o)'
  <2>1. SameRows(o) /\ SameUpdates(o) /\ SameWork(o)
    BY <1>1, UpdatesSame DEF SameRows, SameWork, Posted
  <2> QED BY <2>1, FitsSame DEF LInv, Lasting
<1> QED BY <1>1, <1>2, <1>3 DEF LInv, Lasting

LEMMA ListsKept ==
  ASSUME FlowTyped, OneProcess, NEW R,
         making' = making \/ making' = Kept(making, R),
         sending' = sending \/ sending' = Kept(sending, R)
  PROVE  OneProcess' /\ \A o : FewerProcesses(o)
<1>1. making \in Seq(MakingType) /\ sending \in Seq(SendingType)
  BY DEF FlowTyped, ThirdTyped
<1>2. \E place : Placed(making', making, place)
  <2>1. CASE making' = making
    <3> DEFINE place == [i \in DOMAIN making |-> i]
    <3>1. Placed(making', making, place)
      BY <2>1 DEF Placed
    <3> QED BY <3>1
  <2> QED BY <1>1, <2>1, KeptList
<1>3. \A i \in DOMAIN sending' : \E n \in DOMAIN sending : sending'[i] = sending[n]
  BY <1>1, KeptList DEF Placed
<1>4. OneProcess' /\ \A o, s : InMaking(o, s)' => InMaking(o, s)
  BY <1>2 DEF Placed, OneProcess, InMaking
<1>5. \A o, s : Parcel(o, s)' => Parcel(o, s)
  BY <1>3 DEF Parcel
<1> QED BY <1>4, <1>5 DEF FewerProcesses

\* A thread that waits goes on waiting while another one moves.
LEMMA OtherWaits ==
  ASSUME FlowTyped, NEW t \in Threads, NEW x, thread' = [thread EXCEPT ![t] = x],
         thread[t].at # "waiting"
  PROVE  \A u \in Threads : thread[u].at = "waiting" => thread'[u].at = "waiting"
BY DEF FlowTyped, ThirdTyped

\* The steps of the third party that report nothing and hand nothing over.
LEMMA ThirdAlone ==
  ASSUME LInv, UNCHANGED orderVars,
         \/ ManufactureStep \/ CourierStep \/ CrisisBegins \/ CrisisEnds
         \/ \E o \in OrderIds : NoAddress(o)
  PROVE  Lasting'
<1>1. FlowTyped /\ OneProcess /\ Called
  BY DEF LInv, Lasting
<1>2. ASSUME NEW t \in Threads, NEW x, thread' = [thread EXCEPT ![t] = x], thread[t].at # "waiting",
             UNCHANGED <<making, sending>>
      PROVE  Lasting'
  <2>1. OneProcess' /\ \A o : FewerProcesses(o)
    BY <1>1, <1>2, ListsKept
  <2> QED BY <1>1, <1>2, <2>1, OtherWaits, QuietStep
<1>3. "manufacture" \in Threads /\ "courier" \in Threads
  BY TwoThreads
<1>4. ASSUME NEW t \in Threads, NEW list, Walk(t, list) \/ Disturbed(t) PROVE Lasting'
  BY <1>2, <1>4 DEF Walk, Disturbed
<1>5. CASE SkipFailed \/ ForgetDelivered \/ \E o \in OrderIds : NoAddress(o)
  BY <1>2, <1>3, <1>5 DEF SkipFailed, ForgetDelivered, NoAddress, Visits
<1>6. ASSUME NEW t \in Threads, thread' = [thread EXCEPT ![t] = Asleep], thread[t].at = "scan", NEW R,
             making' = making \/ making' = Kept(making, R),
             sending' = sending \/ sending' = Kept(sending, R)
      PROVE  Lasting'
  <2>1. OneProcess' /\ \A o : FewerProcesses(o)
    BY <1>1, <1>6, ListsKept
  <2> QED BY <1>1, <1>6, <2>1, OtherWaits, QuietStep
<1>7. CASE ManufactureEnds \/ CourierEnds
  BY <1>3, <1>6, <1>7 DEF ManufactureEnds, CourierEnds, Finished
<1>8. CASE CrisisBegins \/ CrisisEnds
  <2>1. UNCHANGED <<making, sending, thread>>
    BY <1>8 DEF CrisisBegins, CrisisEnds
  <2>2. OneProcess' /\ \A o : FewerProcesses(o)
    BY <1>1, <2>1, ListsKept
  <2> QED BY <2>1, <2>2, QuietStep
<1> QED BY <1>3, <1>4, <1>5, <1>7, <1>8 DEF ManufactureStep, CourierStep

\* A request nobody waits for may be given up.
LEMMA GivenUp ==
  ASSUME LInv, NEW t \in Threads, GiveUp(t)
  PROVE  Lasting'
<1>1. /\ UNCHANGED <<order, shipping, status, recent, cards, client, handler, work>>
      /\ UNCHANGED <<making, sending>> /\ thread' = [thread EXCEPT ![t] = Asleep]
      /\ \A h \in Handlers : handler[h].caller # t
  BY DEF GiveUp, Third, Broken, orderVars, tables
<1>2. FlowTyped /\ OneProcess /\ Called /\ Creators
  BY DEF LInv, Lasting
<1>3. Called'
  <2>1. \A u \in Threads : u # t => thread'[u] = thread[u]
    BY <1>1, <1>2 DEF FlowTyped, ThirdTyped
  <2>2. \A type : CallerOf(type) \in Threads
    BY DEF CallerOf, Threads
  <2> QED BY <1>1, <1>2, <2>1, <2>2 DEF Called
<1>4. ASSUME NEW o \in OrderIds PROVE Fits(o)'
  <2>1. FewerProcesses(o)
    BY <1>1 DEF FewerProcesses, InMaking, Parcel
  <2>2. SameRows(o) /\ SameUpdates(o) /\ SameWork(o)
    BY <1>1, UpdatesSame DEF SameRows, SameWork, Posted, Exists
  <2> QED BY <2>1, <2>2, FitsSame DEF LInv, Lasting
<1>5. OneProcess' /\ Creators'
  BY <1>1, <1>2 DEF OneProcess, Creators, Exists
<1> QED BY <1>1, <1>3, <1>4, <1>5 DEF LInv, Lasting

\* Nobody updates anything for a thread that does not wait.
LEMMA NoneCalled ==
  ASSUME Called, NEW t, thread[t].at # "waiting"
  PROVE  \A o, type, l : type \in Reports /\ l \in Labels /\ CallerOf(type) = t => ~Update(o, type, l)
BY DEF Called, Update, Labels

\* A list that has got one element more.
LEMMA ListGrown ==
  ASSUME NEW E, NEW list \in Seq(E), NEW x
  PROVE  \A n \in DOMAIN Append(list, x) :
           \/ n \in DOMAIN list /\ Append(list, x)[n] = list[n]
           \/ n = Len(list) + 1 /\ Append(list, x)[n] = x
<1>1. /\ DOMAIN list = 1..Len(list) /\ DOMAIN Append(list, x) = 1..Len(list) + 1 /\ Len(list) \in Nat
      /\ \A k \in 1..Len(list) : Append(list, x)[k] = list[k]
      /\ Append(list, x)[Len(list) + 1] = x
  OBVIOUS
<1>2. \A k \in 1..Len(list) + 1 : k \in 1..Len(list) \/ k = Len(list) + 1
  BY <1>1
<1> QED BY <1>1, <1>2

\* The rows of an order and what is done about it stay; processes may come.
LEMMA HandedOver ==
  ASSUME Reliable, LInv, NEW o \in OrderIds, HandOverInTime(o)
  PROVE  Lasting'
<1>1. PICK n \in DOMAIN making :
        /\ Visits("manufacture", making, n) /\ making[n].id = o /\ making[n].state = "created"
        /\ sending' = Append(sending, [id |-> o, state |-> "new", ship |-> 0])
        /\ thread' = [thread EXCEPT
             !["manufacture"] = [thread["manufacture"] EXCEPT !.next = n + 1, !.remove = @ \cup {n}],
             !["courier"] = NoticeGrowth("courier")]
        /\ making' = making
  BY DEF HandOverInTime, Third, HandOver
<1>2. UNCHANGED <<order, shipping, status, recent, cards, client, handler, work>> /\ ~Posted(o)
  BY NoFault DEF HandOverInTime, Third, orderVars, tables, Posted, LInv, Reliable
<1>3. FlowTyped /\ OneProcess /\ Called /\ Creators
  BY DEF LInv, Lasting
<1>4. \A t \in Threads : thread'[t].at = thread[t].at
  <2>1. thread \in [Threads -> ThreadType] /\ thread["manufacture"] \in ThreadType /\ thread["courier"] \in ThreadType
    BY <1>3, TwoThreads DEF FlowTyped, ThirdTyped
  <2> DEFINE x == [thread["manufacture"] EXCEPT !.next = n + 1, !.remove = @ \cup {n}]
             y == NoticeGrowth("courier")
  <2>2. x.at = thread["manufacture"].at /\ y.at = thread["courier"].at
    BY <2>1 DEF ThreadType, NoticeGrowth
  <2>3. thread' = [thread EXCEPT !["manufacture"] = x, !["courier"] = y]
    BY <1>1
  <2> HIDE DEF x, y
  <2> QED BY <2>1, <2>2, <2>3, TwoThreads
<1>5. Called' /\ Creators' /\ OneProcess'
  BY <1>1, <1>2, <1>3, <1>4, CalledSame, CreatorsSame DEF OneProcess, Exists
<1>6. \A p, s : Parcel(p, s)' => Parcel(p, s) \/ (p = o /\ s = "new")
  <2>1. \A k \in DOMAIN sending' :
          \/ k \in DOMAIN sending /\ sending'[k] = sending[k]
          \/ sending'[k] = [id |-> o, state |-> "new", ship |-> 0]
    BY <1>1, <1>3, ListGrown DEF FlowTyped, ThirdTyped
  <2> QED BY <2>1 DEF Parcel
<1>7. /\ \A p : SameRows(p) /\ SameUpdates(p) /\ SameWork(p)
      /\ \A p, s : InMaking(p, s)' <=> InMaking(p, s)
  BY <1>1, <1>2, UpdatesSame DEF SameRows, SameWork, Posted, Exists, InMaking
<1>8. \A p \in OrderIds : p # o => Fits(p)'
  BY <1>6, <1>7, FitsSame DEF FewerProcesses, LInv, Lasting
<1>9. Fits(o)'
  <2>1. Has(o, "card_created")
    <3>1. InMaking(o, "created")
      BY <1>1 DEF InMaking
    <3>2. \A l \in Labels : ~Update(o, "card_created", l)
      BY <1>1, <1>3, NoneCalled DEF Visits, Reports, CallerOf
    <3> QED BY <3>1, <3>2 DEF LInv, Lasting, Fits, CardFits, Labels
  <2>2. /\ TypesOf(o)' = TypesOf(o) /\ Newest(o)' = Newest(o)
        /\ \A type : Has(o, type)' <=> Has(o, type)
    BY <1>7, RowsSame
  <2>3. /\ \A type \in Reports, l \in Labels : Update(o, type, l)' <=> Update(o, type, l)
        /\ (Posted(o)' <=> Posted(o)) /\ status'[o] = status[o] /\ recent'[o] = recent[o]
        /\ cards'[o] = cards[o] /\ shipping'[o] = shipping[o]
    BY <1>2, <1>7 DEF Update, SameWork, SameRows
  <2>4. CardFits(o) /\ ParcelFits(o) /\ OrderFits(o)
    BY DEF LInv, Lasting, Fits
  <2>5. CardFits(o)'
    BY <1>7, <2>2, <2>3, <2>4 DEF CardFits, Reports, Labels
  <2>6. ParcelFits(o)'
    BY <1>2, <1>6, <2>1, <2>2, <2>3, <2>4 DEF ParcelFits, Reports, Labels
  <2>7. OrderFits(o)'
    <3>1. status[o] # <<>> /\ Exists(o)' /\ ~(TypesOf(o) \subseteq {"order_created"})
      BY <1>2, <2>1, <2>4 DEF Has, OrderFits, TypesOf, Exists, Range
    <3> QED BY <1>2, <2>2, <2>3, <2>4, <3>1 DEF OrderFits
  <2> QED BY <2>5, <2>6, <2>7 DEF Fits
<1> QED BY <1>2, <1>5, <1>8, <1>9 DEF LInv, Lasting

-----------------------------------------------------------------------------
(* Reports                                                                 *)

\* An update begins, the only one of its caller.
LEMMA Begun ==
  ASSUME FlowTyped, Called, NEW h \in Handlers, NEW o \in OrderIds, NEW type \in Reports, NEW ship \in Nat,
         NEW t, t = CallerOf(type), BeginReport(h, o, type, ship, t), thread[t].at = "scan",
         thread' = [thread EXCEPT ![t].at = "waiting"]
  PROVE  /\ Called'
         /\ \A p : \A y \in Reports, l \in Labels :
              Update(p, y, l)' <=> IF CallerOf(y) = t THEN p = o /\ y = type /\ l = "read"
                                                      ELSE Update(p, y, l)
<1> DEFINE x == [at |-> "read", id |-> o, type |-> type, ship |-> ship, caller |-> t]
<1>1. x.at = "read" /\ x.id = o /\ x.type = type /\ x.caller = t
  OBVIOUS
<1>2. handler' = [handler EXCEPT ![h] = x] /\ handler[h].at = "idle"
  BY DEF BeginReport
<1> HIDE DEF x
<1>3. \A g \in Handlers : handler'[g] = IF g = h THEN x ELSE handler[g]
  BY <1>2 DEF FlowTyped, Typed
<1>4. \A g \in Handlers : handler[g].at # "idle" => handler[g].caller # t
  BY DEF Called
<1>5. t \in Threads /\ thread \in [Threads -> ThreadType]
  BY DEF FlowTyped, ThirdTyped, CallerOf, Threads
<1>6. \A u \in Threads : thread'[u].at = IF u = t THEN "waiting" ELSE thread[u].at
  BY <1>5 DEF ThreadType
<1>7. Called'
  <2>1. \A y : CallerOf(y) \in Threads
    BY DEF CallerOf, Threads
  <2> QED BY <1>1, <1>2, <1>3, <1>4, <1>6, <2>1 DEF Called
<1>8. ASSUME NEW p, NEW y \in Reports, NEW l \in Labels
      PROVE  Update(p, y, l)' <=> IF CallerOf(y) = t THEN p = o /\ y = type /\ l = "read"
                                                     ELSE Update(p, y, l)
  <2>1. Update(p, y, l)' <=> \E g \in Handlers : handler'[g].at = l /\ handler'[g].id = p /\ handler'[g].type = y
    BY DEF Update
  <2>2. \A g \in Handlers : g # h /\ handler[g].at = l => CallerOf(handler[g].type) # t
    BY <1>4 DEF Called, Labels
  <2> QED BY <1>1, <1>2, <1>3, <2>1, <2>2 DEF Update, Labels
<1> QED BY <1>7, <1>8

\* The manufacturer has made a card, or failed to.
LEMMA CardMade ==
  ASSUME FlowTyped, OneProcess, NEW o, NEW type, MakeCard(o, type)
  PROVE  /\ type \in {"card_error", "card_created"}
         /\ thread["manufacture"].at = "scan" /\ thread' = [thread EXCEPT !["manufacture"].at = "waiting"]
         /\ sending' = sending /\ OneProcess'
         /\ InMaking(o, "issuing") \/ InMaking(o, "error")
         /\ \A p, s : InMaking(p, s)' =>
              IF p = o THEN s = IF type = "card_error" THEN "error" ELSE "created" ELSE InMaking(p, s)
<1>1. PICK n \in DOMAIN making :
        /\ Visits("manufacture", making, n) /\ making[n].id = o /\ making[n].state \in {"issuing", "error"}
        /\ \/ type = "card_error" /\ making' = [making EXCEPT ![n].state = "error"]
           \/ type = "card_created" /\ making' = [making EXCEPT ![n].state = "created"]
        /\ thread' = [thread EXCEPT !["manufacture"].at = "waiting"] /\ sending' = sending
  BY DEF MakeCard
<1> DEFINE s == IF type = "card_error" THEN "error" ELSE "created"
           x == [making[n] EXCEPT !.state = s]
<1>2. making' = [making EXCEPT ![n] = x]
  BY <1>1
<1>3. making[n] \in MakingType
  BY PlacesAreNumbers DEF FlowTyped
<1>4. x.id = o /\ x.state = s
  BY <1>1, <1>3 DEF MakingType
<1> HIDE DEF x
<1>5. DOMAIN making' = DOMAIN making /\ \A k \in DOMAIN making : making'[k] = IF k = n THEN x ELSE making[k]
  BY <1>2
<1>6. \A k \in DOMAIN making : making'[k].id = making[k].id
  BY <1>1, <1>4, <1>5
<1>7. OneProcess'
  BY <1>5, <1>6 DEF OneProcess
<1>8. \A p, r : InMaking(p, r)' => IF p = o THEN r = s ELSE InMaking(p, r)
  BY <1>1, <1>4, <1>5, <1>6 DEF OneProcess, InMaking
<1> QED BY <1>1, <1>7, <1>8 DEF InMaking, Visits

\* The courier has sent or delivered a card.
LEMMA CardCarried ==
  ASSUME FlowTyped, NEW o, NEW type,
         \/ type = "card_shipped" /\ \E ship : SendCard(o, ship)
         \/ type = "card_delivered" /\ DeliverCard(o)
  PROVE  /\ thread["courier"].at = "scan" /\ thread' = [thread EXCEPT !["courier"].at = "waiting"]
         /\ making' = making
         /\ Parcel(o, IF type = "card_shipped" THEN "new" ELSE "sent")
         /\ \A p, s : Parcel(p, s)' =>
              Parcel(p, s) \/ (p = o /\ s = IF type = "card_shipped" THEN "sent" ELSE "delivered")
<1> DEFINE s == IF type = "card_shipped" THEN "sent" ELSE "delivered"
<1>1. PICK n, x :
        /\ n \in DOMAIN sending /\ Visits("courier", sending, n) /\ sending[n].id = o
        /\ sending[n].state = IF type = "card_shipped" THEN "new" ELSE "sent"
        /\ sending' = [sending EXCEPT ![n] = x]
        /\ x.id = o /\ x.state = s
        /\ thread' = [thread EXCEPT !["courier"].at = "waiting"] /\ making' = making
  <2>1. \A n \in DOMAIN sending : sending[n] \in SendingType
    BY PlacesAreNumbers DEF FlowTyped
  <2>2. CASE type = "card_delivered" /\ DeliverCard(o)
    <3>1. PICK n \in DOMAIN sending :
            /\ Visits("courier", sending, n) /\ sending[n].id = o /\ sending[n].state = "sent"
            /\ sending' = [sending EXCEPT ![n] = [sending[n] EXCEPT !.state = "delivered"]]
            /\ thread' = [thread EXCEPT !["courier"].at = "waiting"] /\ making' = making
      BY <2>2 DEF DeliverCard
    <3> DEFINE x == [sending[n] EXCEPT !.state = "delivered"]
    <3>2. x.id = o /\ x.state = "delivered"
      BY <2>1, <3>1 DEF SendingType
    <3> HIDE DEF x
    <3> QED BY <2>2, <3>1, <3>2 DEF x
  <2>3. ASSUME type = "card_shipped", NEW ship, SendCard(o, ship)
        PROVE  \E n, x :
                 /\ n \in DOMAIN sending /\ Visits("courier", sending, n) /\ sending[n].id = o
                 /\ sending[n].state = IF type = "card_shipped" THEN "new" ELSE "sent"
                 /\ sending' = [sending EXCEPT ![n] = x]
                 /\ x.id = o /\ x.state = s
                 /\ thread' = [thread EXCEPT !["courier"].at = "waiting"] /\ making' = making
    <3>1. PICK n \in DOMAIN sending :
            /\ Visits("courier", sending, n) /\ sending[n].id = o /\ sending[n].state = "new"
            /\ sending' = [sending EXCEPT ![n] = [sending[n] EXCEPT !.state = "sent", !.ship = ship]]
            /\ thread' = [thread EXCEPT !["courier"].at = "waiting"] /\ making' = making
      BY <2>3 DEF SendCard
    <3> DEFINE x == [sending[n] EXCEPT !.state = "sent", !.ship = ship]
    <3>2. x.id = o /\ x.state = "sent"
      BY <2>1, <3>1 DEF SendingType
    <3> HIDE DEF x
    <3> QED BY <2>3, <3>1, <3>2 DEF x
  <2> QED BY <2>2, <2>3
<1>2. DOMAIN sending' = DOMAIN sending /\ \A k \in DOMAIN sending : sending'[k] = IF k = n THEN x ELSE sending[k]
  BY <1>1
<1>3. \A p, r : Parcel(p, r)' => Parcel(p, r) \/ (p = o /\ r = s)
  BY <1>1, <1>2 DEF Parcel
<1> QED BY <1>1, <1>3 DEF Parcel, Visits

\* What a report leaves alone, once it is known that it arrives.
LEMMA Arrived ==
  ASSUME Reliable, FlowTyped, NEW t, NEW o, NEW type, NEW ship, Report(t, o, type, ship)
  PROVE  /\ UNCHANGED <<order, shipping, status, recent, cards, client, work>>
         /\ \E h \in Handlers : BeginReport(h, o, type, ship, t)
         /\ \A p : /\ SameRows(p) /\ SameWork(p)
                   /\ TypesOf(p)' = TypesOf(p) /\ Newest(p)' = Newest(p)
                   /\ \A y : Has(p, y)' <=> Has(p, y)
<1>1. PICK h \in Handlers : BeginReport(h, o, type, ship, t)
  BY NoFault DEF Report
<1>2. UNCHANGED <<order, shipping, status, recent, cards, client, work>>
  BY <1>1 DEF BeginReport, tables
<1>3. \A p : SameRows(p) /\ SameWork(p)
  BY <1>2 DEF SameRows, SameWork, Posted, Exists
<1> QED BY <1>1, <1>2, <1>3, RowsSame

LEMMA ManufacturerReported ==
  ASSUME Reliable, LInv, NEW o \in OrderIds, NEW type, ManufacturerReports(o, type)
  PROVE  Lasting'
<1>1. FlowTyped /\ OneProcess /\ Called /\ Creators
  BY DEF LInv, Lasting
<1>2. MakeCard(o, type) /\ Report("manufacture", o, type, 0)
  BY DEF ManufacturerReports
<1>3. /\ type \in {"card_error", "card_created"}
      /\ thread["manufacture"].at = "scan" /\ thread' = [thread EXCEPT !["manufacture"].at = "waiting"]
      /\ sending' = sending /\ OneProcess'
      /\ InMaking(o, "issuing") \/ InMaking(o, "error")
      /\ \A p, s : InMaking(p, s)' =>
           IF p = o THEN s = IF type = "card_error" THEN "error" ELSE "created" ELSE InMaking(p, s)
  BY <1>1, <1>2, CardMade
<1>4. /\ UNCHANGED <<order, shipping, status, recent, cards, client, work>>
      /\ \E h \in Handlers : BeginReport(h, o, type, 0, "manufacture")
      /\ \A p : /\ SameRows(p) /\ SameWork(p)
                /\ TypesOf(p)' = TypesOf(p) /\ Newest(p)' = Newest(p)
                /\ \A y : Has(p, y)' <=> Has(p, y)
  BY <1>1, <1>2, Arrived
<1>5. /\ Called'
      /\ \A p : \A y \in Reports, l \in Labels :
           Update(p, y, l)' <=> IF CallerOf(y) = "manufacture" THEN p = o /\ y = type /\ l = "read"
                                                               ELSE Update(p, y, l)
  <2>1. type \in Reports /\ CallerOf(type) = "manufacture" /\ 0 \in Nat
    BY <1>3 DEF Reports, CallerOf
  <2> QED BY <1>1, <1>3, <1>4, <2>1, Begun
<1>6. \A p, y, l : y \in Reports /\ l \in Labels /\ CallerOf(y) = "manufacture" => ~Update(p, y, l)
  BY <1>1, <1>3, NoneCalled
<1>7. \A p, s : Parcel(p, s)' <=> Parcel(p, s)
  BY <1>3 DEF Parcel
<1>8. Creators'
  BY <1>1, <1>4, CreatorsSame DEF Exists
<1>9. \A p \in OrderIds : p # o => Fits(p)'
  <2> SUFFICES ASSUME NEW p \in OrderIds, p # o PROVE Fits(p)'
    OBVIOUS
  <2>1. SameUpdates(p) /\ FewerProcesses(p)
    BY <1>3, <1>5, <1>6, <1>7 DEF SameUpdates, FewerProcesses
  <2> QED BY <1>4, <2>1, FitsSame DEF LInv, Lasting
<1>10. Fits(o)'
  <2>1. /\ \A l \in Labels : /\ Update(o, "card_created", l)' <=> type = "card_created" /\ l = "read"
                             /\ Update(o, "card_error", l)' <=> type = "card_error" /\ l = "read"
                             /\ Update(o, "card_shipped", l)' <=> Update(o, "card_shipped", l)
                             /\ Update(o, "card_delivered", l)' <=> Update(o, "card_delivered", l)
    BY <1>5 DEF CallerOf, Reports
  <2>2. /\ (Posted(o)' <=> Posted(o)) /\ status'[o] = status[o] /\ recent'[o] = recent[o]
        /\ cards'[o] = cards[o] /\ shipping'[o] = shipping[o]
    BY <1>4 DEF SameWork, SameRows
  <2>3. CardFits(o) /\ ParcelFits(o) /\ OrderFits(o)
    BY DEF LInv, Lasting, Fits
  <2>4. CardFits(o)'
    BY <1>3, <1>4, <2>1, <2>2, <2>3 DEF CardFits, Labels
  <2>5. ParcelFits(o)'
    BY <1>4, <1>7, <2>1, <2>2, <2>3 DEF ParcelFits, Labels
  <2>6. OrderFits(o)'
    <3>1. ~Untouched(o)
      BY <1>3 DEF Untouched
    <3> QED BY <1>4, <2>2, <2>3, <3>1 DEF OrderFits, SameRows, SameWork
  <2> QED BY <2>4, <2>5, <2>6 DEF Fits
<1> QED BY <1>3, <1>4, <1>5, <1>8, <1>9, <1>10 DEF LInv, Lasting

\* The courier reports a parcel it has sent, or one it has delivered.
LEMMA CourierReported ==
  ASSUME Reliable, LInv, NEW o \in OrderIds, CourierReportsShipped(o) \/ CourierReportsDelivered(o)
  PROVE  Lasting'
<1>1. FlowTyped /\ OneProcess /\ Called /\ Creators
  BY DEF LInv, Lasting
<1>2. PICK type, ship :
        /\ ship \in Nat /\ Report("courier", o, type, ship)
        /\ \/ type = "card_shipped" /\ \E s : SendCard(o, s)
           \/ type = "card_delivered" /\ DeliverCard(o)
  <2>1. CASE CourierReportsShipped(o)
    BY <2>1 DEF CourierReportsShipped, FreshShippingIds
  <2>2. CASE CourierReportsDelivered(o)
    BY <2>2 DEF CourierReportsDelivered
  <2> QED BY <2>1, <2>2
<1>3. /\ thread["courier"].at = "scan" /\ thread' = [thread EXCEPT !["courier"].at = "waiting"]
      /\ making' = making
      /\ Parcel(o, IF type = "card_shipped" THEN "new" ELSE "sent")
      /\ \A p, s : Parcel(p, s)' =>
           Parcel(p, s) \/ (p = o /\ s = IF type = "card_shipped" THEN "sent" ELSE "delivered")
  BY <1>1, <1>2, CardCarried
<1>4. /\ UNCHANGED <<order, shipping, status, recent, cards, client, work>>
      /\ \E h \in Handlers : BeginReport(h, o, type, ship, "courier")
      /\ \A p : /\ SameRows(p) /\ SameWork(p)
                /\ TypesOf(p)' = TypesOf(p) /\ Newest(p)' = Newest(p)
                /\ \A y : Has(p, y)' <=> Has(p, y)
  BY <1>1, <1>2, Arrived
<1>5. /\ Called'
      /\ \A p : \A y \in Reports, l \in Labels :
           Update(p, y, l)' <=> IF CallerOf(y) = "courier" THEN p = o /\ y = type /\ l = "read"
                                                           ELSE Update(p, y, l)
  <2>1. type \in Reports /\ CallerOf(type) = "courier"
    BY <1>2 DEF Reports, CallerOf
  <2> QED BY <1>1, <1>2, <1>3, <1>4, <2>1, Begun
<1>6. \A p, y, l : y \in Reports /\ l \in Labels /\ CallerOf(y) = "courier" => ~Update(p, y, l)
  BY <1>1, <1>3, NoneCalled
<1>7. \A p, s : InMaking(p, s)' <=> InMaking(p, s)
  BY <1>3 DEF InMaking
<1>8. Creators' /\ OneProcess'
  BY <1>1, <1>3, <1>4, CreatorsSame DEF Exists, OneProcess
<1>9. \A p \in OrderIds : p # o => Fits(p)'
  <2> SUFFICES ASSUME NEW p \in OrderIds, p # o PROVE Fits(p)'
    OBVIOUS
  <2>1. SameUpdates(p) /\ FewerProcesses(p)
    BY <1>3, <1>5, <1>6, <1>7 DEF SameUpdates, FewerProcesses
  <2> QED BY <1>4, <2>1, FitsSame DEF LInv, Lasting
<1>10. Fits(o)'
  <2>1. /\ \A l \in Labels : /\ Update(o, "card_created", l)' <=> Update(o, "card_created", l)
                             /\ Update(o, "card_error", l)' <=> Update(o, "card_error", l)
                             /\ Update(o, "card_shipped", l)' <=> type = "card_shipped" /\ l = "read"
                             /\ Update(o, "card_delivered", l)' <=> type = "card_delivered" /\ l = "read"
                             /\ ~Update(o, "card_shipped", l) /\ ~Update(o, "card_delivered", l)
    BY <1>5, <1>6 DEF CallerOf, Reports
  <2>2. /\ (Posted(o)' <=> Posted(o)) /\ status'[o] = status[o] /\ recent'[o] = recent[o]
        /\ cards'[o] = cards[o] /\ shipping'[o] = shipping[o]
    BY <1>4 DEF SameWork, SameRows
  <2>3. CardFits(o) /\ ParcelFits(o) /\ OrderFits(o)
    BY DEF LInv, Lasting, Fits
  <2>4. CardFits(o)'
    BY <1>4, <1>7, <2>1, <2>2, <2>3 DEF CardFits, Labels
  <2>5. ParcelFits(o)'
    BY <1>2, <1>3, <1>4, <2>1, <2>2, <2>3 DEF ParcelFits, Labels
  <2>6. OrderFits(o)'
    <3>1. ~Untouched(o)
      BY <1>3 DEF Untouched
    <3> QED BY <1>4, <2>2, <2>3, <3>1 DEF OrderFits, SameRows, SameWork
  <2> QED BY <2>4, <2>5, <2>6 DEF Fits
<1> QED BY <1>4, <1>5, <1>8, <1>9, <1>10 DEF LInv, Lasting

-----------------------------------------------------------------------------
(* Requests                                                                *)

\* A new row of o is its newest.
LEMMA RowAppended ==
  ASSUME FlowTyped, NEW o \in OrderIds, NEW type \in StatusTypes, InsertNewStatus(o, type)
  PROVE  /\ \A p \in OrderIds : p # o => status'[p] = status[p] /\ recent'[p] = recent[p]
         /\ status'[o] # <<>> /\ Newest(o)' = type
         /\ TypesOf(o)' = TypesOf(o) \cup {type}
         /\ \A y : Has(o, y)' <=> Has(o, y) \/ y = type
<1>1. Typed /\ status[o] \in Seq(StatusTypes) /\ recent \in [OrderIds -> Nat]
  BY DEF FlowTyped, Typed, Tied
<1>2. \A p \in OrderIds : status'[p] = IF p = o THEN Append(status[p], type) ELSE status[p]
  BY <1>1, AppendedStatus
<1>3. TypesOf(o)' = TypesOf(o) \cup {type}
  BY <1>1, <1>2, TypesAppended DEF TypesOf
<1>4. status'[o] # <<>> /\ status'[o][Len(status'[o])] = type
  <2>1. \A s \in Seq(StatusTypes) : Append(s, type) # <<>> /\ Append(s, type)[Len(Append(s, type))] = type
    OBVIOUS
  <2> QED BY <1>1, <1>2, <2>1
<1>5. \/ recent' = [recent EXCEPT ![o] = 1]
      \/ recent' = [recent EXCEPT ![o] = recent[o] + 1]
  BY DEF InsertNewStatus
<1>6. \A p \in OrderIds : p # o => recent'[p] = recent[p]
  BY <1>1, <1>5
<1> QED BY <1>2, <1>3, <1>4, <1>6 DEF Newest, Has

\* What a step of the order service that is no update leaves alone.
LEMMA ServiceStep ==
  ASSUME Lasting, UNCHANGED <<handler, thirdVars>>
  PROVE  /\ OneProcess' /\ Called'
         /\ \A p : SameUpdates(p) /\ FewerProcesses(p)
         /\ \A p, s : (InMaking(p, s)' <=> InMaking(p, s)) /\ (Parcel(p, s)' <=> Parcel(p, s))
<1>1. UNCHANGED <<making, sending, thread, handler>>
  BY DEF thirdVars
<1>2. OneProcess' /\ Called'
  BY <1>1, CalledSame DEF OneProcess, Lasting
<1>3. \A p, s : (InMaking(p, s)' <=> InMaking(p, s)) /\ (Parcel(p, s)' <=> Parcel(p, s))
  BY <1>1 DEF InMaking, Parcel
<1> QED BY <1>1, <1>2, <1>3, UpdatesSame DEF FewerProcesses

LEMMA NothingYet ==
  ASSUME NEW o, Fits(o), status[o] = <<>>
  PROVE  /\ Untouched(o) /\ ~Posted(o) /\ o \notin work.todo
         /\ TypesOf(o) = {} /\ \A type : ~Has(o, type)
BY DEF Fits, OrderFits, TypesOf, Has, Range

LEMMA RequestFits ==
  ASSUME LInv, NEW c \in Clients, UNCHANGED <<thirdVars>>,
         (\E a \in Accounts : CountOrders(c, a)) \/ InsertNewOrder(c) \/ InsertFirstStatus(c)
  PROVE  Lasting'
<1>1. FlowTyped /\ Creators /\ Lasting /\ Typed
  BY DEF LInv, Lasting, FlowTyped
<1>2. UNCHANGED <<shipping, cards, handler, work>>
  BY DEF CountOrders, InsertNewOrder, InsertFirstStatus, tables
<1>3. /\ OneProcess' /\ Called'
      /\ \A p : SameUpdates(p) /\ FewerProcesses(p) /\ SameWork(p)
      /\ \A p, s : (InMaking(p, s)' <=> InMaking(p, s)) /\ (Parcel(p, s)' <=> Parcel(p, s))
  BY <1>1, <1>2, ServiceStep DEF SameWork, Posted
<1>4. ASSUME UNCHANGED <<status, recent>>, \A p \in OrderIds : Exists(p) => Exists(p)', Creators'
      PROVE  Lasting'
  <2>1. \A p \in OrderIds : SameRows(p)
    BY <1>2, <1>4 DEF SameRows
  <2> QED BY <1>2, <1>3, <1>4, <2>1, FitsSame DEF LInv, Lasting
<1>5. client \in [Clients -> ClientType] /\ client[c] \in ClientType
  BY <1>1 DEF Typed
<1>6. ASSUME NEW a \in Accounts, CountOrders(c, a) PROVE Lasting'
  <2> DEFINE x == [client[c] EXCEPT !.at = "insert", !.acct = a]
  <2>1. client' = [client EXCEPT ![c] = x] /\ UNCHANGED <<order, status, recent>>
    BY <1>6 DEF CountOrders, tables
  <2>2. x.at = "insert"
    BY <1>5 DEF ClientType
  <2> HIDE DEF x
  <2>3. \A d \in Clients : client'[d] = IF d = c THEN x ELSE client[d]
    BY <1>5, <2>1
  <2>4. Creators'
    BY <1>1, <2>1, <2>2, <2>3 DEF Creators, Exists
  <2> QED BY <1>4, <2>1, <2>4 DEF Exists
<1>7. CASE InsertNewOrder(c)
  <2>1. PICK o \in OrderIds :
          /\ order[o] = "unused" /\ order' = [order EXCEPT ![o] = client[c].acct]
          /\ client' = [client EXCEPT ![c] = [client[c] EXCEPT !.at = "status", !.id = o]]
    BY <1>7 DEF InsertNewOrder
  <2> DEFINE x == [client[c] EXCEPT !.at = "status", !.id = o]
  <2>2. x.at = "status" /\ x.id = o
    BY <1>5 DEF ClientType
  <2>3. client' = [client EXCEPT ![c] = x]
    BY <2>1
  <2> HIDE DEF x
  <2>4. \A d \in Clients : client'[d] = IF d = c THEN x ELSE client[d]
    BY <1>5, <2>3
  <2>5. client[c].acct \in Accounts
    BY <1>1, <1>7 DEF FlowTyped, Sound, InsertNewOrder
  <2>6. \A p \in OrderIds : order'[p] = IF p = o THEN client[c].acct ELSE order[p]
    BY <1>1, <2>1 DEF Typed
  <2>7. ~Exists(o)
    BY <2>1, CardOrdersAssumption DEF Exists
  <2>8. status[o] = <<>> /\ status' = status /\ recent' = recent
    BY <1>7, <2>7 DEF LInv, Lasting, Fits, OrderFits, InsertNewOrder
  <2>9. Creators'
    <3>1. \A d \in Clients : client[d].at = "status" => client[d].id # o
      BY <1>1, <2>7 DEF Creators
    <3> QED BY <1>1, <2>2, <2>4, <2>5, <2>6, <2>8, <3>1 DEF Creators, Exists
  <2> QED BY <1>4, <2>5, <2>6, <2>8, <2>9 DEF Exists
<1>8. CASE InsertFirstStatus(c)
  <2>1. PICK o \in OrderIds : o = client[c].id /\ Exists(o) /\ status[o] = <<>>
    BY <1>1, <1>8 DEF Creators, InsertFirstStatus
  <2>2. InsertNewStatus(o, "order_created") /\ order' = order /\ Done(c)
    BY <1>8, <2>1 DEF InsertFirstStatus
  <2>3. /\ \A p \in OrderIds : p # o => status'[p] = status[p] /\ recent'[p] = recent[p]
        /\ status'[o] # <<>> /\ Newest(o)' = "order_created"
        /\ TypesOf(o)' = TypesOf(o) \cup {"order_created"}
        /\ \A y : Has(o, y)' <=> Has(o, y) \/ y = "order_created"
    BY <1>1, <2>1, <2>2, RowAppended, StatusTypesFact
  <2>4. \A p \in OrderIds : p # o => Fits(p)'
    <3>1. \A p \in OrderIds : p # o => SameRows(p)
      BY <1>2, <2>2, <2>3 DEF SameRows, Exists
    <3> QED BY <1>3, <3>1, FitsSame DEF LInv, Lasting
  <2>5. Fits(o)'
    <3>1. /\ Untouched(o) /\ ~Posted(o) /\ o \notin work.todo
          /\ TypesOf(o) = {} /\ \A type : ~Has(o, type)
      BY <2>1, NothingYet DEF LInv, Lasting
    <3>2. ~Posted(o)' /\ o \notin work.todo' /\ Exists(o)'
      BY <1>3, <2>1, <2>2, <3>1 DEF SameWork, Exists
    <3>3. Untouched(o)'
      BY <1>2, <1>3, <3>1 DEF Untouched, SameUpdates
    <3>4. CardFits(o)'
      BY <2>3, <3>1, <3>3 DEF CardFits, Untouched, Reports, Labels
    <3>5. ParcelFits(o)'
      BY <2>3, <3>1, <3>3 DEF ParcelFits, Untouched, Reports, Labels
    <3>6. OrderFits(o)'
      BY <2>3, <3>1, <3>2, <3>3 DEF OrderFits
    <3> QED BY <3>4, <3>5, <3>6 DEF Fits
  <2>6. Creators'
    <3>1. \A d \in Clients : client'[d].at = "status" => d # c /\ client'[d] = client[d]
      BY <1>5, <2>2 DEF Done, NewClient
    <3>2. \A d \in Clients : d # c /\ client[d].at = "status" => client[d].id # o
      BY <1>1, <1>8, <2>1 DEF Creators, InsertFirstStatus
    <3> QED BY <1>1, <2>2, <2>3, <3>1, <3>2 DEF Creators, Exists
  <2> QED BY <1>2, <1>3, <2>4, <2>5, <2>6 DEF LInv, Lasting
<1> QED BY <1>6, <1>7, <1>8

-----------------------------------------------------------------------------
(* WorkScheduler                                                           *)

LEMMA WorkListed ==
  ASSUME LInv, UNCHANGED <<thirdVars>>, WorkList
  PROVE  Lasting'
<1>1. /\ UNCHANGED <<order, shipping, status, recent, cards, client, handler>>
      /\ work.at = "idle" /\ work' = [work EXCEPT !.at = "next", !.todo = Waiting]
  BY DEF WorkList, tables
<1>2. work'.at = "next" /\ work'.todo = Waiting
  BY <1>1 DEF LInv, FlowTyped, WorkTyped
<1>3. \A p : ~Posted(p) /\ ~Posted(p)'
  BY <1>1, <1>2 DEF Posted
<1>4. OneProcess' /\ Called' /\ \A p : SameUpdates(p) /\ FewerProcesses(p)
  BY <1>1, ServiceStep DEF LInv
<1>5. Creators' /\ \A p : SameRows(p)
  BY <1>1, CreatorsSame DEF LInv, Lasting, SameRows, Exists
<1>6. ASSUME NEW p \in OrderIds PROVE Fits(p)'
  <2>1. CASE p \notin Waiting
    BY <1>2, <1>3, <1>4, <1>5, <2>1, FitsSame DEF SameWork, LInv, Lasting
  <2>2. CASE p \in Waiting
    <3>1. status[p] # <<>> /\ Newest(p) = "order_created"
      BY <2>2 DEF Waiting, Newest
    <3>2. Untouched(p) /\ TypesOf(p) \subseteq {"order_created"} /\ Exists(p)
      BY <1>3, <3>1 DEF LInv, Lasting, Fits, OrderFits
    <3>3. TypesOf(p)' = TypesOf(p) /\ Newest(p)' = Newest(p) /\ \A y : Has(p, y)' <=> Has(p, y)
      BY <1>5, RowsSame
    <3>4. Untouched(p)'
      BY <1>1, <1>4, <3>2 DEF Untouched, SameUpdates, FewerProcesses
    <3>5. \A y : Has(p, y) => y = "order_created"
      BY <3>2 DEF Has
    <3>6. CardFits(p)' /\ ParcelFits(p)'
      BY <3>3, <3>4, <3>5 DEF CardFits, ParcelFits, Untouched, Reports, Labels
    <3>7. OrderFits(p)'
      BY <1>1, <3>1, <3>2, <3>3, <3>4 DEF OrderFits, Exists
    <3> QED BY <3>6, <3>7 DEF Fits
  <2> QED BY <2>1, <2>2
<1> QED BY <1>2, <1>4, <1>5, <1>6 DEF Lasting

LEMMA ManufacturePosted ==
  ASSUME LInv, NEW o \in OrderIds, PostManufacture(o)
  PROVE  Lasting'
<1>1. /\ UNCHANGED <<order, shipping, status, recent, cards, client, handler>>
      /\ work.at = "next" /\ o \in work.todo /\ work' = [work EXCEPT !.at = "posted", !.current = o]
      /\ making' = Append(making, [id |-> o, state |-> "issuing"]) /\ sending' = sending
      /\ thread' = [thread EXCEPT !["manufacture"] = NoticeGrowth("manufacture")]
  BY DEF PostManufacture, WorkPost, IssueCreditCard, tables
<1>2. work'.at = "posted" /\ work'.current = o /\ work'.todo = work.todo
  BY <1>1 DEF LInv, FlowTyped, WorkTyped
<1>3. \A p : ~Posted(p) /\ (Posted(p)' <=> p = o)
  BY <1>1, <1>2 DEF Posted
<1>4. Untouched(o) /\ TypesOf(o) \subseteq {"order_created"} /\ status[o] # <<>> /\ Exists(o)
  BY <1>1, <1>3 DEF LInv, Lasting, Fits, OrderFits
<1>5. \A n \in DOMAIN making' :
        \/ n \in DOMAIN making /\ making'[n] = making[n] /\ making[n].id # o
        \/ n = Len(making) + 1 /\ making'[n] = [id |-> o, state |-> "issuing"]
  <2>1. making \in Seq(MakingType)
    BY DEF LInv, FlowTyped, ThirdTyped
  <2>2. \A n \in DOMAIN making : making[n].state \in {"issuing", "error", "created"}
    BY PlacesAreNumbers DEF LInv, FlowTyped, MakingType
  <2>3. \A n \in DOMAIN making : making[n].id # o
    BY <1>4, <2>2 DEF Untouched, InMaking
  <2>4. \A n \in DOMAIN making' :
          \/ n \in DOMAIN making /\ making'[n] = making[n]
          \/ n = Len(making) + 1 /\ making'[n] = [id |-> o, state |-> "issuing"]
    BY <1>1, <2>1, ListGrown
  <2> QED BY <2>3, <2>4
<1>6. OneProcess' /\ \A p, s : InMaking(p, s)' => InMaking(p, s) \/ (p = o /\ s = "issuing")
  BY <1>5 DEF OneProcess, InMaking, LInv, Lasting
<1>7. Called'
  <2>1. thread \in [Threads -> ThreadType] /\ thread["manufacture"] \in ThreadType
    BY TwoThreads DEF LInv, FlowTyped, ThirdTyped
  <2>2. NoticeGrowth("manufacture").at = thread["manufacture"].at
    BY <2>1 DEF NoticeGrowth, ThreadType
  <2>3. \A t \in Threads : thread'[t].at = thread[t].at
    BY <1>1, <2>1, <2>2
  <2> QED BY <1>1, <2>3, CalledSame DEF LInv, Lasting
<1>8. \A p : SameRows(p) /\ SameUpdates(p)
  BY <1>1, UpdatesSame DEF SameRows, Exists
<1>9. Creators'
  BY <1>1, CreatorsSame DEF LInv, Lasting, Exists
<1>10. \A p, s : Parcel(p, s)' <=> Parcel(p, s)
  BY <1>1 DEF Parcel
<1>11. \A p \in OrderIds : p # o => Fits(p)'
  <2>1. \A p : p # o => FewerProcesses(p) /\ SameWork(p)
    BY <1>2, <1>3, <1>6, <1>10 DEF FewerProcesses, SameWork
  <2> QED BY <1>8, <2>1, FitsSame DEF LInv, Lasting
<1>12. Fits(o)'
  <2>1. TypesOf(o)' = TypesOf(o) /\ Newest(o)' = Newest(o) /\ \A y : Has(o, y)' <=> Has(o, y)
    BY <1>8, RowsSame
  <2>2. \A y : Has(o, y) => y = "order_created"
    BY <1>4 DEF Has
  <2>3. \A type \in Reports, l \in Labels : ~Update(o, type, l)'
    BY <1>4, <1>8 DEF Untouched, SameUpdates
  <2>4. \A s : InMaking(o, s)' /\ s \in {"issuing", "error", "created"} => s = "issuing"
    BY <1>4, <1>6 DEF Untouched
  <2>5. \A s \in {"new", "sent", "delivered"} : ~Parcel(o, s)'
    BY <1>4, <1>10 DEF Untouched
  <2>6. cards'[o] = 0 /\ shipping'[o] = 0
    BY <1>1, <1>4 DEF Untouched
  <2>7. CardFits(o)'
    BY <2>1, <2>2, <2>3, <2>4, <2>6 DEF CardFits, Reports, Labels
  <2>8. ParcelFits(o)'
    BY <2>1, <2>2, <2>3, <2>5, <2>6 DEF ParcelFits, Reports, Labels
  <2>9. OrderFits(o)'
    BY <1>1, <1>3, <1>4 DEF OrderFits, Exists
  <2> QED BY <2>7, <2>8, <2>9 DEF Fits
<1> QED BY <1>2, <1>6, <1>7, <1>9, <1>11, <1>12 DEF Lasting

LEMMA WorkRecorded ==
  ASSUME LInv, UNCHANGED <<thirdVars>>, WorkOrdered
  PROVE  Lasting'
<1>1. PICK o \in OrderIds : o = work.current /\ Posted(o)
  BY DEF WorkOrdered, LInv, Lasting, Posted
<1>2. Exists(o) /\ ParcelFits(o) /\ CardFits(o)
  BY <1>1 DEF LInv, Lasting, Fits, OrderFits
<1>3. /\ UNCHANGED <<order, shipping, cards, client, handler>>
      /\ InsertNewStatus(o, "card_ordered")
      /\ work' = IF work.todo = {o} THEN Resting
                 ELSE [work EXCEPT !.at = "next", !.todo = @ \ {o}, !.current = "none"]
  BY <1>1, <1>2 DEF WorkOrdered
<1>4. work'.at # "posted" /\ o \notin work'.todo /\ work'.todo \subseteq work.todo
  BY <1>3 DEF LInv, FlowTyped, WorkTyped, Resting
<1>5. \A p : ~Posted(p)' /\ (Posted(p) => p = o)
  BY <1>1, <1>4 DEF Posted
<1>6. /\ \A p \in OrderIds : p # o => status'[p] = status[p] /\ recent'[p] = recent[p]
      /\ status'[o] # <<>> /\ Newest(o)' = "card_ordered"
      /\ TypesOf(o)' = TypesOf(o) \cup {"card_ordered"}
      /\ \A y : Has(o, y)' <=> Has(o, y) \/ y = "card_ordered"
  BY <1>3, RowAppended, StatusTypesFact DEF LInv
<1>7. OneProcess' /\ Called' /\ \A p : SameUpdates(p) /\ FewerProcesses(p)
  BY <1>3, ServiceStep DEF LInv
<1>8. Creators'
  <2>1. \A p \in OrderIds : status[p] = <<>> => status'[p] = <<>>
    BY <1>1, <1>6 DEF LInv, Lasting, Fits, OrderFits
  <2> QED BY <1>3, <2>1, CreatorsSame DEF LInv, Lasting, Exists
<1>9. \A p \in OrderIds : p # o => Fits(p)'
  <2>1. \A p \in OrderIds : p # o => SameRows(p) /\ SameWork(p)
    BY <1>3, <1>4, <1>5, <1>6 DEF SameRows, SameWork, Exists
  <2> QED BY <1>7, <2>1, FitsSame DEF LInv, Lasting
<1>10. Fits(o)'
  <2>1. /\ \A type \in Reports, l \in Labels : Update(o, type, l)' <=> Update(o, type, l)
        /\ \A s : InMaking(o, s)' => InMaking(o, s)
        /\ \A s : Parcel(o, s)' => Parcel(o, s)
        /\ cards'[o] = cards[o] /\ shipping'[o] = shipping[o]
    BY <1>3, <1>7 DEF Update, FewerProcesses
  <2>2. CardFits(o)'
    BY <1>2, <1>6, <2>1 DEF CardFits, Reports, Labels
  <2>3. ParcelFits(o)'
    BY <1>1, <1>2, <1>6, <2>1 DEF ParcelFits, Reports, Labels
  <2>4. OrderFits(o)'
    BY <1>2, <1>3, <1>4, <1>6 DEF OrderFits, Exists
  <2> QED BY <2>2, <2>3, <2>4 DEF Fits
<1> QED BY <1>4, <1>7, <1>8, <1>9, <1>10 DEF Lasting

\* No order WorkScheduler has listed is gone.
LEMMA NoneGone ==
  ASSUME LInv, NEW o \in OrderIds
  PROVE  ~WorkOrderGone(o)
BY DEF WorkOrderGone, LInv, Lasting, Fits, OrderFits

-----------------------------------------------------------------------------
(* Updates                                                                 *)

\* An update moves on; its caller has no other.
LEMMA Stepped ==
  ASSUME FlowTyped, Called, UNCHANGED <<thirdVars>>, NEW h \in Handlers, NEW label \in Labels,
         handler[h].at # "idle", Step(h, label), NEW o, o = handler[h].id, NEW type, type = handler[h].type
  PROVE  /\ Called'
         /\ type \in Reports
         /\ \A p : \A y \in Reports, l \in Labels :
              IF CallerOf(y) = CallerOf(type)
                THEN /\ Update(p, y, l) <=> p = o /\ y = type /\ l = handler[h].at
                     /\ Update(p, y, l)' <=> p = o /\ y = type /\ l = label
                ELSE Update(p, y, l)' <=> Update(p, y, l)
<1>1. handler \in [Handlers -> HandlerType] /\ handler[h] \in HandlerType
  BY DEF FlowTyped, Typed
<1> DEFINE x == [handler[h] EXCEPT !.at = label]
<1>2. handler' = [handler EXCEPT ![h] = x]
  BY DEF Step
<1>3. x.at = label /\ x.id = o /\ x.type = type /\ x.caller = handler[h].caller
  BY <1>1 DEF HandlerType
<1> HIDE DEF x
<1>4. \A g \in Handlers : handler'[g] = IF g = h THEN x ELSE handler[g]
  BY <1>1, <1>2
<1>5. \A g \in Handlers : handler[g].at # "idle" /\ CallerOf(handler[g].type) = CallerOf(type) => g = h
  BY DEF Called
<1>6. Called'
  <2>1. thread' = thread
    BY DEF thirdVars
  <2> QED BY <1>3, <1>4, <2>1 DEF Called, Labels
<1>7. type \in Reports
  BY DEF Called
<1>8. ASSUME NEW p, NEW y \in Reports, NEW l \in Labels
      PROVE  IF CallerOf(y) = CallerOf(type)
                THEN /\ Update(p, y, l) <=> p = o /\ y = type /\ l = handler[h].at
                     /\ Update(p, y, l)' <=> p = o /\ y = type /\ l = label
                ELSE Update(p, y, l)' <=> Update(p, y, l)
  <2>1. Update(p, y, l)' <=> \E g \in Handlers : handler'[g].at = l /\ handler'[g].id = p /\ handler'[g].type = y
    BY DEF Update
  <2>2. l # "idle"
    BY DEF Labels
  <2>3. CASE CallerOf(y) = CallerOf(type)
    BY <1>3, <1>4, <1>5, <2>1, <2>2, <2>3 DEF Update
  <2>4. CASE CallerOf(y) # CallerOf(type)
    BY <1>3, <1>4, <2>1, <2>4 DEF Update
  <2> QED BY <2>3, <2>4
<1> QED BY <1>6, <1>7, <1>8

\* What the newest row lets an update go on to.
LEMMA Judged ==
  ASSUME FlowTyped, NEW h \in Handlers, NEW o \in OrderIds, o = handler[h].id, NEW type, type = handler[h].type,
         type \in Reports, status[o] # <<>>, ParcelFits(o), HandleNewStatus(h)
  PROVE  \E label \in {"answered", "record", "append"} :
           /\ Step(h, label)
           /\ type \in {"card_error", "card_delivered"} => label # "record"
           /\ type = "card_created" => label = "record" \/ Has(o, "card_created")
           /\ type = "card_shipped" =>
                \/ label = "record" /\ (Has(o, "card_shipped") => recent[o] > 1)
                \/ label = "answered" /\ Has(o, "card_shipped")
<1>1. PICK last \in LastStatuses(o) :
        Step(h, IF Sequence[type] <= Sequence[last] THEN "answered"
                ELSE IF type \in {"card_created", "card_shipped"} THEN "record"
                ELSE "append")
  BY DEF HandleNewStatus
<1>2. status[o] \in Seq(StatusTypes) /\ DOMAIN status[o] = 1..Len(status[o]) /\ Len(status[o]) \in Nat
  BY DEF FlowTyped, Typed
<1>3. last \in StatusTypes /\ Has(o, last)
  BY <1>2 DEF LastStatuses, Has, TypesOf, Range
<1>4. recent[o] > 1 \/ last = Newest(o)
  <2>1. PICK n \in 1..Len(status[o]) : n > Len(status[o]) - recent[o] /\ last = status[o][n]
    BY <1>2 DEF LastStatuses
  <2>2. recent[o] \in 0..Len(status[o])
    BY DEF FlowTyped, Tied
  <2> QED BY <1>2, <2>1, <2>2 DEF Newest
<1>5. /\ Sequence["order_created"] = 10 /\ Sequence["card_ordered"] = 20 /\ Sequence["card_error"] = 30
      /\ Sequence["card_created"] = 39 /\ Sequence["card_shipped"] = 40 /\ Sequence["card_delivered"] = 50
  BY DEF Sequence
<1>6. /\ Has(o, "card_shipped") => /\ Has(o, "card_created")
                                   /\ Newest(o) \in {"card_shipped", "card_delivered"}
      /\ Has(o, "card_delivered") => Has(o, "card_shipped")
  BY DEF ParcelFits
<1>7. type = "card_created" /\ ~Has(o, "card_created") => last \in {"order_created", "card_ordered", "card_error"}
  BY <1>3, <1>6, StatusTypesFact
<1>8. type = "card_shipped" /\ ~Has(o, "card_shipped") =>
        last \in {"order_created", "card_ordered", "card_error", "card_created"}
  BY <1>3, <1>6, StatusTypesFact
<1>9. Has(o, "card_shipped") => recent[o] > 1 \/ last \in {"card_shipped", "card_delivered"}
  BY <1>4, <1>6
<1> QED BY <1>1, <1>5, <1>7, <1>8, <1>9 DEF Reports

\* An order that is being updated is not to be sent, whatever the update does.
LEMMA UpdateFits ==
  ASSUME LInv, UNCHANGED <<order, client, work, thirdVars>>,
         NEW h \in Handlers, NEW at \in Labels, at = handler[h].at, NEW label \in Labels, Step(h, label),
         NEW o \in OrderIds, o = handler[h].id, NEW type, type = handler[h].type,
         \A p \in OrderIds : p # o => /\ status'[p] = status[p] /\ recent'[p] = recent[p]
                                      /\ cards'[p] = cards[p] /\ shipping'[p] = shipping[p],
         status'[o] # <<>>, Newest(o)' = Newest(o) \/ Newest(o)' \in Reports,
         CardFits(o)', ParcelFits(o)'
  PROVE  Lasting'
<1>1. FlowTyped /\ OneProcess /\ Called /\ Creators /\ handler[h].at # "idle"
  BY DEF LInv, Lasting, Labels
<1>2. /\ Called'
      /\ type \in Reports
      /\ \A p : \A y \in Reports, l \in Labels :
           IF CallerOf(y) = CallerOf(type)
             THEN /\ Update(p, y, l) <=> p = o /\ y = type /\ l = at
                  /\ Update(p, y, l)' <=> p = o /\ y = type /\ l = label
             ELSE Update(p, y, l)' <=> Update(p, y, l)
  BY <1>1, Stepped
<1>3. OneProcess' /\ \A p : FewerProcesses(p) /\ SameWork(p) /\ (Posted(p)' <=> Posted(p))
  BY DEF LInv, Lasting, OneProcess, thirdVars, FewerProcesses, InMaking, Parcel, SameWork, Posted
<1>4. ~Untouched(o)
  BY <1>2 DEF Untouched
<1>5. status[o] # <<>> /\ Exists(o)
  BY <1>4 DEF LInv, Lasting, Fits, OrderFits
<1>6. Creators'
  <2>1. \A p \in OrderIds : status[p] = <<>> => status'[p] = <<>>
    BY <1>5
  <2> QED BY <1>1, <2>1, CreatorsSame DEF Exists
<1>7. \A p \in OrderIds : p # o => Fits(p)'
  <2>1. \A p \in OrderIds : p # o => SameRows(p) /\ SameUpdates(p)
    BY <1>2 DEF SameRows, SameUpdates, Exists
  <2> QED BY <1>3, <2>1, FitsSame DEF LInv, Lasting
<1>8. OrderFits(o)'
  <2>1. o \in work.todo \/ Newest(o) = "order_created" => Posted(o)
    BY <1>4, <1>5 DEF LInv, Lasting, Fits, OrderFits
  <2>2. o \in work'.todo \/ Newest(o)' = "order_created" => Posted(o)'
    BY <1>3, <2>1 DEF Reports
  <2> QED BY <1>5, <2>2 DEF OrderFits, Exists
<1> QED BY <1>2, <1>3, <1>6, <1>7, <1>8 DEF LInv, Lasting, Fits

LEMMA HandlerFits ==
  ASSUME Reliable, LInv, UNCHANGED <<thirdVars>>, NEW h \in Handlers, HandlerStep(h)
  PROVE  Lasting'
<1>1. FlowTyped /\ Called /\ Typed /\ Sound
  BY DEF LInv, Lasting, FlowTyped
<1>2. /\ UNCHANGED <<order, client, work>>
      /\ handler[h].at \in {"read", "record", "append"}
  BY DEF HandlerStep, HandleNewStatus, InsertNewCreditCard, UpdateOrder, AppendStatus, tables
<1>3. PICK o \in OrderIds, type \in StatusTypes, at \in {"read", "record", "append"} :
        o = handler[h].id /\ type = handler[h].type /\ at = handler[h].at
  BY <1>1, <1>2 DEF Sound
<1>4. at \in {"read", "record", "append"} /\ at \in Labels
  BY <1>2, <1>3 DEF Labels
<1>5. ASSUME NEW label \in Labels, Step(h, label)
      PROVE  /\ type \in Reports
             /\ \A y \in Reports, l \in Labels :
                  IF CallerOf(y) = CallerOf(type)
                    THEN /\ Update(o, y, l) <=> y = type /\ l = at
                         /\ Update(o, y, l)' <=> y = type /\ l = label
                    ELSE Update(o, y, l)' <=> Update(o, y, l)
  BY <1>1, <1>2, <1>3, <1>5, Stepped
<1>6. /\ \A s : (InMaking(o, s)' <=> InMaking(o, s)) /\ (Parcel(o, s)' <=> Parcel(o, s))
      /\ Posted(o)' <=> Posted(o)
  BY <1>2 DEF thirdVars, InMaking, Parcel, Posted
<1>7. CardFits(o) /\ ParcelFits(o) /\ OrderFits(o)
  BY DEF LInv, Lasting, Fits
<1>8. \E label \in Labels : Step(h, label)
  BY DEF HandlerStep, HandleNewStatus, InsertNewCreditCard, UpdateOrder, AppendStatus, Labels
<1>9. type \in Reports /\ Update(o, type, at) /\ status[o] # <<>> /\ Exists(o)
  <2>1. type \in Reports /\ Update(o, type, at)
    BY <1>4, <1>5, <1>8
  <2>2. ~Untouched(o)
    BY <1>4, <2>1 DEF Untouched
  <2> QED BY <1>7, <2>1, <2>2 DEF OrderFits
<1>10. CASE HandleNewStatus(h)
  <2>1. PICK label \in {"answered", "record", "append"} :
          /\ Step(h, label)
          /\ type \in {"card_error", "card_delivered"} => label # "record"
          /\ type = "card_created" => label = "record" \/ Has(o, "card_created")
          /\ type = "card_shipped" =>
               \/ label = "record" /\ (Has(o, "card_shipped") => recent[o] > 1)
               \/ label = "answered" /\ Has(o, "card_shipped")
    BY <1>1, <1>3, <1>7, <1>9, <1>10, Judged
  <2>2. /\ UNCHANGED <<status, recent, cards, shipping>> /\ at = "read" /\ label \in Labels
    BY <1>3, <1>10 DEF HandleNewStatus, tables, Labels
  <2>3. /\ \A y \in Reports, l \in Labels :
             IF CallerOf(y) = CallerOf(type)
               THEN /\ Update(o, y, l) <=> y = type /\ l = "read"
                    /\ Update(o, y, l)' <=> y = type /\ l = label
               ELSE Update(o, y, l)' <=> Update(o, y, l)
    BY <1>5, <2>1, <2>2
  <2>4. Newest(o)' = Newest(o) /\ \A y : Has(o, y)' <=> Has(o, y)
    BY <2>2 DEF Newest, Has, TypesOf
  <2>5. CardFits(o)'
    BY <1>6, <1>7, <1>9, <2>1, <2>2, <2>3, <2>4 DEF CardFits, Reports, Labels, CallerOf
  <2>6. ParcelFits(o)'
    BY <1>6, <1>7, <1>9, <2>1, <2>2, <2>3, <2>4 DEF ParcelFits, Reports, Labels, CallerOf
  <2> QED BY <1>2, <1>3, <1>4, <1>9, <2>1, <2>2, <2>4, <2>5, <2>6, UpdateFits
<1>11. CASE InsertNewCreditCard(h)
  <2>1. /\ UNCHANGED <<status, recent, shipping>> /\ at = "record" /\ type = "card_created"
        /\ cards' = [cards EXCEPT ![o] = cards[o] + 1] /\ Step(h, "append")
    BY <1>3, <1>9, <1>11 DEF InsertNewCreditCard, Reliable
  <2>2. /\ \A l \in Labels : /\ Update(o, "card_created", l) <=> l = "record"
                             /\ Update(o, "card_created", l)' <=> l = "append"
                             /\ ~Update(o, "card_error", l)'
                             /\ Update(o, "card_shipped", l)' <=> Update(o, "card_shipped", l)
                             /\ Update(o, "card_delivered", l)' <=> Update(o, "card_delivered", l)
        /\ "append" \in Labels
    BY <1>5, <2>1 DEF CallerOf, Reports, Labels
  <2>3. Newest(o)' = Newest(o) /\ \A y : Has(o, y)' <=> Has(o, y)
    BY <2>1 DEF Newest, Has, TypesOf
  <2>4. cards[o] = 0 /\ ~Has(o, "card_created")
    BY <1>7, <2>2 DEF CardFits, Labels
  <2>5. cards'[o] = 1 /\ \A p \in OrderIds : p # o => cards'[p] = cards[p]
    BY <1>1, <2>1, <2>4 DEF Typed
  <2>6. ~InMaking(o, "issuing") /\ ~InMaking(o, "error")
    BY <1>7, <2>2 DEF CardFits, Labels
  <2>7. CardFits(o)'
    BY <1>6, <2>2, <2>3, <2>4, <2>5, <2>6 DEF CardFits, Labels
  <2>8. ParcelFits(o)'
    BY <1>6, <1>7, <2>1, <2>2, <2>3 DEF ParcelFits, Labels
  <2> QED BY <1>2, <1>3, <1>4, <1>9, <2>1, <2>2, <2>3, <2>5, <2>7, <2>8, UpdateFits
<1>12. CASE UpdateOrder(h)
  <2>1. /\ UNCHANGED <<status, recent, cards>> /\ at = "record" /\ type = "card_shipped"
        /\ shipping' = [shipping EXCEPT ![o] = handler[h].ship] /\ Step(h, "append")
    BY <1>3, <1>9, <1>12 DEF UpdateOrder
  <2>2. /\ \A l \in Labels : /\ Update(o, "card_shipped", l) <=> l = "record"
                             /\ Update(o, "card_shipped", l)' <=> l = "append"
                             /\ ~Update(o, "card_delivered", l)'
                             /\ Update(o, "card_error", l)' <=> Update(o, "card_error", l)
                             /\ Update(o, "card_created", l)' <=> Update(o, "card_created", l)
        /\ "append" \in Labels
    BY <1>5, <2>1 DEF CallerOf, Reports, Labels
  <2>3. Newest(o)' = Newest(o) /\ \A y : Has(o, y)' <=> Has(o, y)
    BY <2>1 DEF Newest, Has, TypesOf
  <2>4. \A p \in OrderIds : p # o => shipping'[p] = shipping[p]
    BY <1>1, <2>1 DEF Typed
  <2>5. CardFits(o)'
    BY <1>6, <1>7, <2>1, <2>2, <2>3 DEF CardFits, Labels
  <2>6. ParcelFits(o)'
    BY <1>6, <1>7, <2>1, <2>2, <2>3 DEF ParcelFits, Labels
  <2> QED BY <1>2, <1>3, <1>4, <1>9, <2>1, <2>2, <2>3, <2>4, <2>5, <2>6, UpdateFits
<1>13. CASE AppendStatus(h)
  <2>1. /\ UNCHANGED <<cards, shipping>> /\ at = "append" /\ Step(h, "answered") /\ "answered" \in Labels
        /\ InsertNewStatus(o, type) /\ type \in StatusTypes
    BY <1>3, <1>9, <1>13, StatusTypesFact DEF AppendStatus, Labels, Reports
  <2>2. /\ \A y \in Reports, l \in Labels :
             IF CallerOf(y) = CallerOf(type)
               THEN /\ Update(o, y, l) <=> y = type /\ l = "append"
                    /\ Update(o, y, l)' <=> y = type /\ l = "answered"
               ELSE Update(o, y, l)' <=> Update(o, y, l)
    BY <1>5, <2>1
  <2>3. /\ \A p \in OrderIds : p # o => status'[p] = status[p] /\ recent'[p] = recent[p]
        /\ status'[o] # <<>> /\ Newest(o)' = type
        /\ \A y : Has(o, y)' <=> Has(o, y) \/ y = type
    BY <1>1, <2>1, RowAppended
  <2>4. CardFits(o)'
    BY <1>6, <1>7, <1>9, <2>1, <2>2, <2>3 DEF CardFits, Reports, Labels, CallerOf
  <2>5. ParcelFits(o)'
    BY <1>6, <1>7, <1>9, <2>1, <2>2, <2>3 DEF CardFits, ParcelFits, Reports, Labels, CallerOf
  <2> QED BY <1>2, <1>3, <1>4, <1>9, <2>1, <2>3, <2>4, <2>5, UpdateFits
<1> QED BY <1>10, <1>11, <1>12, <1>13 DEF HandlerStep

\* A caller goes on once it has been answered.
LEMMA AnswerFits ==
  ASSUME LInv, NEW h \in Handlers, Answer(h)
  PROVE  Lasting'
<1>1. FlowTyped /\ Called /\ Creators /\ OneProcess
  BY DEF LInv, Lasting
<1>2. /\ UNCHANGED <<order, shipping, status, recent, cards, client, work>>
      /\ handler[h].at = "answered" /\ handler' = [handler EXCEPT ![h] = NewHandler]
  BY DEF Answer, tables
<1>3. NewHandler.at = "idle"
  BY DEF NewHandler
<1>4. \A g \in Handlers : handler'[g] = IF g = h THEN NewHandler ELSE handler[g]
  BY <1>1, <1>2 DEF FlowTyped, Typed
<1>5. PICK t \in Threads : t = handler[h].caller
  BY <1>1, <1>2 DEF Called, CallerOf, Threads
<1>6. Answered(t)
  BY <1>5, CardFlowAssumption DEF Answer
<1>7. making' = making /\ sending' = sending /\ \A u \in Threads : u # t => thread'[u] = thread[u]
  BY <1>1, <1>6 DEF Answered, FlowTyped, ThirdTyped
<1>8. Called'
  <2>1. \A g \in Handlers : g # h /\ handler[g].at # "idle" => handler[g].caller # t
    BY <1>1, <1>2, <1>5 DEF Called
  <2>2. \A y : CallerOf(y) \in Threads
    BY DEF CallerOf, Threads
  <2> QED BY <1>1, <1>3, <1>4, <1>7, <2>1, <2>2 DEF Called
<1>9. Creators' /\ OneProcess'
  BY <1>1, <1>2, <1>7, CreatorsSame DEF OneProcess, Exists
<1>10. ASSUME NEW p \in OrderIds PROVE Fits(p)'
  <2>1. SameRows(p) /\ SameWork(p) /\ FewerProcesses(p)
    BY <1>2, <1>7 DEF SameRows, SameWork, Posted, Exists, FewerProcesses, InMaking, Parcel
  <2>2. SameUpdates(p)
    BY <1>2, <1>3, <1>4 DEF SameUpdates, Update, Labels
  <2> QED BY <2>1, <2>2, FitsSame DEF LInv, Lasting
<1> QED BY <1>2, <1>8, <1>9, <1>10 DEF LInv, Lasting

-----------------------------------------------------------------------------
LEMMA LastingInit == Init => Lasting
<1> SUFFICES ASSUME Init PROVE Lasting
  OBVIOUS
<1>1. /\ order = [o \in OrderIds |-> "unused"] /\ shipping = [o \in OrderIds |-> 0]
      /\ status = [o \in OrderIds |-> <<>>] /\ cards = [o \in OrderIds |-> 0]
      /\ client = [c \in Clients |-> NewClient] /\ handler = [h \in Handlers |-> NewHandler]
      /\ work = Resting /\ making = <<>> /\ sending = <<>>
  BY DEF Init, OrdersInit, ThirdInit
<1>2. OneProcess /\ Called /\ Creators /\ work.at # "posted" /\ work.todo = {}
  BY <1>1 DEF OneProcess, Called, Creators, NewClient, NewHandler, Resting
<1>3. \A o, type, l : l \in Labels => ~Update(o, type, l)
  BY <1>1 DEF Update, Labels, NewHandler
<1>4. \A o, s : ~InMaking(o, s) /\ ~Parcel(o, s)
  BY <1>1 DEF InMaking, Parcel
<1>5. ASSUME NEW o \in OrderIds PROVE Fits(o)
  <2>1. status[o] = <<>> /\ cards[o] = 0 /\ shipping[o] = 0 /\ \A type : ~Has(o, type)
    BY <1>1 DEF Has, TypesOf, Range
  <2>2. Untouched(o) /\ ~Posted(o)
    BY <1>2, <1>3, <1>4, <2>1 DEF Untouched, Posted
  <2>3. CardFits(o) /\ ParcelFits(o)
    BY <1>3, <1>4, <2>1 DEF CardFits, ParcelFits, Labels
  <2>4. OrderFits(o)
    BY <1>2, <2>1, <2>2 DEF OrderFits
  <2> QED BY <2>3, <2>4 DEF Fits
<1> QED BY <1>2, <1>5 DEF Lasting

LEMMA LastingNext ==
  ASSUME Reliable, LInv, [Next]_vars
  PROVE  Lasting'
<1>1. FlowTyped /\ BInv /\ Lasting
  BY DEF LInv
<1>2. CASE Requests
  <2>1. PICK c \in Clients :
          \/ \E a \in Accounts : OrderService(CountOrders(c, a))
          \/ OrderService(ClientStep(c))
    BY <1>2 DEF Requests, Reliable
  <2>2. ~DeleteCards(c) /\ ~DeleteOrders(c)
    BY <1>1 DEF BInv, NoDeletes, DeleteCards, DeleteOrders
  <2>3. (\E a \in Accounts : CountOrders(c, a)) \/ InsertNewOrder(c) \/ InsertFirstStatus(c)
    BY <2>1, <2>2 DEF OrderService, ClientStep
  <2> QED BY <2>1, <2>3, RequestFits DEF OrderService
<1>3. CASE Scheduled
  <2>1. CASE OrderService(WorkStep)
    BY <2>1, NoneGone, WorkListed, WorkRecorded DEF OrderService, WorkStep
  <2> QED BY <1>3, <2>1, ManufacturePosted DEF Scheduled
<1>4. CASE Manufacture
  <2>1. CASE Third(ManufactureStep)
    BY <2>1, ThirdAlone DEF Third
  <2> QED BY <1>4, <2>1, HandedOver, ManufacturerReported DEF Manufacture, Reliable
<1>5. CASE Courier
  <2>1. CASE Third(CourierStep)
    BY <2>1, ThirdAlone DEF Third
  <2>2. ASSUME NEW o \in OrderIds, CourierFindsNoAddress(o) PROVE Lasting'
    BY <2>2, ThirdAlone DEF CourierFindsNoAddress, Third
  <2> QED BY <1>5, <2>1, <2>2, CourierReported DEF Courier
<1>6. ASSUME NEW h \in Handlers, Serve(h) PROVE Lasting'
  BY <1>6, HandlerFits, AnswerFits DEF Serve, OrderService
<1>7. ASSUME NEW t \in Threads, GiveUp(t) PROVE Lasting'
  BY <1>7, GivenUp
<1>8. CASE Third(CrisisBegins) \/ Third(CrisisEnds)
  BY <1>8, ThirdAlone DEF Third
<1>9. CASE UNCHANGED vars
  <2>1. UNCHANGED <<handler, thirdVars>> /\ client' = client
    BY <1>9 DEF vars, orderVars
  <2>2. OneProcess' /\ Called' /\ \A p : SameUpdates(p) /\ FewerProcesses(p)
    BY <1>1, <2>1, ServiceStep
  <2>3. Creators' /\ (work.at = "posted" => work.current \in OrderIds)'
    BY <1>1, <1>9, CreatorsSame DEF vars, orderVars, tables, Exists, Lasting
  <2>4. \A p : SameRows(p) /\ SameWork(p)
    BY <1>9 DEF vars, orderVars, tables, SameRows, SameWork, Posted, Exists
  <2> QED BY <1>1, <2>2, <2>3, <2>4, FitsSame DEF Lasting
<1> QED BY <1>1, <1>2, <1>3, <1>4, <1>5, <1>6, <1>7, <1>8, <1>9, NoFault DEF Next

LEMMA LInvNext ==
  ASSUME Reliable, LInv, [Next]_vars
  PROVE  LInv'
BY LastingNext, FlowNext, BackedNext DEF LInv, Reliable

LEMMA LInvInit == Init => LInv
BY LastingInit, FlowInit, InitTyped, BackingInit DEF LInv, BInv

(* While nothing breaks and nothing is deleted, an order never has two     *)
(* credit cards, for any orders, requests and updates in progress, also    *)
(* when its card has failed before or is handed to the courier twice.      *)
THEOREM OneCardEach ==
  ASSUME Reliable
  PROVE  Spec => []OneCardPerOrder
<1>1. LInv => OneCardPerOrder
  <2> SUFFICES ASSUME LInv, NEW o \in OrderIds PROVE cards[o] <= 1
    BY DEF OneCardPerOrder
  <2>1. cards[o] = 0 \/ cards[o] = 1
    BY DEF LInv, Lasting, Fits, CardFits
  <2> QED BY <2>1
<1> QED BY <1>1, LInvInit, LInvNext, PTL DEF Spec

-----------------------------------------------------------------------------
(* The shipping id                                                         *)

\* Which update takes a step, and of which order.
LEMMA UpdateAt ==
  ASSUME LInv, NEW h \in Handlers, HandlerStep(h)
  PROVE  \E o \in OrderIds, type \in Reports, at \in {"read", "record", "append"} :
           /\ o = handler[h].id /\ type = handler[h].type /\ at = handler[h].at
           /\ Update(o, type, at) /\ \A l \in Labels : Update(o, type, l) => l = at
           /\ status[o] # <<>> /\ Exists(o)
<1>1. handler[h].at \in {"read", "record", "append"}
  BY DEF HandlerStep, HandleNewStatus, InsertNewCreditCard, UpdateOrder, AppendStatus
<1>2. PICK o \in OrderIds, type \in Reports, at \in {"read", "record", "append"} :
        o = handler[h].id /\ type = handler[h].type /\ at = handler[h].at
  BY <1>1 DEF LInv, FlowTyped, Sound, Lasting, Called
<1>3. Update(o, type, at) /\ at \in Labels
  BY <1>2 DEF Update, Labels
<1>4. \A l \in Labels : Update(o, type, l) => l = at
  BY <1>1, <1>2 DEF LInv, Lasting, Called, Update, Labels
<1>5. status[o] # <<>> /\ Exists(o)
  BY <1>3 DEF LInv, Lasting, Fits, OrderFits, Untouched
<1> QED BY <1>2, <1>3, <1>4, <1>5

LEMMA ShippingKept ==
  ASSUME Reliable, LInv, [Next]_vars, NEW o \in OrderIds, "card_shipped" \in TypesOf(o), recent[o] = 1
  PROVE  shipping'[o] = shipping[o]
<1>1. ASSUME NEW h \in Handlers, HandlerStep(h) PROVE shipping'[o] = shipping[o]
  <2>1. CASE UpdateOrder(h)
    <3>1. PICK p \in OrderIds, type \in Reports, at \in {"read", "record", "append"} :
            /\ p = handler[h].id /\ type = handler[h].type /\ at = handler[h].at
            /\ Update(p, type, at)
      BY <1>1, UpdateAt
    <3>2. Update(p, "card_shipped", "record")
      BY <2>1, <3>1 DEF UpdateOrder
    <3>3. p # o
      BY <3>2 DEF LInv, Lasting, Fits, ParcelFits, Has
    <3> QED BY <2>1, <3>1, <3>3 DEF UpdateOrder, LInv, FlowTyped, Typed
  <2> QED BY <1>1, <2>1 DEF HandlerStep, HandleNewStatus, InsertNewCreditCard, AppendStatus, tables
<1>2. ASSUME NEW c \in Clients, ClientStep(c) PROVE shipping' = shipping
  BY <1>2 DEF ClientStep, InsertNewOrder, InsertFirstStatus, DeleteCards, DeleteOrders
<1>3. ASSUME NEW c \in Clients, NEW a \in Accounts, CountOrders(c, a) \/ DeleteStatuses(c, a)
      PROVE  shipping' = shipping
  BY <1>3 DEF CountOrders, DeleteStatuses, tables
<1>4. ASSUME NEW h \in Handlers, Reported(h) PROVE shipping' = shipping
  BY <1>4 DEF Reported, BeginReport, tables
<1>5. WorkOrdered \/ ReleasedAll \/ OrdersCrash \/ UNCHANGED <<tables, client, handler>> => shipping' = shipping
  BY DEF WorkOrdered, ReleasedAll, OrdersCrash, tables
<1> QED BY <1>1, <1>2, <1>3, <1>4, <1>5, StepCases DEF LInv, FlowTyped

(* While nothing breaks, nothing is deleted, CARD_ORDERED is written in    *)
(* time and a credit card's row gets its key, the shipping id of an order  *)
(* that is said to be shipped stays as long as its newest row is alone in  *)
(* its second: a second parcel with the same card is then refused before   *)
(* its id is written.  Nothing is said of an order whose newest rows tie.  *)
THEOREM ShippingIdKept ==
  ASSUME Reliable
  PROVE  Spec => ShippingIdStable
<1>1. LInv /\ [Next]_vars =>
        [\A o \in OrderIds : "card_shipped" \in TypesOf(o) /\ recent[o] = 1
           => shipping'[o] = shipping[o]]_vars
  BY ShippingKept
<1> QED BY <1>1, LInvInit, LInvNext, PTL DEF Spec, ShippingIdStable

-----------------------------------------------------------------------------
(* The stages                                                              *)

StageNow == [o \in OrderIds |-> Max({0} \cup {StageOf(type) : type \in TypesOf(o)})]

Furthest(T) ==
  IF "card_delivered" \in T THEN 5
  ELSE IF "card_shipped" \in T THEN 4
  ELSE IF "card_created" \in T THEN 3
  ELSE IF "card_ordered" \in T \/ "card_error" \in T THEN 2
  ELSE IF "order_created" \in T THEN 1
  ELSE 0

\* The stage is that of the furthest status an order has reached.
LEMMA StageReached ==
  ASSUME NEW T \in SUBSET StatusTypes
  PROVE  Max({0} \cup {StageOf(type) : type \in T}) = Furthest(T)
<1> DEFINE S == {0} \cup {StageOf(type) : type \in T}
           m == Furthest(T)
<1>1. /\ StageOf("order_created") = 1 /\ StageOf("card_ordered") = 2 /\ StageOf("card_error") = 2
      /\ StageOf("card_created") = 3 /\ StageOf("card_shipped") = 4 /\ StageOf("card_delivered") = 5
  BY DEF StageOf
<1>2. \A type \in T : StageOf(type) \in 0..5 /\ StageOf(type) <= m
  BY <1>1, StatusTypesFact DEF Furthest
<1>3. m \in S
  BY <1>1 DEF Furthest
<1>4. m \in 0..5 /\ \A x \in S : x \in 0..5 /\ x <= m
  BY <1>2 DEF Furthest
<1> HIDE DEF S, m
<1>5. \A x \in S : (\A y \in S : x >= y) => x = m
  BY <1>3, <1>4
<1>6. \A y \in S : m >= y
  BY <1>4
<1>7. Max(S) = m
  BY <1>3, <1>5, <1>6 DEF Max
<1> QED BY <1>7 DEF S, m

\* The stages move with the statuses.
LEMMA Stages ==
  ASSUME Typed, Typed'
  PROVE  /\ \A o \in OrderIds : /\ StageNow[o] = Furthest(TypesOf(o))
                                /\ StageNow'[o] = Furthest(TypesOf(o)')
         /\ StageNow = [o \in OrderIds |-> StageNow[o]] /\ StageNow' = [o \in OrderIds |-> StageNow'[o]]
<1>1. ASSUME NEW o \in OrderIds
      PROVE  /\ StageNow[o] = Furthest(TypesOf(o)) /\ StageNow'[o] = Furthest(TypesOf(o)')
  <2>1. TypesOf(o) \subseteq StatusTypes /\ TypesOf(o)' \subseteq StatusTypes
    BY DEF Typed, TypesOf, Range
  <2>2. /\ Max({0} \cup {StageOf(type) : type \in TypesOf(o)}) = Furthest(TypesOf(o))
        /\ Max({0} \cup {StageOf(type) : type \in TypesOf(o)'}) = Furthest(TypesOf(o)')
    BY <2>1, StageReached
  <2> QED BY <2>2 DEF StageNow
<1> QED BY <1>1 DEF StageNow

\* The steps of the life of o, by what they change.
LEMMA LifeStep ==
  ASSUME NEW o \in OrderIds,
         \/ /\ UNCHANGED <<cards, shipping>>
            /\ \E n : StageNow' = [StageNow EXCEPT ![o] = n]
                      /\ \/ StageNow[o] = 0 /\ n = 1
                         \/ StageNow[o] = 1 /\ n = 2
                         \/ StageNow[o] \in {1, 2} /\ n = 3 /\ cards[o] = 1
                         \/ StageNow[o] = 3 /\ n = 4 /\ shipping[o] # 0
                         \/ StageNow[o] = 4 /\ n = 5
         \/ /\ UNCHANGED <<StageNow, shipping>> /\ StageNow[o] \in {1, 2} /\ cards[o] = 0
            /\ cards' = [cards EXCEPT ![o] = 1]
         \/ /\ UNCHANGED <<StageNow, cards>> /\ StageNow[o] \in {3, 4, 5} /\ shipping'[o] # 0
            /\ shipping' = [shipping EXCEPT ![o] = shipping'[o]]
  PROVE  Lifecycle!LifeNext
<1>1. StageNow[o] \in {3, 4, 5} => StageNow[o] >= 3
  OBVIOUS
<1> QED BY <1>1 DEF StageNow, Lifecycle!LifeNext, Lifecycle!Accept, Lifecycle!StartWork, Lifecycle!MakeOne,
                    Lifecycle!DeclareMade, Lifecycle!Label, Lifecycle!Ship, Lifecycle!Deliver, Lifecycle!Climb

\* A row moves the stage of its order only.
LEMMA RowStage ==
  ASSUME FlowTyped, Typed', NEW o \in OrderIds, NEW type \in StatusTypes, InsertNewStatus(o, type)
  PROVE  /\ StageNow[o] = Furthest(TypesOf(o))
         /\ StageNow' = [StageNow EXCEPT ![o] = Furthest(TypesOf(o) \cup {type})]
<1>1. /\ \A p \in OrderIds : p # o => TypesOf(p)' = TypesOf(p)
      /\ TypesOf(o)' = TypesOf(o) \cup {type}
  BY RowAppended DEF TypesOf
<1>2. /\ \A p \in OrderIds : StageNow[p] = Furthest(TypesOf(p)) /\ StageNow'[p] = Furthest(TypesOf(p)')
      /\ StageNow = [p \in OrderIds |-> StageNow[p]] /\ StageNow' = [p \in OrderIds |-> StageNow'[p]]
  BY Stages DEF FlowTyped
<1>3. StageNow'[o] = Furthest(TypesOf(o) \cup {type})
  BY <1>1, <1>2
<1>4. \A p \in OrderIds : p # o => StageNow'[p] = StageNow[p]
  BY <1>1, <1>2
<1> HIDE DEF StageNow
<1> QED BY <1>2, <1>3, <1>4

LEMMA LifeStutter ==
  ASSUME UNCHANGED <<status, cards, shipping>>
  PROVE  UNCHANGED Lifecycle!lifeVars
BY DEF Lifecycle!lifeVars, TypesOf

\* A status row climbs one stage, or none.
LEMMA RowClimbs ==
  ASSUME FlowTyped, Typed', NEW o \in OrderIds, NEW type \in StatusTypes, InsertNewStatus(o, type),
         UNCHANGED <<cards, shipping>>,
         \/ type = "order_created" /\ TypesOf(o) = {}
         \/ type \in {"card_ordered", "card_error"} /\ TypesOf(o) # {}
         \/ /\ type = "card_created" /\ TypesOf(o) # {} /\ cards[o] = 1
            /\ \A y \in {"card_created", "card_shipped", "card_delivered"} : y \notin TypesOf(o)
         \/ /\ type = "card_shipped" /\ "card_created" \in TypesOf(o) /\ shipping[o] # 0
         \/ type = "card_delivered" /\ "card_shipped" \in TypesOf(o)
  PROVE  [Lifecycle!LifeNext]_Lifecycle!lifeVars
<1>1. /\ StageNow[o] = Furthest(TypesOf(o))
      /\ StageNow' = [StageNow EXCEPT ![o] = Furthest(TypesOf(o) \cup {type})]
  BY RowStage
<1>2. TypesOf(o) \subseteq StatusTypes /\ StageNow = [p \in OrderIds |-> StageNow[p]]
  BY DEF FlowTyped, Typed, TypesOf, Range, StageNow
<1> DEFINE n == Furthest(TypesOf(o) \cup {type})
<1>3. CASE n = StageNow[o]
  <2>1. StageNow' = StageNow
    BY <1>1, <1>2, <1>3
  <2> QED BY <2>1 DEF StageNow, Lifecycle!lifeVars
<1>4. CASE n # StageNow[o]
  <2>1. \/ StageNow[o] = 0 /\ n = 1
        \/ StageNow[o] = 1 /\ n = 2
        \/ StageNow[o] \in {1, 2} /\ n = 3 /\ cards[o] = 1
        \/ StageNow[o] = 3 /\ n = 4 /\ shipping[o] # 0
        \/ StageNow[o] = 4 /\ n = 5
    BY <1>1, <1>2, <1>4, StatusTypesFact DEF Furthest
  <2> QED BY <1>1, <2>1, LifeStep
<1> QED BY <1>3, <1>4

LEMMA LifeNextStep ==
  ASSUME Reliable, LInv, LInv', [Next]_vars
  PROVE  [Lifecycle!LifeNext]_Lifecycle!lifeVars
<1>1. FlowTyped /\ Typed /\ Typed' /\ BInv /\ Lasting
  BY DEF LInv, FlowTyped
<1>2. \A o \in OrderIds : (TypesOf(o) # {} <=> status[o] # <<>>) /\ TypesOf(o) \subseteq StatusTypes
  <2>1. ASSUME NEW s \in Seq(StatusTypes)
        PROVE  (Range(s) # {} <=> s # <<>>) /\ Range(s) \subseteq StatusTypes
    <3>1. DOMAIN s = 1..Len(s) /\ Len(s) \in Nat /\ \A n \in DOMAIN s : s[n] \in StatusTypes
      OBVIOUS
    <3>2. s # <<>> => 1 \in DOMAIN s
      BY <3>1
    <3> QED BY <3>1, <3>2 DEF Range
  <2>2. \A o \in OrderIds : status[o] \in Seq(StatusTypes)
    BY <1>1 DEF Typed
  <2> QED BY <2>1, <2>2 DEF TypesOf
<1>3. ASSUME NEW c \in Clients, ClientStep(c) PROVE [Lifecycle!LifeNext]_Lifecycle!lifeVars
  <2>1. CASE InsertFirstStatus(c)
    <3>1. PICK o \in OrderIds : o = client[c].id /\ Exists(o) /\ status[o] = <<>>
      BY <1>1, <2>1 DEF InsertFirstStatus, Lasting, Creators
    <3>2. InsertNewStatus(o, "order_created") /\ UNCHANGED <<cards, shipping>> /\ TypesOf(o) = {}
      BY <1>2, <2>1, <3>1 DEF InsertFirstStatus
    <3> QED BY <1>1, <3>2, RowClimbs, StatusTypesFact
  <2>2. ~DeleteCards(c) /\ ~DeleteOrders(c)
    BY <1>1 DEF BInv, NoDeletes, DeleteCards, DeleteOrders
  <2> QED BY <1>3, <2>1, <2>2, LifeStutter DEF ClientStep, InsertNewOrder
<1>4. CASE WorkOrdered
  <2>1. PICK o \in OrderIds : o = work.current /\ Exists(o) /\ status[o] # <<>>
    BY <1>1, <1>4 DEF WorkOrdered, Lasting, Fits, OrderFits, Posted
  <2>2. InsertNewStatus(o, "card_ordered") /\ UNCHANGED <<cards, shipping>> /\ TypesOf(o) # {}
    BY <1>2, <1>4, <2>1 DEF WorkOrdered
  <2> QED BY <1>1, <2>2, RowClimbs, StatusTypesFact
<1>5. ASSUME NEW h \in Handlers, HandlerStep(h) PROVE [Lifecycle!LifeNext]_Lifecycle!lifeVars
  <2>1. PICK o \in OrderIds, type \in Reports, at \in {"read", "record", "append"} :
          /\ o = handler[h].id /\ type = handler[h].type /\ at = handler[h].at
          /\ Update(o, type, at) /\ \A l \in Labels : Update(o, type, l) => l = at
          /\ status[o] # <<>> /\ Exists(o)
    BY <1>5, UpdateAt
  <2>2. CardFits(o) /\ ParcelFits(o)
    BY <1>1 DEF Lasting, Fits
  <2>3. TypesOf(o) # {} /\ TypesOf(o) \subseteq StatusTypes
    BY <1>2, <2>1
  <2>4. StageNow[o] = Furthest(TypesOf(o))
    BY <1>1, Stages
  <2>5. CASE InsertNewCreditCard(h)
    <3>1. /\ UNCHANGED <<status, shipping>> /\ at = "record" /\ type = "card_created"
          /\ cards' = [cards EXCEPT ![o] = cards[o] + 1]
      BY <2>1, <2>5 DEF InsertNewCreditCard, Reliable
    <3>2. cards[o] = 0 /\ \A y \in {"card_created", "card_shipped", "card_delivered"} : y \notin TypesOf(o)
      BY <2>1, <2>2, <3>1 DEF CardFits, ParcelFits, Has
    <3>3. StageNow[o] \in {1, 2}
      BY <2>3, <2>4, <3>2, StatusTypesFact DEF Furthest
    <3>4. UNCHANGED StageNow /\ cards' = [cards EXCEPT ![o] = 1]
      BY <3>1, <3>2 DEF StageNow, TypesOf
    <3> QED BY <3>1, <3>2, <3>3, <3>4, LifeStep
  <2>6. CASE UpdateOrder(h)
    <3>1. /\ UNCHANGED <<status, cards>> /\ at = "record" /\ type = "card_shipped"
          /\ shipping' = [shipping EXCEPT ![o] = handler[h].ship]
      BY <2>1, <2>6 DEF UpdateOrder
    <3>2. "card_created" \in TypesOf(o)
      BY <2>1, <2>2, <3>1 DEF ParcelFits, Has, Labels
    <3>3. handler[h].ship # 0 /\ shipping'[o] = handler[h].ship
      BY <1>1, <2>1, <3>1 DEF BInv, Backing, Typed
    <3>4. StageNow[o] \in {3, 4, 5}
      BY <2>4, <3>2 DEF Furthest
    <3>5. UNCHANGED StageNow
      BY <3>1 DEF StageNow, TypesOf
    <3> QED BY <3>1, <3>3, <3>4, <3>5, LifeStep
  <2>7. CASE AppendStatus(h)
    <3>1. /\ UNCHANGED <<cards, shipping>> /\ at = "append" /\ InsertNewStatus(o, type)
          /\ type \in StatusTypes
      BY <2>1, <2>7, StatusTypesFact DEF AppendStatus, Reports
    <3>2. /\ type = "card_created" =>
               /\ cards[o] = 1
               /\ \A y \in {"card_created", "card_shipped", "card_delivered"} : y \notin TypesOf(o)
          /\ type = "card_shipped" => "card_created" \in TypesOf(o)
          /\ type = "card_delivered" => "card_shipped" \in TypesOf(o)
      BY <2>1, <2>2, <3>1 DEF CardFits, ParcelFits, Has, Labels
    <3>3. type = "card_shipped" => shipping[o] # 0
      BY <1>1, <2>1, <3>1 DEF BInv, Backing, BackedBy
    <3> QED BY <1>1, <2>1, <2>3, <3>1, <3>2, <3>3, RowClimbs DEF Reports
  <2>8. CASE HandleNewStatus(h)
    BY <2>8, LifeStutter DEF HandleNewStatus, tables
  <2> QED BY <1>5, <2>5, <2>6, <2>7, <2>8 DEF HandlerStep
<1>6. ASSUME NEW c \in Clients, NEW a \in Accounts, CountOrders(c, a)
      PROVE  [Lifecycle!LifeNext]_Lifecycle!lifeVars
  BY <1>6, LifeStutter DEF CountOrders, tables
<1>7. ASSUME NEW h \in Handlers, Reported(h) PROVE [Lifecycle!LifeNext]_Lifecycle!lifeVars
  BY <1>7, LifeStutter DEF Reported, BeginReport, tables
<1>8. CASE ReleasedAll \/ OrdersCrash \/ UNCHANGED <<tables, client, handler>>
  BY <1>8, LifeStutter DEF ReleasedAll, OrdersCrash, tables
<1> QED BY <1>1, <1>3, <1>4, <1>5, <1>6, <1>7, <1>8, StepCases DEF Reliable

LEMMA LifeStarts == Init => Lifecycle!LifeInit
<1> SUFFICES ASSUME Init PROVE Lifecycle!LifeInit
  OBVIOUS
<1>1. \A o \in OrderIds : TypesOf(o) = {}
  BY DEF Init, OrdersInit, TypesOf, Range
<1>2. Max({0}) = 0
  BY DEF Max
<1>3. \A o \in OrderIds : Max({0} \cup {StageOf(type) : type \in TypesOf(o)}) = 0
  BY <1>1, <1>2
<1> QED BY <1>3 DEF Lifecycle!LifeInit, Init, OrdersInit

(* While nothing breaks, nothing is deleted, CARD_ORDERED is written in    *)
(* time and a credit card's row gets its key, the order service and the    *)
(* third party implement CardLifecycle: every order climbs stage after     *)
(* stage, its card is made once before it is said to be made, and it has a *)
(* shipping id before it is said to be shipped, whatever rows share one    *)
(* second.                                                                 *)
THEOREM LifecycleImplemented ==
  ASSUME Reliable
  PROVE  Spec => ImplementsLifecycle
<1>1. LInv /\ LInv' /\ [Next]_vars => [Lifecycle!LifeNext]_Lifecycle!lifeVars
  BY LifeNextStep
<1> QED BY <1>1, LifeStarts, LInvInit, LInvNext, PTL DEF Spec, ImplementsLifecycle, Lifecycle!LifeSpec

===============================================================================
