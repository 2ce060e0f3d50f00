------------------------ MODULE ProblemOperator_proofs ------------------------
(***************************************************************************)
(* Theorems about FeatureFlags and ProblemOperator, for any number of      *)
(* changes, faults and releases: what the page announces it shows, and     *)
(* what the operator rolls back is what was deployed.                      *)
(***************************************************************************)
EXTENDS ProblemOperator, FiniteSetTheorems, TLAPS

-----------------------------------------------------------------------------
(* The flag and its page                                                   *)

Lists ==
  [data  : SUBSET [owner : {"page"}, ver : 0..MaxChanges + 1],
   fresh : BOOLEAN,
   fetch : SUBSET [for : {"page"}, got : SUBSET (0..MaxChanges + 1)]]

Toggles == [at : {"idle", "sent", "done", "refreshing"}, want : BOOLEAN, done : 0..MaxChanges]

\* No answer on its way is older than version n.
NoneBefore(l, n) == \A f \in l.fetch : \A v \in f.got : v = Blank \/ n <= v

PageShape ==
  /\ flag \in 0..MaxChanges
  /\ list \in Lists
  /\ toggle \in Toggles
  /\ announced \in 0..MaxChanges

\* A toggle knows no later version than there is, and the read that it waits
\* for was answered after it.
PageInv ==
  /\ PageShape
  /\ announced <= flag /\ toggle.done <= flag
  /\ toggle.at \in {"done", "refreshing"} => announced <= toggle.done
  /\ toggle.at # "idle" => QC!HasData(list)
  /\ toggle.at = "refreshing" => QC!Fetching(list) /\ NoneBefore(list, toggle.done)
  /\ \A d \in list.data : d.ver = Blank \/ announced <= d.ver \/ QC!Fetching(list)
  /\ NoneBefore(list, announced)

\* What the operators on entries do to the list.
LEMMA ListOperators ==
  ASSUME NEW l \in Lists
  PROVE  /\ QC!Request(l, "page") \in Lists
         /\ QC!Request(l, "page").data = l.data
         /\ QC!Fetching(QC!Request(l, "page"))
         /\ \A n : NoneBefore(QC!Request(l, "page"), n)
         /\ QC!Aged(l) \in Lists
         /\ QC!Aged(l).data = l.data /\ QC!Aged(l).fetch = l.fetch
<1>1. /\ QC!Request(l, "page") \in Lists
      /\ QC!Request(l, "page").data = l.data
      /\ QC!Request(l, "page").fetch = {[for |-> "page", got |-> {}]}
  BY DEF Lists, QC!Request
<1>2. /\ QC!Aged(l) \in Lists
      /\ QC!Aged(l).data = l.data /\ QC!Aged(l).fetch = l.fetch
  BY DEF Lists, QC!Aged
<1>3. QC!Fetching(QC!Request(l, "page")) /\ \A n : NoneBefore(QC!Request(l, "page"), n)
  <2>1. [for |-> "page", got |-> {}].got = {}
    OBVIOUS
  <2> QED BY <1>1, <2>1 DEF QC!Fetching, NoneBefore
<1> QED BY <1>1, <1>2, <1>3

LEMMA ServedList ==
  ASSUME NEW l \in Lists, NEW v \in 0..MaxChanges + 1
  PROVE  /\ QC!Served(l, v) \in Lists
         /\ QC!Served(l, v).data = l.data
         /\ QC!Fetching(l) => QC!Fetching(QC!Served(l, v))
         /\ \A f \in QC!Served(l, v).fetch : f.got = {v}
<1> DEFINE answers == {[for |-> f.for, got |-> {v}] : f \in l.fetch}
<1>1. /\ QC!Served(l, v) \in Lists
      /\ QC!Served(l, v).data = l.data
      /\ QC!Served(l, v).fetch = answers
  BY DEF Lists, QC!Served
<1>2. l.fetch # {} => answers # {}
  OBVIOUS
<1>3. \A f \in answers : f.got = {v}
  OBVIOUS
<1> HIDE DEF answers
<1> QED BY <1>1, <1>2, <1>3 DEF QC!Fetching

LEMMA LandedList ==
  ASSUME NEW l \in Lists, NEW f \in l.fetch
  PROVE  /\ QC!Landed(f) \in Lists
         /\ f.got # {} => QC!Landed(f).data # {}
         /\ \A d \in QC!Landed(f).data : d.ver \in f.got
         /\ QC!Landed(f).fetch = {}
<1> DEFINE values == {QC!Value(f.for, w) : w \in f.got}
<1>1. QC!Landed(f).data = values /\ QC!Landed(f).fetch = {}
  BY DEF QC!Landed
<1>2. f.for = "page" /\ f.got \subseteq 0..MaxChanges + 1
  BY DEF Lists
<1>3. \A w \in f.got : QC!Value(f.for, w) = [owner |-> "page", ver |-> w]
  BY <1>2 DEF QC!Value
<1>4. values \subseteq [owner : {"page"}, ver : 0..MaxChanges + 1]
  BY <1>2, <1>3
<1>5. QC!Landed(f) \in Lists
  BY <1>4 DEF QC!Landed, Lists
<1>6. ASSUME NEW d \in values PROVE d.ver \in f.got
  <2>1. PICK w \in f.got : d = QC!Value(f.for, w)
    OBVIOUS
  <2>2. d.ver = w
    BY <2>1 DEF QC!Value
  <2> QED BY <2>2
<1>7. f.got # {} => values # {}
  OBVIOUS
<1> HIDE DEF values
<1> QED BY <1>1, <1>5, <1>6, <1>7

LEMMA PageInit == FlagInit => PageInv
<1> SUFFICES ASSUME FlagInit PROVE PageInv
  OBVIOUS
<1>1. list \in Lists /\ list.fetch = {} /\ list.data = {}
  BY DEF FlagInit, QC!Absent, Lists
<1>2. toggle \in Toggles /\ toggle.at = "idle" /\ toggle.done = 0
  BY FlagAssumption DEF FlagInit, Idle, Toggles
<1>3. flag = 0 /\ announced = 0 /\ 0 \in 0..MaxChanges
  BY FlagAssumption DEF FlagInit
<1> QED BY <1>1, <1>2, <1>3 DEF PageInv, PageShape, NoneBefore, QC!HasData, QC!Fetching

\* The flag only moves on.
LEMMA SetMovesOn ==
  ASSUME flag \in 0..MaxChanges, NEW want, Set(want)
  PROVE  flag' \in 0..MaxChanges /\ flag <= flag'
BY FlagAssumption DEF Set

\* Steps that leave the list and the button alone.
LEMMA FlagSteps ==
  ASSUME PageInv, OthersSet \/ ServiceRestarts \/ ReadConfig
  PROVE  PageInv'
<1>1. UNCHANGED <<list, toggle, announced>>
  BY DEF OthersSet, ServiceRestarts, ReadConfig
<1>2. flag' \in 0..MaxChanges /\ flag <= flag'
  <2>1. flag \in 0..MaxChanges
    BY DEF PageInv, PageShape
  <2>2. flag' = flag \/ \E want : Set(want)
    BY DEF OthersSet, ServiceRestarts, ReadConfig
  <2> QED BY <2>1, <2>2, SetMovesOn
<1> QED BY <1>1, <1>2 DEF PageInv, PageShape, Toggles, NoneBefore

LEMMA Announced ==
  ASSUME PageInv, Announce
  PROVE  /\ toggle' \in Toggles /\ toggle'.done <= flag
         /\ announced' \in 0..MaxChanges /\ announced' <= flag
         /\ toggle'.at \in {"idle", toggle.at} /\ toggle'.at # "refreshing"
         /\ toggle'.at = "done" => announced' <= toggle'.done
         /\ announced' = IF toggle.at = "refreshing" THEN toggle.done ELSE announced
<1>1. toggle \in Toggles /\ toggle.done \in 0..MaxChanges /\ flag \in 0..MaxChanges /\ announced \in 0..MaxChanges
  BY DEF PageInv, PageShape, Toggles
<1>2. Idle \in Toggles /\ Idle.at = "idle" /\ Idle.done = 0
  BY FlagAssumption DEF Idle, Toggles
<1>3. CASE toggle.at = "refreshing"
  <2>1. toggle' = Idle /\ announced' = toggle.done
    BY <1>3 DEF Announce
  <2> QED BY <1>1, <1>2, <1>3, <2>1 DEF PageInv
<1>4. CASE toggle.at # "refreshing"
  BY <1>1, <1>4 DEF Announce, PageInv
<1> QED BY <1>3, <1>4

LEMMA ListSteps ==
  ASSUME PageInv, ReadList \/ ReloadList \/ ServeList \/ LandList
  PROVE  PageInv'
<1>1. list \in Lists /\ flag \in 0..MaxChanges + 1 /\ Blank \in 0..MaxChanges + 1 /\ announced \in Nat
      /\ toggle.done \in Nat
  BY FlagAssumption DEF PageInv, PageShape, Blank, Toggles
<1>2. CASE ReadList
  <2>1. list' = QC!Request(list, "page") /\ UNCHANGED <<flag, toggle, announced>> /\ ~QC!Fetching(list)
    BY <1>2 DEF ReadList, QC!Join
  <2> QED BY <1>1, <2>1, ListOperators DEF PageInv, PageShape, QC!HasData
<1>3. CASE ReloadList
  <2>1. list' = QC!Request(list, "page") /\ flag' = flag
    BY <1>3 DEF ReloadList
  <2>2. CASE Announce
    BY <1>1, <2>1, <2>2, ListOperators, Announced DEF PageInv, PageShape, QC!HasData
  <2>3. CASE UNCHANGED <<toggle, announced>>
    BY <1>1, <2>1, <2>3, ListOperators DEF PageInv, PageShape, QC!HasData
  <2> QED BY <1>3, <2>2, <2>3 DEF ReloadList
<1>4. CASE ServeList
  <2>1. PICK v \in {flag, Blank} : list' = QC!Served(list, v)
    BY <1>4 DEF ServeList
  <2>2. UNCHANGED <<flag, toggle, announced>>
    BY <1>4 DEF ServeList
  <2>3. /\ list' \in Lists /\ list'.data = list.data
        /\ QC!Fetching(list) => QC!Fetching(list')
        /\ \A f \in list'.fetch : f.got = {v}
    BY <1>1, <2>1, ServedList
  <2>4. \A n \in Nat : n <= flag => NoneBefore(list', n)
    BY <1>1, <2>1, <2>3 DEF NoneBefore
  <2> QED BY <1>1, <2>2, <2>3, <2>4 DEF PageInv, PageShape, QC!HasData
<1>5. CASE LandList
  <2>1. PICK f \in list.fetch : f.got # {} /\ list' = QC!Landed(f)
    BY <1>5 DEF LandList
  <2>2. Announce /\ flag' = flag
    BY <1>5 DEF LandList
  <2>3. /\ list' \in Lists /\ list'.data # {} /\ list'.fetch = {}
        /\ \A d \in list'.data : d.ver \in f.got
    BY <1>1, <2>1, LandedList
  <2>4. \A d \in list'.data : d.ver = Blank \/ announced' <= d.ver
    BY <2>1, <2>2, <2>3, Announced DEF PageInv, NoneBefore
  <2>5. \A n : NoneBefore(list', n)
    BY <2>3 DEF NoneBefore
  <2> QED BY <2>2, <2>3, <2>4, <2>5, Announced DEF PageInv, PageShape, QC!HasData
<1> QED BY <1>2, <1>3, <1>4, <1>5

LEMMA ToggleSteps ==
  ASSUME PageInv, ClickToggle \/ CarryOutToggle \/ ToggleFails \/ ToggleAnswered
  PROVE  PageInv'
<1>1. list \in Lists /\ toggle \in Toggles /\ flag \in 0..MaxChanges /\ announced \in 0..MaxChanges
  BY DEF PageInv, PageShape
<1>2. Idle \in Toggles /\ Idle.at = "idle" /\ Idle.done = 0
  BY FlagAssumption DEF Idle, Toggles
<1>3. CASE ClickToggle
  <2>1. UNCHANGED <<flag, list, announced>> /\ QC!HasData(list)
    BY <1>3 DEF ClickToggle, QC!HasData
  <2>2. toggle' \in Toggles /\ toggle'.at = "sent" /\ toggle'.done = 0
    <3>1. PICK b \in BOOLEAN : toggle' = [Idle EXCEPT !.at = "sent", !.want = b]
      BY <1>3 DEF ClickToggle, Enabled
    <3>2. ASSUME NEW x \in Toggles PROVE [x EXCEPT !.at = "sent", !.want = b] \in Toggles
      BY DEF Toggles
    <3>3. toggle'.at = "sent" /\ toggle'.done = 0
      BY <3>1 DEF Idle
    <3> QED BY <1>2, <3>1, <3>2, <3>3
  <2> QED BY <1>1, <2>1, <2>2 DEF PageInv, PageShape
<1>4. CASE CarryOutToggle
  <2>1. UNCHANGED <<list, announced>> /\ toggle.at = "sent"
    BY <1>4 DEF CarryOutToggle
  <2>2. flag' \in 0..MaxChanges /\ flag <= flag'
    BY <1>1, <1>4, SetMovesOn DEF CarryOutToggle
  <2>3. toggle' \in Toggles /\ toggle'.at = "done" /\ toggle'.done = flag'
    BY <1>1, <1>4, <2>2 DEF CarryOutToggle, Toggles
  <2> QED BY <1>1, <2>1, <2>2, <2>3 DEF PageInv, PageShape
<1>5. CASE ToggleFails
  BY <1>1, <1>2, <1>5 DEF ToggleFails, PageInv, PageShape
<1>6. CASE ToggleAnswered
  <2>1. UNCHANGED <<flag, announced>> /\ toggle.at = "done" /\ QC!HasData(list)
    BY <1>6 DEF ToggleAnswered, PageInv
  <2>2. QC!Aged(list) \in Lists /\ QC!Aged(list).data = list.data
    BY <1>1, ListOperators
  <2>3. list' = QC!Request(QC!Aged(list), "page")
    BY <1>6, <2>1 DEF ToggleAnswered, QC!Invalidate, QC!HasData
  <2>4. /\ list' \in Lists /\ list'.data = list.data
        /\ QC!Fetching(list') /\ \A n : NoneBefore(list', n)
    BY <2>2, <2>3, ListOperators
  <2>5. toggle' \in Toggles /\ toggle'.at = "refreshing" /\ toggle'.done = toggle.done
    BY <1>1, <1>6 DEF ToggleAnswered, Toggles
  <2> QED BY <1>1, <2>1, <2>4, <2>5 DEF PageInv, PageShape, QC!HasData
<1> QED BY <1>3, <1>4, <1>5, <1>6

LEMMA PageNext ==
  ASSUME PageInv, [Next]_vars
  PROVE  PageInv'
<1>1. ASSUME UNCHANGED <<flag, list, toggle, announced>> PROVE PageInv'
  BY <1>1 DEF PageInv, PageShape, Toggles, NoneBefore
<1>2. ASSUME UNCHANGED flagVars \/ GiveUp PROVE PageInv'
  BY <1>1, <1>2 DEF flagVars, GiveUp
<1>3. ASSUME FlagNext PROVE PageInv'
  BY <1>3, FlagSteps, ListSteps, ToggleSteps DEF FlagNext, PageSteps
<1> QED BY <1>2, <1>3 DEF Next, Cluster, Operator, CatchUp, Deploy, Tick, Get, Prepare, Update, vars

(* What the page has announced it shows, or it is about to.                *)
THEOREM ToggleIsShown == Spec => []AnnouncedIsShown
<1>1. Init => PageInv
  BY PageInit DEF Init
<1>2. PageInv /\ [Next]_vars => PageInv'
  BY PageNext
<1>3. PageInv => AnnouncedIsShown
  <2> SUFFICES ASSUME PageInv PROVE AnnouncedIsShown
    OBVIOUS
  <2>1. announced \in Nat /\ list \in Lists
    BY DEF PageInv, PageShape
  <2>2. \A d \in list.data : d.ver \in Nat
    BY <2>1 DEF Lists
  <2>3. \A f \in list.fetch : \A v \in f.got : v \in Nat
    BY <2>1 DEF Lists
  <2> QED BY <2>1, <2>2, <2>3 DEF PageInv, AnnouncedIsShown, NoneBefore
<1> QED BY <1>1, <1>2, <1>3, PTL DEF Spec

-----------------------------------------------------------------------------
(* The operator and the cluster                                            *)

Deployments == [release : 1..MaxReleases, limit : BOOLEAN, on : BOOLEAN, rev : Nat]

ReplicaSets == [release : 1..MaxReleases, limit : BOOLEAN, rev : Nat]

Phases == {"idle", "read", "got", "ready"}

ClusterShape ==
  /\ deployment \in Deployments
  /\ sets \in SUBSET ReplicaSets
  /\ op \in [at : Phases, seen : BOOLEAN, copy : SUBSET Deployments, stale : BOOLEAN]
  /\ intended \in 1..MaxReleases
  /\ op.at \in {"idle", "read"} => op.copy = {}
  /\ op.at \in {"got", "ready"} => \E c \in Deployments : op.copy = {c}

\* A template has one replica set and a revision one template; one is the newest.
SetsInv ==
  /\ \A r, s \in sets : Template(r) = Template(s) \/ r.rev = s.rev => r = s
  /\ \E top \in sets : \A r \in sets : r.rev <= top.rev

\* The template that was deployed, without the problem.
Plain(r) == r.release = intended /\ r.limit = FALSE

Matches(d) == d.limit = d.on /\ d.release = intended

\* While the problem is applied, the plain template has the revision before.
Restorable ==
  deployment.on =>
    \E r \in Others : /\ Plain(r)
                      /\ \A o \in Others : o.rev <= r.rev
                      /\ \A o \in Own : o.rev <= r.rev \/ o.rev = r.rev + 1

\* What the operator has in hand is the deployment, or may replace it.
OpInv ==
  op.copy # {} /\ ~op.stale =>
    /\ Settled
    /\ \A c \in op.copy : /\ Matches(c)
                          /\ c = deployment \/ (op.at = "ready" /\ c.on # deployment.on)

ClusterInv ==
  /\ ClusterShape
  /\ SetsInv
  /\ ~blurred => Matches(deployment) /\ Restorable /\ OpInv

LEMMA ClusterInit == Init => ClusterInv
<1> SUFFICES ASSUME Init PROVE ClusterInv
  OBVIOUS
<1>1. /\ deployment.release = 1 /\ deployment.limit = FALSE /\ deployment.on = FALSE /\ deployment.rev = 1
      /\ deployment \in Deployments
  BY ReleaseAssumption DEF Init, Deployments
<1>2. sets = {[release |-> 1, limit |-> FALSE, rev |-> 1]}
  BY DEF Init, ReplicaSet
<1>3. sets \in SUBSET ReplicaSets
  BY <1>2, ReleaseAssumption DEF ReplicaSets
<1>4. SetsInv
  BY <1>2 DEF SetsInv
<1>5. op.copy = {} /\ op.at = "idle" /\ op \in [at : Phases, seen : BOOLEAN, copy : SUBSET Deployments, stale : BOOLEAN]
  BY DEF Init, Resting, Phases
<1>6. Restorable /\ OpInv
  BY <1>1, <1>5 DEF Restorable, OpInv
<1>7. intended = 1 /\ Matches(deployment)
  BY <1>1 DEF Init, Matches
<1> QED BY <1>1, <1>3, <1>4, <1>5, <1>6, <1>7, ReleaseAssumption DEF ClusterInv, ClusterShape

-----------------------------------------------------------------------------
(* Revisions                                                               *)

\* The next revision after a set whose newest replica set is known.
LEMMA AboveNewest ==
  ASSUME NEW S \in SUBSET ReplicaSets, NEW top \in S, \A r \in S : r.rev <= top.rev
  PROVE  Above(S) = 1 + top.rev
<1> DEFINE revisions == {r.rev : r \in S} \cup {0}
<1>1. \A r \in S : r.rev \in Nat
  BY DEF ReplicaSets
<1>2. top.rev \in revisions /\ \A m \in revisions : m <= top.rev
  BY <1>1
<1>3. revisions \subseteq Nat
  BY <1>1
<1> HIDE DEF revisions
<1> DEFINE newest == CHOOSE n \in revisions : \A m \in revisions : m <= n
<1>4. newest \in revisions /\ \A m \in revisions : m <= newest
  BY <1>2
<1> HIDE DEF newest
<1>5. newest = top.rev
  <2>1. newest <= top.rev /\ top.rev <= newest
    BY <1>2, <1>4
  <2>2. newest \in Nat /\ top.rev \in Nat
    BY <1>2, <1>3, <1>4
  <2> QED BY <2>1, <2>2
<1> QED BY <1>5 DEF Above, newest, revisions

\* The goal is the revision of the replica set that is newest and has the
\* template of the deployment, or the next one.
LEMMA GoalCases ==
  ASSUME ClusterShape, SetsInv
  PROVE  \/ \E r \in Own : Goal = r.rev /\ Own = {r} /\ \A o \in Others : o.rev < r.rev
         \/ \E top \in Others : Goal = 1 + top.rev /\ \A o \in Others : o.rev <= top.rev
<1>1. PICK top \in sets : \A r \in sets : r.rev <= top.rev
  BY DEF SetsInv
<1>2. \A r \in sets : r.rev \in Nat
  BY DEF ClusterShape, ReplicaSets
<1>3. CASE \E r \in Own : \A o \in Others : o.rev < r.rev
  <2>1. PICK r \in Own : \A o \in Others : o.rev < r.rev
    BY <1>3
  <2>2. Own = {r}
    BY DEF Own, SetsInv
  <2>3. Goal = r.rev
    BY <1>3, <2>2 DEF Goal
  <2> QED BY <2>1, <2>2, <2>3
<1>4. CASE ~ \E r \in Own : \A o \in Others : o.rev < r.rev
  <2>1. top \in Others
    <3>1. ASSUME top \in Own PROVE \A o \in Others : o.rev < top.rev
      <4>1. ASSUME NEW o \in Others PROVE o.rev < top.rev
        <5>1. o \in sets /\ o # top
          BY <3>1 DEF Others
        <5>2. o.rev # top.rev
          BY <5>1 DEF SetsInv
        <5> QED BY <1>1, <1>2, <5>1, <5>2
      <4> QED BY <4>1
    <3> QED BY <1>4, <3>1 DEF Others
  <2>2. Others \in SUBSET ReplicaSets /\ \A o \in Others : o.rev <= top.rev
    BY <1>1 DEF Others, ClusterShape
  <2>3. Goal = Above(Others)
    BY <1>4 DEF Goal
  <2> QED BY <2>1, <2>2, <2>3, AboveNewest
<1> QED BY <1>3, <1>4

\* Once the cluster has caught up, the revision is that of the newest set.
LEMMA SettledIsNewest ==
  ASSUME ClusterShape, SetsInv, Settled
  PROVE  \E r \in sets : /\ r.rev = deployment.rev /\ Template(r) = Template(deployment)
                         /\ \A s \in sets : s.rev <= r.rev
<1>1. deployment.rev = Goal /\ ReplicaSet(deployment, Goal) \in sets
  BY DEF Settled
<1>2. ReplicaSet(deployment, Goal).rev = Goal /\ Template(ReplicaSet(deployment, Goal)) = Template(deployment)
  BY DEF ReplicaSet, Template
<1>3. \A s \in sets : s.rev \in Nat
  BY DEF ClusterShape, ReplicaSets
<1>4. CASE \E r \in Own : Goal = r.rev /\ Own = {r} /\ \A o \in Others : o.rev < r.rev
  <2>1. PICK r \in Own : Goal = r.rev /\ Own = {r} /\ \A o \in Others : o.rev < r.rev
    BY <1>4
  <2>2. r \in sets /\ Template(r) = Template(deployment)
    BY DEF Own
  <2>3. \A s \in sets : s.rev <= r.rev
    BY <1>3, <2>1, <2>2 DEF Others
  <2> QED BY <1>1, <2>1, <2>2, <2>3
<1>5. CASE \E top \in Others : Goal = 1 + top.rev /\ \A o \in Others : o.rev <= top.rev
  <2>1. PICK top \in Others : Goal = 1 + top.rev /\ \A o \in Others : o.rev <= top.rev
    BY <1>5
  <2> DEFINE r == ReplicaSet(deployment, Goal)
  <2>2. r \in Own /\ r \in sets /\ r.rev = Goal /\ Template(r) = Template(deployment)
    BY <1>1, <1>2 DEF Own
  <2> HIDE DEF r
  <2>3. top.rev \in Nat
    BY <1>3 DEF Others
  <2>4. ASSUME NEW s \in sets PROVE s.rev <= r.rev
    <3>1. CASE s \in Others
      BY <1>3, <2>1, <2>2, <2>3, <3>1
    <3>2. CASE s \in Own
      <4>1. Template(s) = Template(r)
        BY <2>2, <3>2 DEF Own
      <4>2. s = r
        BY <2>2, <4>1 DEF SetsInv
      <4> QED BY <1>3, <2>2, <4>2
    <3> QED BY <3>1, <3>2 DEF Others
  <2> QED BY <1>1, <2>2, <2>4
<1> QED BY <1>4, <1>5, GoalCases

-----------------------------------------------------------------------------
(* Steps of the cluster                                                    *)

LEMMA CatchUpKeeps ==
  ASSUME ClusterInv, CatchUp
  PROVE  ClusterInv'
<1> DEFINE new == ReplicaSet(deployment, Goal)
<1>1. /\ deployment \in Deployments /\ sets \in SUBSET ReplicaSets
      /\ ClusterShape /\ SetsInv /\ intended' = intended /\ blurred' = blurred
  BY DEF ClusterInv, ClusterShape, CatchUp
<1>2. sets' = Others \cup {new} /\ deployment' = [deployment EXCEPT !.rev = Goal]
  BY DEF CatchUp
<1>3. Goal \in Nat /\ \A o \in Others : o.rev # Goal
  <2>1. \A s \in sets : s.rev \in Nat
    BY <1>1 DEF ReplicaSets
  <2>2. CASE \E r \in Own : Goal = r.rev /\ \A o \in Others : o.rev < r.rev
    BY <2>1, <2>2 DEF Own, Others
  <2>3. CASE \E top \in Others : Goal = 1 + top.rev /\ \A o \in Others : o.rev <= top.rev
    BY <2>1, <2>3 DEF Others
  <2> QED BY <1>1, <2>2, <2>3, GoalCases
<1>4. /\ deployment' \in Deployments
      /\ Template(deployment') = Template(deployment)
      /\ deployment'.release = deployment.release /\ deployment'.limit = deployment.limit
      /\ deployment'.on = deployment.on
  BY <1>1, <1>2, <1>3 DEF Deployments, Template
<1>5. new \in ReplicaSets /\ new.rev = Goal /\ Template(new) = Template(deployment)
  BY <1>1, <1>3 DEF ReplicaSet, ReplicaSets, Deployments, Template
<1> HIDE DEF new
<1>6. Own' = {new} /\ Others' = Others
  BY <1>2, <1>4, <1>5 DEF Own, Others
<1>7. ClusterShape'
  BY <1>1, <1>2, <1>4, <1>5 DEF ClusterShape, CatchUp, Outdate, Others, Phases
<1>8. SetsInv'
  <2>1. \A r, s \in sets' : Template(r) = Template(s) \/ r.rev = s.rev => r = s
    BY <1>1, <1>2, <1>3, <1>5 DEF SetsInv, Others, Own
  <2>2. \E top \in sets' : \A r \in sets' : r.rev <= top.rev
    <3>1. \A s \in sets' : s.rev \in Nat
      BY <1>7 DEF ClusterShape, ReplicaSets
    <3>2. CASE \E r \in Own : Goal = r.rev /\ \A o \in Others : o.rev < r.rev
      BY <1>2, <1>5, <3>1, <3>2
    <3>3. CASE \E top \in Others : Goal = 1 + top.rev /\ \A o \in Others : o.rev <= top.rev
      BY <1>2, <1>5, <3>1, <3>3
    <3> QED BY <1>1, <3>2, <3>3, GoalCases
  <2> QED BY <2>1, <2>2 DEF SetsInv
<1>9. ASSUME ~blurred PROVE Matches(deployment') /\ Restorable' /\ OpInv'
  <2>1. Matches(deployment) /\ Restorable
    BY <1>9 DEF ClusterInv
  <2>2. Matches(deployment')
    BY <1>1, <1>4, <2>1 DEF Matches
  <2>3. OpInv'
    BY DEF CatchUp, Outdate, OpInv, ClusterInv, ClusterShape
  <2>4. ASSUME deployment.on
        PROVE  \E r \in Others : Plain(r) /\ (\A o \in Others : o.rev <= r.rev) /\ Goal <= r.rev + 1
    <3>1. PICK r \in Others : /\ Plain(r)
                              /\ \A o \in Others : o.rev <= r.rev
                              /\ \A o \in Own : o.rev <= r.rev \/ o.rev = r.rev + 1
      BY <2>1, <2>4 DEF Restorable
    <3>2. \A s \in sets : s.rev \in Nat
      BY <1>1 DEF ReplicaSets
    <3>3. Goal <= r.rev + 1
      <4>1. CASE \E s \in Own : Goal = s.rev
        BY <3>1, <3>2, <4>1 DEF Own, Others
      <4>2. CASE \E top \in Others : Goal = 1 + top.rev
        BY <3>1, <3>2, <4>2 DEF Others
      <4> QED BY <1>1, <4>1, <4>2, GoalCases
    <3> QED BY <3>1, <3>3
  <2>5. Restorable'
    <3>1. ASSUME NEW r \in Others, Goal <= r.rev + 1 PROVE new.rev <= r.rev \/ new.rev = r.rev + 1
      BY <1>1, <1>3, <1>5, <3>1 DEF Others, ReplicaSets
    <3>2. \A r : Plain(r)' <=> Plain(r)
      BY <1>1 DEF Plain
    <3> QED BY <1>4, <1>6, <2>4, <3>1, <3>2 DEF Restorable
  <2> QED BY <2>2, <2>3, <2>5
<1> QED BY <1>1, <1>7, <1>8, <1>9 DEF ClusterInv, Matches

LEMMA DeployKeeps ==
  ASSUME ClusterInv, Deploy
  PROVE  ClusterInv'
<1>1. /\ deployment \in Deployments /\ sets \in SUBSET ReplicaSets
      /\ ClusterShape /\ SetsInv /\ intended \in 1..MaxReleases
  BY DEF ClusterInv, ClusterShape
<1>2. intended' = intended + 1 /\ intended' \in 1..MaxReleases /\ sets' = sets
  BY <1>1, ReleaseAssumption DEF Deploy
<1>3. /\ deployment' \in Deployments
      /\ deployment'.release = intended' /\ deployment'.limit = deployment.limit
      /\ deployment'.on = deployment.on
  BY <1>1, <1>2 DEF Deploy, Deployments
<1>4. ClusterShape' /\ SetsInv'
  BY <1>1, <1>2, <1>3 DEF ClusterShape, SetsInv, Deploy, Outdate, Phases
<1>5. ASSUME ~blurred' PROVE Matches(deployment)' /\ Restorable' /\ OpInv'
  <2>1. ~blurred /\ ~deployment.on
    BY <1>5 DEF Deploy
  <2>2. OpInv'
    BY DEF Deploy, Outdate, OpInv, ClusterInv, ClusterShape
  <2>3. deployment'.limit = deployment'.on
    BY <1>3, <2>1 DEF ClusterInv, Matches
  <2>4. intended' = deployment'.release
    BY <1>3
  <2> QED BY <1>3, <2>1, <2>2, <2>3 DEF Restorable, Matches
<1> QED BY <1>4, <1>5 DEF ClusterInv

-----------------------------------------------------------------------------
(* Steps of the operator                                                   *)

\* A step that leaves the deployment alone keeps what is said of it.
LEMMA SameCluster ==
  ASSUME ClusterInv, UNCHANGED <<deployment, sets, intended>>
  PROVE  /\ SetsInv' /\ Matches(deployment)' = Matches(deployment)
         /\ Restorable' = Restorable /\ Settled' = Settled
BY DEF ClusterInv, SetsInv, Matches, Restorable, Plain, Others, Own, Settled, Goal

LEMMA RestKeeps ==
  ASSUME ClusterInv, UNCHANGED <<deployment, sets, intended, blurred>>,
         \/ op' = Resting \/ op' = op
         \/ op'.copy = {} /\ op' \in [at : {"read"}, seen : BOOLEAN, copy : SUBSET Deployments, stale : BOOLEAN]
  PROVE  ClusterInv'
<1>1. CASE op' = op
  BY <1>1, SameCluster DEF ClusterInv, ClusterShape, OpInv, Matches
<1>2. CASE op' # op
  <2>1. /\ op'.copy = {} /\ op'.at \in {"idle", "read"}
        /\ op' \in [at : Phases, seen : BOOLEAN, copy : SUBSET Deployments, stale : BOOLEAN]
    <3>1. CASE op' = Resting
      BY <3>1 DEF Resting, Phases
    <3>2. CASE op' \in [at : {"read"}, seen : BOOLEAN, copy : SUBSET Deployments, stale : BOOLEAN]
      BY <1>2, <3>2 DEF Phases, Resting
    <3> QED BY <1>2, <3>1, <3>2
  <2>2. ClusterShape'
    BY <2>1 DEF ClusterInv, ClusterShape
  <2>3. OpInv'
    BY <2>1 DEF OpInv
  <2>4. blurred' = blurred
    OBVIOUS
  <2> QED BY <2>2, <2>3, <2>4, SameCluster DEF ClusterInv
<1> QED BY <1>1, <1>2

LEMMA TickKeeps ==
  ASSUME ClusterInv, Tick
  PROVE  ClusterInv'
<1>1. Resting \in [at : Phases, seen : BOOLEAN, copy : SUBSET Deployments, stale : BOOLEAN]
  BY DEF Resting, Phases
<1>2. op'.copy = {} /\ op' \in [at : {"read"}, seen : BOOLEAN, copy : SUBSET Deployments, stale : BOOLEAN]
  <2>1. PICK b \in BOOLEAN : op' = [op EXCEPT !.at = "read", !.seen = b]
    BY DEF Tick, Enabled
  <2> QED BY <1>1, <2>1 DEF Tick, Resting
<1> QED BY <1>2, RestKeeps DEF Tick

LEMMA GetKeeps ==
  ASSUME ClusterInv, Get
  PROVE  ClusterInv'
<1>1. /\ ClusterShape /\ UNCHANGED <<deployment, sets, intended>>
      /\ deployment \in Deployments
  BY DEF ClusterInv, ClusterShape, Get
<1>2. /\ op'.at = "got" /\ op'.copy = {deployment}
      /\ op' \in [at : Phases, seen : BOOLEAN, copy : SUBSET Deployments, stale : BOOLEAN]
  BY <1>1 DEF Get, ClusterShape, Phases
<1>3. ClusterShape'
  BY <1>1, <1>2 DEF ClusterShape
<1>4. ASSUME ~blurred' PROVE ~blurred /\ Settled
  BY <1>4 DEF Get
<1>5. ~blurred' => OpInv'
  <2> SUFFICES ASSUME ~blurred' PROVE OpInv'
    OBVIOUS
  <2>1. Settled'
    BY <1>1, <1>4, SameCluster
  <2>2. Matches(deployment)
    BY <1>4 DEF ClusterInv
  <2>3. \A c \in op'.copy : Matches(c)' /\ c = deployment'
    BY <1>1, <1>2, <2>2 DEF Matches
  <2> QED BY <2>1, <2>3 DEF OpInv
<1> QED BY <1>1, <1>3, <1>4, <1>5, SameCluster DEF ClusterInv

\* What a rollback restores: the revision before is the plain template.
LEMMA RevisionBefore ==
  ASSUME ClusterShape, SetsInv, Settled, Restorable, deployment.on, Matches(deployment),
         NEW r \in sets, r.rev = deployment.rev - 1
  PROVE  Plain(r)
<1>1. \A s \in sets : s.rev \in Nat
  BY DEF ClusterShape, ReplicaSets
<1>2. PICK p \in Others : /\ Plain(p)
                          /\ \A o \in Others : o.rev <= p.rev
                          /\ \A o \in Own : o.rev <= p.rev \/ o.rev = p.rev + 1
  BY DEF Restorable
<1>3. PICK s \in sets : /\ s.rev = deployment.rev /\ Template(s) = Template(deployment)
                        /\ \A o \in sets : o.rev <= s.rev
  BY SettledIsNewest
<1>4. s \in Own /\ p \in sets /\ s # p /\ p.rev <= s.rev
  BY <1>2, <1>3 DEF Own, Others
<1>5. p.rev # s.rev
  BY <1>4 DEF SetsInv
<1>6. s.rev = p.rev + 1
  BY <1>1, <1>2, <1>4, <1>5
<1>7. r.rev = p.rev
  BY <1>1, <1>3, <1>4, <1>6
<1> QED BY <1>2, <1>4, <1>7 DEF SetsInv

\* A copy that is ready for the update.
LEMMA PreparedKeeps ==
  ASSUME ClusterInv, UNCHANGED <<deployment, sets, intended, blurred>>,
         NEW c \in Deployments, op' = [op EXCEPT !.at = "ready", !.copy = {c}],
         op.copy # {},
         ~blurred /\ ~op.stale => Matches(c) /\ (c = deployment \/ c.on # deployment.on)
  PROVE  ClusterInv'
<1>1. ClusterShape
  BY DEF ClusterInv
<1>2. /\ op'.at = "ready" /\ op'.copy = {c} /\ op'.stale = op.stale
      /\ op' \in [at : Phases, seen : BOOLEAN, copy : SUBSET Deployments, stale : BOOLEAN]
  BY <1>1 DEF ClusterShape, Phases
<1>3. ClusterShape'
  BY <1>1, <1>2 DEF ClusterShape
<1>4. ASSUME ~blurred, ~op.stale PROVE Settled' /\ \A x \in op'.copy : Matches(x)' /\ (x = deployment' \/ x.on # deployment'.on)
  <2>1. Settled
    BY <1>4 DEF ClusterInv, OpInv
  <2>2. Settled'
    BY <2>1, SameCluster
  <2>3. Matches(c)'
    BY <1>4 DEF Matches
  <2> QED BY <1>2, <1>4, <2>2, <2>3
<1>5. ~blurred => OpInv'
  BY <1>2, <1>4 DEF OpInv
<1> QED BY <1>3, <1>5, SameCluster DEF ClusterInv

LEMMA PrepareKeeps ==
  ASSUME ClusterInv, Prepare
  PROVE  ClusterInv'
<1>1. PICK c \in op.copy : Synchronized(c) \/ Apply(c) \/ Rollback(c)
  BY DEF Prepare
<1>2. /\ c \in Deployments /\ op.at = "got" /\ op.copy # {}
      /\ UNCHANGED <<deployment, sets, intended, blurred>>
      /\ \A s \in sets : s.release \in 1..MaxReleases /\ s.limit \in BOOLEAN
  BY <1>1 DEF ClusterInv, ClusterShape, Prepare, ReplicaSets
<1>3. ~blurred /\ ~op.stale => Settled /\ Matches(c) /\ c = deployment
  BY <1>1, <1>2 DEF ClusterInv, OpInv
<1>4. CASE Synchronized(c)
  BY <1>2, <1>3, <1>4, PreparedKeeps DEF Synchronized, Prepared
<1>5. CASE Apply(c)
  <2> DEFINE n == [c EXCEPT !.on = TRUE, !.limit = TRUE]
  <2>1. /\ n \in Deployments /\ n.on /\ n.limit = n.on /\ n.release = c.release
        /\ op' = [op EXCEPT !.at = "ready", !.copy = {n}] /\ ~c.on
    BY <1>2, <1>5 DEF Deployments, Apply, Prepared
  <2> HIDE DEF n
  <2>2. ~blurred /\ ~op.stale => Matches(n) /\ n.on # deployment.on
    BY <1>3, <2>1 DEF Matches
  <2> QED BY <1>2, <2>1, <2>2, PreparedKeeps
<1>6. CASE Rollback(c)
  <2>1. CASE op' = Resting
    BY <1>2, <2>1, RestKeeps
  <2>2. ASSUME NEW r \in sets, r.rev = c.rev - 1,
               Prepared([c EXCEPT !.on = FALSE, !.release = r.release, !.limit = r.limit])
        PROVE  ClusterInv'
    <3> DEFINE n == [c EXCEPT !.on = FALSE, !.release = r.release, !.limit = r.limit]
    <3>1. /\ n \in Deployments /\ n.on = FALSE /\ n.limit = r.limit /\ n.release = r.release
          /\ op' = [op EXCEPT !.at = "ready", !.copy = {n}] /\ c.on
      BY <1>2, <1>6, <2>2 DEF Deployments, Rollback, Prepared
    <3> HIDE DEF n
    <3>2. ASSUME ~blurred, ~op.stale PROVE Matches(n) /\ n.on # deployment.on
      <4>1. Plain(r)
        BY <1>3, <2>2, <3>1, <3>2, RevisionBefore DEF ClusterInv
      <4> QED BY <1>3, <3>1, <3>2, <4>1 DEF Plain, Matches
    <3> QED BY <1>2, <3>1, <3>2, PreparedKeeps
  <2> QED BY <1>6, <2>1, <2>2 DEF Rollback
<1> QED BY <1>1, <1>4, <1>5, <1>6

LEMMA UpdateKeeps ==
  ASSUME ClusterInv, Update
  PROVE  ClusterInv'
<1>1. ClusterShape /\ op.at = "ready" /\ UNCHANGED <<sets, intended, blurred>>
  BY DEF ClusterInv, Update
<1>2. CASE UNCHANGED deployment
  <2>1. CASE op' = Resting
    BY <1>1, <1>2, <2>1, RestKeeps
  <2>2. CASE op' = [op EXCEPT !.at = "read", !.copy = {}, !.stale = FALSE]
    <3>1. op'.copy = {} /\ op' \in [at : {"read"}, seen : BOOLEAN, copy : SUBSET Deployments, stale : BOOLEAN]
      BY <1>1, <2>2 DEF ClusterShape
    <3> QED BY <1>1, <1>2, <3>1, RestKeeps
  <2>3. CASE op' = op
    BY <1>1, <1>2, <2>3, RestKeeps
  <2>4. op' = Resting \/ op' = [op EXCEPT !.at = "read", !.copy = {}, !.stale = FALSE]
    BY DEF Update
  <2> QED BY <2>1, <2>2, <2>4
<1>3. CASE ~op.stale /\ deployment' \in op.copy /\ op' = Resting /\ deployment' # deployment
  <2>1. PICK c \in op.copy : deployment' = c
    BY <1>3
  <2>2. c \in Deployments /\ SetsInv /\ sets \in SUBSET ReplicaSets
    BY <1>1 DEF ClusterShape, ClusterInv
  <2>3. ClusterShape' /\ SetsInv' /\ op'.copy = {}
    BY <1>1, <1>3, <2>1, <2>2 DEF ClusterShape, SetsInv, Resting, Phases
  <2>4. ASSUME ~blurred PROVE Matches(deployment') /\ Restorable'
    <3>1. /\ Settled /\ Matches(c) /\ c.on # deployment.on /\ Matches(deployment)
      BY <1>3, <2>1, <2>4 DEF ClusterInv, OpInv
    <3>2. ASSUME c.on PROVE Restorable'
      <4>1. PICK r \in sets : /\ r.rev = deployment.rev /\ Template(r) = Template(deployment)
                              /\ \A s \in sets : s.rev <= r.rev
        BY <1>1, <2>2, <3>1, SettledIsNewest
      <4>2. deployment.limit = FALSE /\ deployment.release = intended
        <5>1. deployment.limit = deployment.on /\ deployment.on \in BOOLEAN /\ c.on \in BOOLEAN
          BY <1>1, <2>2, <3>1 DEF Matches, ClusterShape, Deployments
        <5> QED BY <3>1, <3>2, <5>1 DEF Matches
      <4>3. r.limit = FALSE /\ r.release = intended
        BY <4>1, <4>2 DEF Template
      <4>4. c.limit # FALSE
        BY <3>1, <3>2 DEF Matches
      <4>5. Template(r) # Template(c)
        BY <4>3, <4>4 DEF Template
      <4>6. r \in Others'
        BY <1>1, <2>1, <4>1, <4>5 DEF Others, Own
      <4>7. Plain(r)'
        BY <1>1, <4>3 DEF Plain
      <4>8. (\A o \in Others' : o.rev <= r.rev) /\ \A o \in Own' : o.rev <= r.rev
        BY <1>1, <4>1 DEF Others, Own
      <4> QED BY <4>6, <4>7, <4>8 DEF Restorable
    <3>3. ASSUME ~c.on PROVE Restorable'
      BY <2>1, <3>3 DEF Restorable
    <3>4. Matches(deployment')
      BY <2>1, <3>1
    <3> QED BY <3>2, <3>3, <3>4
  <2>5. OpInv'
    BY <2>3 DEF OpInv
  <2>6. Matches(deployment') => Matches(deployment)'
    BY <1>1 DEF Matches
  <2> QED BY <1>1, <2>3, <2>4, <2>5, <2>6 DEF ClusterInv
<1> QED BY <1>2, <1>3 DEF Update

LEMMA ClusterNext ==
  ASSUME ClusterInv, [Next]_vars
  PROVE  ClusterInv'
<1>1. CASE UNCHANGED <<deployment, sets, op, intended, blurred>>
  BY <1>1, RestKeeps
<1>2. CASE GiveUp
  BY <1>2, RestKeeps DEF GiveUp
<1>3. CASE CatchUp \/ Deploy \/ Tick \/ Get \/ Prepare \/ Update
  BY <1>3, CatchUpKeeps, DeployKeeps, TickKeeps, GetKeeps, PrepareKeeps, UpdateKeeps
<1> QED BY <1>1, <1>2, <1>3 DEF Next, Cluster, Operator, vars

(* The annotation tells whether the problem is applied, and a rollback     *)
(* restores the release that was deployed last.                            *)
THEOREM RollbackRestores == Spec => []ClusterMatches
<1>1. ClusterInv /\ [Next]_vars => ClusterInv'
  BY ClusterNext
<1>2. ClusterInv => ClusterMatches
  BY DEF ClusterInv, Matches, ClusterMatches
<1> QED BY <1>1, <1>2, ClusterInit, PTL DEF Spec

-----------------------------------------------------------------------------
(* Types                                                                   *)

Entry == [data  : QC!AtMostOne([owner : {"page"}, ver : 0..MaxChanges + 1]),
          fresh : BOOLEAN,
          fetch : QC!AtMostOne([for : {"page"}, got : QC!AtMostOne(0..MaxChanges + 1)])]

\* What is left of the types: the list holds one value and one read at most.
Shape ==
  /\ list \in Entry
  /\ config \in {"unread", "allowed", "forbidden"}
  /\ faults \in 0..MaxFaults /\ blurred \in BOOLEAN

\* The operators of the cache return entries of the cache.
LEMMA EntryOperators ==
  ASSUME NEW e \in Entry
  PROVE  /\ QC!Request(e, "page") \in Entry /\ QC!Join(e, "page") \in Entry
         /\ QC!Invalidate(e, "page", TRUE) \in Entry
         /\ \A v \in 0..MaxChanges + 1 : QC!Served(e, v) \in Entry
         /\ \A f \in e.fetch : QC!Landed(f) \in Entry
<1> DEFINE D == QC!AtMostOne([owner : {"page"}, ver : 0..MaxChanges + 1])
           G == QC!AtMostOne(0..MaxChanges + 1)
           F == QC!AtMostOne([for : {"page"}, got : G])
<1>1. Entry = [data : D, fresh : BOOLEAN, fetch : F]
  BY DEF Entry
<1>2. {} \in D /\ {} \in G /\ {} \in F
  BY DEF QC!AtMostOne
<1>3. \A v \in 0..MaxChanges + 1 : {v} \in G /\ {[owner |-> "page", ver |-> v]} \in D
  BY DEF QC!AtMostOne
<1>4. \A got \in G : {[for |-> "page", got |-> got]} \in F
  BY DEF QC!AtMostOne
<1>5. \A S \in F : S = {} \/ \E got \in G : S = {[for |-> "page", got |-> got]}
  <2> TAKE S \in F
  <2> HIDE DEF G
  <2>1. S = {} \/ \E f \in [for : {"page"}, got : G] : S = {f}
    BY DEF QC!AtMostOne
  <2>2. \A f \in [for : {"page"}, got : G] : f = [for |-> "page", got |-> f.got] /\ f.got \in G
    OBVIOUS
  <2> QED BY <2>1, <2>2
<1>6. \A got \in G : got = {} \/ \E v \in 0..MaxChanges + 1 : got = {v}
  BY DEF QC!AtMostOne
<1> HIDE DEF D, G, F
<1>7. \A x \in Entry : QC!Request(x, "page") \in Entry /\ QC!Join(x, "page") \in Entry
  BY <1>1, <1>2, <1>4 DEF QC!Request, QC!Join
<1>8. QC!Aged(e) \in Entry
  BY <1>1 DEF QC!Aged
<1>9. QC!Invalidate(e, "page", TRUE) \in Entry
  BY <1>7, <1>8 DEF QC!Invalidate
<1>10. ASSUME NEW v \in 0..MaxChanges + 1 PROVE QC!Served(e, v) \in Entry
  <2> DEFINE answers == {[for |-> f.for, got |-> {v}] : f \in e.fetch}
  <2>1. answers \in F
    <3>1. CASE e.fetch = {}
      BY <1>2, <3>1
    <3>2. CASE e.fetch # {}
      <4>1. PICK got \in G : e.fetch = {[for |-> "page", got |-> got]}
        BY <1>1, <1>5, <3>2
      <4>2. answers = {[for |-> "page", got |-> {v}]}
        BY <4>1
      <4> QED BY <1>3, <1>4, <4>2
    <3> QED BY <3>1, <3>2
  <2>2. QC!Served(e, v) = [e EXCEPT !.fetch = answers]
    BY DEF QC!Served
  <2> HIDE DEF answers
  <2> QED BY <1>1, <2>1, <2>2
<1>11. ASSUME NEW f \in e.fetch PROVE QC!Landed(f) \in Entry
  <2> DEFINE values == {QC!Value(f.for, v) : v \in f.got}
  <2>1. f.for = "page" /\ f.got \in G
    BY <1>1, <1>5
  <2>2. values \in D
    <3>1. CASE f.got = {}
      BY <1>2, <3>1
    <3>2. CASE f.got # {}
      <4>1. PICK v \in 0..MaxChanges + 1 : f.got = {v}
        BY <1>6, <2>1, <3>2
      <4>2. values = {[owner |-> "page", ver |-> v]}
        BY <2>1, <4>1 DEF QC!Value
      <4> QED BY <1>3, <4>2
    <3> QED BY <3>1, <3>2
  <2>3. QC!Landed(f) = [data |-> values, fresh |-> TRUE, fetch |-> {}]
    BY DEF QC!Landed
  <2> HIDE DEF values
  <2> QED BY <1>1, <1>2, <2>2, <2>3
<1> QED BY <1>7, <1>9, <1>10, <1>11

LEMMA ShapeInit == Init => Shape
<1> SUFFICES ASSUME Init PROVE Shape
  OBVIOUS
<1>1. QC!Absent \in Entry
  BY DEF QC!Absent, Entry, QC!AtMostOne
<1>2. list = QC!Absent /\ config = "unread" /\ faults = 0 /\ blurred = FALSE
  BY DEF Init, FlagInit
<1>3. 0 \in 0..MaxFaults
  BY FlagAssumption
<1> QED BY <1>1, <1>2, <1>3 DEF Shape

LEMMA ShapeNext ==
  ASSUME PageInv, Shape, [Next]_vars
  PROVE  Shape'
<1>1. /\ list \in Entry /\ faults \in 0..MaxFaults /\ blurred \in BOOLEAN
      /\ config \in {"unread", "allowed", "forbidden"}
      /\ flag \in 0..MaxChanges + 1 /\ Blank \in 0..MaxChanges + 1
  BY FlagAssumption DEF Shape, PageInv, PageShape, Blank
<1>2. Fault => faults' \in 0..MaxFaults
  BY <1>1, FlagAssumption DEF Fault
<1>3. CASE FlagNext /\ UNCHANGED <<deployment, sets, op, intended, blurred>>
  <2>1. CASE OthersSet \/ ServiceRestarts \/ ClickToggle \/ CarryOutToggle \/ ToggleFails
    BY <1>1, <1>2, <1>3, <2>1 DEF OthersSet, ServiceRestarts, ClickToggle, CarryOutToggle, ToggleFails, Shape
  <2>2. CASE ReadConfig
    BY <1>1, <1>2, <1>3, <2>2 DEF ReadConfig, Shape
  <2>3. CASE ReadList \/ ReloadList \/ ToggleAnswered
    BY <1>1, <1>3, <2>3, EntryOperators DEF ReadList, ReloadList, ToggleAnswered, Shape
  <2>4. CASE ServeList
    <3>1. list' \in Entry /\ config' = config
      BY <1>1, <2>4, EntryOperators DEF ServeList
    <3>2. faults' \in 0..MaxFaults
      BY <1>1, <1>2, <2>4 DEF ServeList
    <3> QED BY <1>1, <1>3, <3>1, <3>2 DEF Shape
  <2>5. CASE LandList
    BY <1>1, <1>3, <2>5, EntryOperators DEF LandList, Shape
  <2> QED BY <1>3, <2>1, <2>2, <2>3, <2>4, <2>5 DEF FlagNext, PageSteps
<1>4. CASE CatchUp \/ Deploy \/ Tick \/ Get \/ Prepare \/ Update
  <2>1. UNCHANGED flagVars
    BY <1>4 DEF CatchUp, Deploy, Tick, Get, Prepare, Update
  <2>2. blurred' \in BOOLEAN
    BY <1>1, <1>4 DEF CatchUp, Deploy, Tick, Get, Prepare, Update
  <2> QED BY <1>1, <2>1, <2>2 DEF flagVars, Shape
<1>5. CASE GiveUp
  BY <1>1, <1>2, <1>5 DEF GiveUp, Shape
<1>6. CASE UNCHANGED vars
  BY <1>6 DEF vars, flagVars, Shape
<1> QED BY <1>3, <1>4, <1>5, <1>6 DEF Next, Cluster, Operator

(* Every variable of the page, the operator and the cluster has its type:  *)
(* the operator never has more than one copy of the deployment in hand,    *)
(* and the page never more than one read of the list under way.            *)
THEOREM OperatorTypes == Spec => []TypeOK
<1>1. PageInv /\ Shape /\ [Next]_vars => Shape'
  BY ShapeNext
<1>2. PageInv /\ [Next]_vars => PageInv'
  BY PageNext
<1>3. ClusterInv /\ [Next]_vars => ClusterInv'
  BY ClusterNext
<1>4. Init => PageInv /\ ClusterInv /\ Shape
  BY PageInit, ClusterInit, ShapeInit DEF Init
<1>5. PageInv /\ ClusterInv /\ Shape => TypeOK
  <2> SUFFICES ASSUME PageInv, ClusterInv, Shape PROVE TypeOK
    OBVIOUS
  <2>1. FlagTypeOK
    BY DEF PageInv, PageShape, Toggles, Shape, Entry, QC!Entries, FlagTypeOK
  <2>2. Cardinality(op.copy) <= 1
    <3>1. op.copy = {} \/ \E c : op.copy = {c}
      BY DEF ClusterInv, ClusterShape, Phases
    <3>2. Cardinality({}) = 0 /\ \A c : Cardinality({c}) = 1
      BY FS_EmptySet, FS_Singleton
    <3>3. Cardinality(op.copy) = 0 \/ Cardinality(op.copy) = 1
      BY <3>1, <3>2
    <3> QED BY <3>3
  <2>3. /\ Template(deployment) \in Templates
        /\ deployment.on \in BOOLEAN /\ deployment.rev \in Nat
        /\ op.at \in {"idle", "read", "got", "ready"} /\ op.seen \in BOOLEAN /\ op.stale \in BOOLEAN
        /\ intended \in 1..MaxReleases /\ blurred \in BOOLEAN
    BY DEF ClusterInv, ClusterShape, Shape, Deployments, Template, Templates, Phases
  <2>4. \A r \in sets : Template(r) \in Templates /\ r.rev \in Nat
    BY DEF ClusterInv, ClusterShape, ReplicaSets, Template, Templates
  <2> QED BY <2>1, <2>2, <2>3, <2>4 DEF TypeOK
<1> QED BY <1>1, <1>2, <1>3, <1>4, <1>5, PTL DEF Spec
=============================================================================
