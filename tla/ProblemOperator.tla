--------------------------- MODULE ProblemOperator ---------------------------
(***************************************************************************)
(* The problem-operator and the deployment it controls, together with the  *)
(* flag it follows.  At every tick the operator reads the flag, then the   *)
(* deployment, and applies the problem (a CPU limit) or rolls it back to   *)
(* the replica set of the revision before.  An annotation of the           *)
(* deployment tells whether the problem is applied.                        *)
(*                                                                         *)
(* Kubernetes is modelled from how the operator uses it: an update is      *)
(* refused if the object has changed since it was read, and a controller   *)
(* of the cluster gives every template a replica set and a revision.       *)
(***************************************************************************)
EXTENDS FeatureFlags

CONSTANT MaxReleases   \* bound: releases of the application that are deployed

ASSUME ReleaseAssumption == MaxReleases \in Nat \ {0}

VARIABLES
  deployment,  \* what the API server holds: release, limit, annotation, revision
  sets,        \* the replica sets: release, limit, revision
  op,          \* the operator: where in a tick it is, and what it has read
  intended,    \* history: the release deployed last
  blurred      \* history: the revision that the operator read did not tell the
               \* template before: a deployment was made while the problem was
               \* applied, or the cluster had not caught up with one

vars == <<flagVars, deployment, sets, op, intended, blurred>>

Templates == [release : 1..MaxReleases, limit : BOOLEAN]

Template(x) == [release |-> x.release, limit |-> x.limit]

ReplicaSet(t, n) == [release |-> t.release, limit |-> t.limit, rev |-> n]

Resting == [at |-> "idle", seen |-> FALSE, copy |-> {}, stale |-> FALSE]

-----------------------------------------------------------------------------
(* The cluster                                                             *)

\* The replica sets of this template and of others, and the revision that the
\* cluster gives the deployment: the highest.
Own == {r \in sets : Template(r) = Template(deployment)}

Others == sets \ Own

Above(S) ==
  LET revisions == {r.rev : r \in S} \cup {0}
  IN  1 + CHOOSE n \in revisions : \A m \in revisions : m <= n

Goal ==
  IF \E r \in Own : \A o \in Others : o.rev < r.rev
    THEN (CHOOSE r \in Own : TRUE).rev
    ELSE Above(Others)

Settled == deployment.rev = Goal /\ ReplicaSet(deployment, Goal) \in sets

\* What the operator has read of the deployment is out of date.
Outdate == op' = [op EXCEPT !.stale = op.copy # {}]

\* The deployment controller of the cluster.
CatchUp ==
  /\ ~Settled
  /\ sets' = Others \cup {ReplicaSet(deployment, Goal)}
  /\ deployment' = [deployment EXCEPT !.rev = Goal]
  /\ Outdate
  /\ UNCHANGED <<flagVars, intended, blurred>>

\* A release is deployed; what the operator has set is left alone.
Deploy ==
  /\ intended < MaxReleases
  /\ intended' = intended + 1
  /\ deployment' = [deployment EXCEPT !.release = intended + 1]
  /\ Outdate
  /\ blurred' = (blurred \/ deployment.on)
  /\ UNCHANGED <<flagVars, sets>>

-----------------------------------------------------------------------------
(* The operator                                                            *)

\* A tick: GetFlag.  When that fails the tick is over.
Tick ==
  /\ op = Resting
  /\ op' = [op EXCEPT !.at = "read", !.seen = Enabled(flag)]
  /\ UNCHANGED <<flagVars, deployment, sets, intended, blurred>>

\* GetResource.
Get ==
  /\ op.at = "read"
  /\ op' = [op EXCEPT !.at = "got", !.copy = {deployment}, !.stale = FALSE]
  /\ blurred' = (blurred \/ ~Settled)
  /\ UNCHANGED <<flagVars, deployment, sets, intended>>

Prepared(c) == op' = [op EXCEPT !.at = "ready", !.copy = {c}]

Synchronized(c) == op.seen = c.on /\ Prepared(c)

Apply(c) == op.seen /\ ~c.on /\ Prepared([c EXCEPT !.on = TRUE, !.limit = TRUE])

\* Mutants: the release before is taken for the revision before; the annotation
\* is left as it is.
RollbackRelease(c) ==
  /\ ~op.seen /\ c.on
  /\ Prepared([c EXCEPT !.on = FALSE, !.release = c.release - 1, !.limit = FALSE])

RollbackQuietly(c) ==
  /\ ~op.seen /\ c.on
  /\ \E r \in sets :
       r.rev = c.rev - 1 /\ Prepared([c EXCEPT !.release = r.release, !.limit = r.limit])

\* RollbackDeployment lists the replica sets, and fails without the one before.
Rollback(c) ==
  /\ ~op.seen /\ c.on
  /\ \/ \E r \in sets :
          /\ r.rev = c.rev - 1
          /\ Prepared([c EXCEPT !.on = FALSE, !.release = r.release, !.limit = r.limit])
     \/ /\ \A r \in sets : r.rev # c.rev - 1
        /\ op' = Resting

Prepare ==
  /\ op.at = "got"
  /\ \E c \in op.copy : Synchronized(c) \/ Apply(c) \/ Rollback(c)
  /\ UNCHANGED <<flagVars, deployment, sets, intended, blurred>>

\* A mutant: the update takes no notice of a conflict.
UpdateBlindly ==
  /\ op.at = "ready"
  /\ deployment' \in op.copy /\ op' = Resting
  /\ UNCHANGED <<flagVars, sets, intended, blurred>>

\* UpdateResource; after a conflict the object is read again, five times at most.
Update ==
  /\ op.at = "ready"
  /\ \/ ~op.stale /\ deployment' \in op.copy /\ op' = Resting
     \/ /\ op.stale /\ UNCHANGED deployment
        /\ \/ op' = Resting
           \/ op' = [op EXCEPT !.at = "read", !.copy = {}, !.stale = FALSE]
  /\ UNCHANGED <<flagVars, sets, intended, blurred>>

\* A call fails, the time of the tick is over, or the operator stops and restarts.
GiveUp ==
  /\ op # Resting /\ op' = Resting
  /\ Fault
  /\ UNCHANGED <<flag, config, list, toggle, announced, deployment, sets, intended, blurred>>

-----------------------------------------------------------------------------
Init ==
  /\ FlagInit
  /\ deployment = [release |-> 1, limit |-> FALSE, on |-> FALSE, rev |-> 1]
  /\ sets = {ReplicaSet(deployment, 1)}
  /\ op = Resting
  /\ intended = 1 /\ blurred = FALSE

Cluster == CatchUp \/ Deploy

Operator == Tick \/ Get \/ Prepare \/ Update \/ GiveUp

Next ==
  \/ FlagNext /\ UNCHANGED <<deployment, sets, op, intended, blurred>>
  \/ Cluster \/ Operator

Spec == Init /\ [][Next]_vars

\* The ticker goes on, and calls are answered.
Fairness ==
  /\ WF_vars(Tick) /\ WF_vars(Get) /\ WF_vars(Prepare) /\ WF_vars(Update)
  /\ WF_vars(CatchUp)

FairSpec == Spec /\ Fairness

-----------------------------------------------------------------------------
(* Properties                                                              *)

(* Every variable has its type.                                            *)
TypeOK ==
  /\ FlagTypeOK
  /\ Template(deployment) \in Templates
  /\ deployment.on \in BOOLEAN /\ deployment.rev \in Nat
  /\ \A r \in sets : Template(r) \in Templates /\ r.rev \in Nat
  /\ op.at \in {"idle", "read", "got", "ready"} /\ op.seen \in BOOLEAN /\ op.stale \in BOOLEAN
  /\ Cardinality(op.copy) <= 1
  /\ intended \in 1..MaxReleases /\ blurred \in BOOLEAN

(* The annotation tells whether the problem is applied, and neither        *)
(* applying it nor rolling it back loses a release: whatever conflicts,    *)
(* failures and restarts come in between, a rollback restores the template *)
(* that was there.  It relies on the revision: see blurred.                *)
ClusterMatches ==
  ~blurred => deployment.limit = deployment.on /\ deployment.release = intended

(* The cluster follows the flag: if the flag stays as it is, the problem   *)
(* is applied or rolled back in the end.                                   *)
FlagReachesCluster ==
  \A v \in BOOLEAN :
    (Enabled(flag) = v) ~> (deployment.on = v \/ Enabled(flag) # v)
=============================================================================
