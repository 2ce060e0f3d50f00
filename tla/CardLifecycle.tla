--------------------------- MODULE CardLifecycle ----------------------------
(***************************************************************************)
(* What a customer is promised about a credit card order: it climbs one    *)
(* stage after another, one card is made for it before it is said to be    *)
(* made, and it has a shipping id before it is said to be shipped.  The id *)
(* may be replaced later, by that of a second parcel, but never taken back *)
(* and never given to an order whose card has not been made.               *)
(***************************************************************************)
EXTENDS Integers

CONSTANT OrderIds

VARIABLES
  stage,  \* how far each order has come
  made,   \* cards made for each order
  label   \* shipping id of each order, 0 while it has none

lifeVars == <<stage, made, label>>

Stages == 0..5  \* none, accepted, in work, made, shipped, delivered

LifeInit ==
  /\ stage = [o \in OrderIds |-> 0]
  /\ made = [o \in OrderIds |-> 0]
  /\ label = [o \in OrderIds |-> 0]

Climb(o, from, to) ==
  /\ stage[o] \in from
  /\ stage' = [stage EXCEPT ![o] = to]
  /\ UNCHANGED <<made, label>>

Accept(o) == Climb(o, {0}, 1)

StartWork(o) == Climb(o, {1}, 2)

MakeOne(o) ==
  /\ stage[o] \in {1, 2} /\ made[o] = 0
  /\ made' = [made EXCEPT ![o] = 1]
  /\ UNCHANGED <<stage, label>>

DeclareMade(o) == made[o] = 1 /\ Climb(o, {1, 2}, 3)

Label(o) ==
  /\ stage[o] >= 3
  /\ label'[o] # 0 /\ label' = [label EXCEPT ![o] = label'[o]]
  /\ UNCHANGED <<stage, made>>

Ship(o) == label[o] # 0 /\ Climb(o, {3}, 4)

Deliver(o) == Climb(o, {4}, 5)

LifeNext ==
  \E o \in OrderIds :
    \/ Accept(o) \/ StartWork(o) \/ MakeOne(o) \/ DeclareMade(o)
    \/ Label(o) \/ Ship(o) \/ Deliver(o)

LifeSpec == LifeInit /\ [][LifeNext]_lifeVars

=============================================================================
