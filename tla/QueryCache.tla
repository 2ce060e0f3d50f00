----------------------------- MODULE QueryCache -----------------------------
(***************************************************************************)
(* One entry of the TanStack Query cache of the frontend: the value read   *)
(* last, whether it still counts as fresh, and the fetch in flight.  The   *)
(* library is modelled from how contexts/QueryContext uses it: queryKey    *)
(* without the user, staleTime 60 s, no polling, retries inside a fetch.   *)
(*                                                                         *)
(* A value tells whose data it is and which reading of it was taken.  A    *)
(* fetch tells for whom it asks and what the server has answered so far.   *)
(* Sets of at most one element stand for what may be missing.              *)
(***************************************************************************)
EXTENDS Naturals, FiniteSets

CONSTANTS
  Readers,     \* for whom data is read: the users, and Anyone for public data
  Readings     \* what the server may answer: a version of the data or a failure

Absent == [data |-> {}, fresh |-> FALSE, fetch |-> {}]

Value(r, v) == [owner |-> r, ver |-> v]

AtMostOne(S) == {{}} \cup {{x} : x \in S}

Entries ==
  [data  : AtMostOne([owner : Readers, ver : Readings]),
   fresh : BOOLEAN,
   fetch : AtMostOne([for : Readers, got : AtMostOne(Readings)])]

HasData(e) == e.data # {}

Fetching(e) == e.fetch # {}

\* What an entry shows, and what it asks for, belongs to r.
Concerns(e, r) ==
  /\ \A d \in e.data : d.owner = r
  /\ \A f \in e.fetch : f.for = r

Aged(e) == [e EXCEPT !.fresh = FALSE]

\* Start a fetch for r; whatever was in flight is forgotten.
Request(e, r) == [e EXCEPT !.fetch = {[for |-> r, got |-> {}]}]

\* Query.fetch without cancelRefetch: join the fetch in flight.
Join(e, r) == IF Fetching(e) THEN e ELSE Request(e, r)

\* ensureQueryData: any cached value will do, however old.
Ensure(e, r) == IF HasData(e) THEN e ELSE Join(e, r)

\* An observer is mounted, or the window gets the focus: refetch unless fresh.
Watch(e, r) == IF HasData(e) /\ e.fresh THEN e ELSE Join(e, r)

\* Mutants: a fetch in flight is never cancelled; a watched value is not read again.
InvalidateJoins(e, r, watched) ==
  IF watched THEN Join(Aged(e), r) ELSE Aged(e)

InvalidateMarks(e, r, watched) == Aged(e)

\* invalidateQueries: the value is stale, and a watched one is read again.
\* A fetch in flight is cancelled only when there is a value to go on showing.
Invalidate(e, r, watched) ==
  CASE ~watched              -> Aged(e)
    [] watched /\ HasData(e) -> Request(Aged(e), r)
    [] OTHER                 -> Join(Aged(e), r)

\* The server has answered the fetch in flight with reading v.
Served(e, v) == [e EXCEPT !.fetch = {[for |-> f.for, got |-> {v}] : f \in @}]

\* The answer to f lands: the entry is fresh, even if invalidated meanwhile.
Landed(f) ==
  [data |-> {Value(f.for, v) : v \in f.got}, fresh |-> TRUE, fetch |-> {}]

\* All retries failed: the old value stays, and stays as stale as it was.
GivenUp(e) == [e EXCEPT !.fetch = {}]
=============================================================================
