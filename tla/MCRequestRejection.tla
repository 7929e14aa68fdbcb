------------------------ MODULE MCRequestRejection -------------------------
(* Instances of RequestRejection for TLC: four delegates of equal weight   *)
(* and the disagreements about requests that a run is about.               *)
EXTENDS RequestRejection

CONSTANTS d1, d2, d3

UnitWeight == [d \in Delegates |-> 1]

AnySubset == SUBSET Requests

View(p, a, b, c) == [d \in Delegates |-> CASE d = d1 -> a [] d = d2 -> b [] d = d3 -> c [] OTHER -> p]

Everyone == {View({}, a, b, c) : a, b, c \in SUBSET Requests}
Sorted == {v \in Everyone : Cardinality(v[d1]) <= Cardinality(v[d2]) /\ Cardinality(v[d2]) <= Cardinality(v[d3])}
PrimaryToo == Sorted \cup {[v EXCEPT ![Primary] = {r}] : v \in Sorted, r \in Requests}

(* One backup accepts all, each of the others doubts another request.      *)
Split == {CHOOSE v \in Everyone : v[d1] = {} /\ Cardinality(v[d2]) = 1 /\ v[d3] = Requests \ v[d2]}
OneDoubt == {v \in Everyone : v[d1] = {} /\ v[d2] = {} /\ Cardinality(v[d3]) = 1}

With(views, timeouts) == {[invalid |-> v, timeouts |-> timeouts] : v \in views}

Disagreements == With(PrimaryToo, "never") \cup With(OneDoubt, "quiet")
SplitTimeouts == With(Split, "quiet")
=============================================================================
