-------------------------- MODULE GenerateSubsets --------------------------
(***************************************************************************)
(* RequestConsensusManager::GenerateSubsets (request/generate_subsets.ipp).*)
(* When some delegates reject some requests of a batch, the requests that  *)
(* still have a quorum are grouped, each group with the delegates that     *)
(* support all of it, and every group is proposed as a batch of its own.   *)
(*                                                                         *)
(* The std::list of groups is a sequence; the iterators a and b are        *)
(* positions in it and Len + 1 is end().                                   *)
(***************************************************************************)
EXTENDS Integers, FiniteSets, Sequences

(* Request i, supported by who, joins the group with exactly these         *)
(* delegates or opens a new one.                                           *)
AddToGroup(groups, i, who) ==
    IF \E g \in 1..Len(groups) : groups[g].delegates = who
    THEN LET g == CHOOSE g \in 1..Len(groups) : groups[g].delegates = who
         IN  [groups EXCEPT ![g].requests = @ \cup {i}]
    ELSE Append(groups, [delegates |-> who, requests |-> {i}])

(* The first loop: the requests of a batch of n that have enough support.  *)
Collect(n, enough, support) ==
    LET groups[i \in 0..n] ==
            IF i = 0 THEN <<>>
            ELSE IF i \in enough THEN AddToGroup(groups[i - 1], i, support[i])
            ELSE groups[i - 1]
    IN  groups[n]

(* One of the two groups is supported by all who support the other.        *)
Nested(x, y) ==
    IF Cardinality(x.delegates) > Cardinality(y.delegates)
    THEN y.delegates \subseteq x.delegates
    ELSE x.delegates \subseteq y.delegates

(* Mutant of Merge: the larger set of delegates is kept.                   *)
MutantMerge(x, y) ==
    [delegates |-> x.delegates \cup y.delegates, requests |-> x.requests \cup y.requests]

(* Nested groups become one, with the smaller set of delegates.            *)
Merge(x, y) ==
    [delegates |-> IF Cardinality(x.delegates) > Cardinality(y.delegates)
                   THEN y.delegates ELSE x.delegates,
     requests  |-> x.requests \cup y.requests]

(* subsets.erase: the list without its element i                           *)
Erase(s, i) == SubSeq(s, 1, i - 1) \o SubSeq(s, i + 1, Len(s))

(* One turn of the second loop.  After a merge b is erased and set to its  *)
(* successor, and the loop increments it once more: the successor is       *)
(* skipped, and if it is end() the behaviour of the program is undefined.  *)
Ended(s) == ~s.defined \/ s.a > Len(s.groups)

Turn(s) ==
    LET merged == Erase([s.groups EXCEPT ![s.a] = Merge(@, s.groups[s.b])], s.b)
    IN  CASE Ended(s) -> s
          [] ~Ended(s) /\ s.b > Len(s.groups) -> [s EXCEPT !.a = @ + 1, !.b = s.a + 2]
          [] ~Ended(s) /\ s.b <= Len(s.groups) ->
                IF Nested(s.groups[s.a], s.groups[s.b])
                THEN [s EXCEPT !.groups = merged, !.b = @ + 1, !.defined = s.b <= Len(merged)]
                ELSE [s EXCEPT !.b = @ + 1]

(* The second loop has ended after as many turns as there are pairs.       *)
MergeNested(initial) ==
    LET loop[i \in 0..(Len(initial) * Len(initial))] ==
            IF i = 0 THEN [groups |-> initial, a |-> 1, b |-> 2, defined |-> TRUE]
            ELSE Turn(loop[i - 1])
    IN  loop[Len(initial) * Len(initial)]

Subsets(n, enough, support) == MergeNested(Collect(n, enough, support))
=============================================================================
