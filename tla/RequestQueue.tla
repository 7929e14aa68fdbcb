---------------------------- MODULE RequestQueue ----------------------------
(***************************************************************************)
(* The primary's internal queue (RequestInternalQueue): requests, each     *)
(* group of them closed by a delimiter, a null request.  The batch under   *)
(* way is the first group; its requests are the parameter batch.           *)
(***************************************************************************)
EXTENDS Integers, FiniteSets, Sequences, Functions

CONSTANT Requests

Null == "Null"

ASSUME RequestsAssumption == IsFiniteSet(Requests) /\ Null \notin Requests

Contains(q, r) == \E i \in 1..Len(q) : q[i] = r

(* The members of a finite set, in some order                              *)
Listed(S) == CHOOSE s \in [1..Cardinality(S) -> S] : IsInjective(s)

(* The sequences (one at least), one after the other                       *)
Joined(seqs) ==
    LET upto[i \in 1..Len(seqs)] == IF i = 1 THEN seqs[i] ELSE upto[i - 1] \o seqs[i]
    IN  upto[Len(seqs)]

(* The requests before the first delimiter and what follows them           *)
Delimiter(q) == CHOOSE k \in 1..Len(q) : q[k] = Null /\ \A j \in 1..(k - 1) : q[j] # Null
FirstGroup(q) == SubSeq(q, 1, Delimiter(q) - 1)
AfterGroup(q) == SubSeq(q, Delimiter(q), Len(q))

(* RequestMessageHandler::MoveToTarget *)
MoveToTarget(q, h) == q \o h \o <<Null>>

(* The sequence without the members of S *)
Without(q, S) ==
    LET kept[i \in 0..Len(q)] ==
            IF i = 0 THEN <<>>
            ELSE IF q[i] \in S THEN kept[i - 1]
            ELSE Append(kept[i - 1], q[i])
    IN  kept[Len(q)]

(* Mutant of WithoutBatch: one request is removed.                         *)
MutantWithoutBatch(batch, q) == Without(q, {batch[i] : i \in {1} \cap DOMAIN batch})

(* What PopFront leaves: the queue without the batch's requests.  It halts *)
(* unless a delimiter comes first, which it removes as well.               *)
WithoutBatch(batch, q) == Without(q, Range(batch))
CanPopFront(batch, q) == WithoutBatch(batch, q) # <<>> /\ Head(WithoutBatch(batch, q)) = Null
PopFront(batch, q) == Tail(WithoutBatch(batch, q))

(* Mutant of InsertFront: the first group is put in and the others not.    *)
MutantFirstGroupOnly(batch, groups, q) ==
    IF groups = <<>> THEN <<Null>> \o q
    ELSE Listed({batch[i] : i \in groups[1].requests}) \o <<Null>> \o q

(* The groups of re-proposable requests go to the front, each closed by a  *)
(* delimiter; a lone delimiter asks for an empty batch.                    *)
InsertFront(batch, groups, q) ==
    LET Closed(g) == Listed({batch[i] : i \in g.requests}) \o <<Null>>
    IN  IF groups = <<>> THEN <<Null>> \o q
        ELSE Joined([g \in 1..Len(groups) |-> Closed(groups[g])]) \o q
=============================================================================
