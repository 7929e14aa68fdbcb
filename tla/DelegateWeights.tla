-------------------------- MODULE DelegateWeights --------------------------
(***************************************************************************)
(* Voting weights and quorums of one epoch's delegates                     *)
(* (logos/consensus/primary_delegate.cpp).  Every delegate carries a vote  *)
(* and a stake; a set of delegates is a quorum when it reaches both        *)
(* thresholds.                                                             *)
(***************************************************************************)
EXTENDS Integers, FiniteSets, FiniteSetsExt

CONSTANTS Delegates,      \* the delegates of the epoch
          VoteWeight,     \* [Delegates -> Nat]
          StakeWeight     \* [Delegates -> Nat]

(* Mutant of MaxFault: half of the weight may fail. *)
MutantMaxFault(total) == (total - 1) \div 2

(* SetQuorum *)
MaxFault(total) == (total - 1) \div 3

(* Mutant of Quorum: one unit short. *)
MutantQuorum(total) == 2 * MaxFault(total)

Quorum(total) == 2 * MaxFault(total) + 1

Weight(w, S) == MapThenSumSet(LAMBDA d : w[d], S)

VoteTotal == Weight(VoteWeight, Delegates)
StakeTotal == Weight(StakeWeight, Delegates)

(* Mutant of ReachedQuorum: either threshold is enough. *)
MutantReachedQuorum(S) ==
    \/ Weight(VoteWeight, S) >= Quorum(VoteTotal)
    \/ Weight(StakeWeight, S) >= Quorum(StakeTotal)

(* ReachedQuorum, ValidateQuorum: the delegates of S reach both quorums.   *)
ReachedQuorum(S) ==
    /\ Weight(VoteWeight, S) >= Quorum(VoteTotal)
    /\ Weight(StakeWeight, S) >= Quorum(StakeTotal)
=============================================================================
