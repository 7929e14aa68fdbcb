------------------------ MODULE MCDelegateConsensus ------------------------
(* Instances of DelegateConsensus for TLC: three delegates, one of them    *)
(* with twice the votes of the others.                                     *)
EXTENDS DelegateConsensus

(* Total 4, so f = 1 and a quorum is 3: the primary with the backup that   *)
(* keeps its memory, or everyone.                                          *)
SteadyBackup == [d \in Delegates |-> IF d \in {Primary} \cup Crashable THEN 1 ELSE 2]

(* The hypothesis of the agreement theorem, for this instance              *)
ASSUME \A Q, R \in SUBSET Delegates :
           Primary \in Q /\ Primary \in R /\ ReachedQuorum(Q) /\ ReachedQuorum(R)
               => (Q \cap R) \ Crashable # {}

(* Bound: at most one of the delegates that can restart has stored blocks. *)
OneStore == \E d \in Stores : \A c \in Stores \ {d} : stored[c] = {}
=============================================================================
