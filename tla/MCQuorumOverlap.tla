-------------------------- MODULE MCQuorumOverlap --------------------------
(* Total weight 5, so f = 1 and a quorum is 3: the primary, of weight 1,   *)
(* forms a quorum with either backup, of weight 2.                         *)
EXTENDS DelegateConsensus, TLC

HeavyBackups == [d \in Delegates |-> IF d = Primary THEN 1 ELSE 2]
=============================================================================
