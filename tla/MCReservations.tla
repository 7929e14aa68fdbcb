--------------------------- MODULE MCReservations ---------------------------
(***************************************************************************)
(* An instance of Reservations: three delegates, whose weights change with *)
(* the epoch, and requests of two accounts.  a1 and a2 send tokens of the  *)
(* account A at the same place of its chain; b1, of the token's account B, *)
(* revokes tokens of A and so conflicts with both.                         *)
(***************************************************************************)
EXTENDS Reservations, TLC

CONSTANTS d1, d2, d3, a1, a2, b1

MCDelegates == {d1, d2, d3}

MCRequests == {a1, a2, b1}

MCSent == [d \in MCDelegates |-> CASE d = d1 -> {a1} [] d = d2 -> {a2, b1} [] OTHER -> {}]

MCKeys == {"A", "B", "share of A"}

MCAccount == a1 :> "A" @@ a2 :> "A" @@ b1 :> "B"

MCReserves == a1 :> {"A", "share of A"} @@ a2 :> {"A", "share of A"} @@ b1 :> {"B", "share of A"}

MCPrevious == [r \in MCRequests |-> NoRequest]

MCEpochs == 1 .. 3

\* The weights of an epoch, of which votes and stakes are alike, and its quorums.
Weights(e) ==
    IF e = 1 THEN d1 :> 2 @@ d2 :> 1 @@ d3 :> 1
    ELSE d1 :> 3 @@ d2 :> 3 @@ d3 :> 1

Of(e) == INSTANCE DelegateWeights
             WITH Delegates <- MCDelegates, VoteWeight <- Weights(e), StakeWeight <- Weights(e)

AllQuorums == [e \in MCEpochs |-> {Q \in SUBSET MCDelegates : Of(e)!ReachedQuorum(Q)}]

MCQuorums == AllQuorums
=============================================================================
