---------------------------- MODULE MCBlockCache ----------------------------
(***************************************************************************)
(* Blocks for BlockCache.  Those of epoch 1 are a0, a1 of chain A, b0 of   *)
(* chain B, the micro block m1, its last one, and the epoch block e1;      *)
(* epoch 2 has the request block a2 and the micro block m2.  A request of  *)
(* a1 spends what the request rb of b0 sends.  The blocks c0, c1, c2 are   *)
(* another network's, which has one chain only.                            *)
(***************************************************************************)
EXTENDS BlockCache

CONSTANTS t1, t2

TwoEpochs == {"a0", "a1", "b0", "m1", "e1", "a2", "m2"}
OneChain == {"c0", "c1", "c2"}

MCBlocks == TwoEpochs \cup OneChain

MCKind == [b \in MCBlocks |->
    CASE b \in {"m1", "m2"} -> "M" [] b = "e1" -> "E" [] OTHER -> "R"]

MCEpoch == [b \in MCBlocks |-> IF b \in {"a2", "m2"} THEN 2 ELSE 1]

MCChain == [b \in MCBlocks |->
    CASE b \in {"a0", "a1", "a2"} \cup OneChain -> "A"
      [] b = "b0" -> "B"
      [] b \in {"m1", "m2"} -> "micro"
      [] OTHER -> "epoch"]

MCSequence == [b \in MCBlocks |-> CASE b \in {"a1", "m2", "c1"} -> 1 [] b = "c2" -> 2 [] OTHER -> 0]

MCPrevious == [b \in MCBlocks |->
    CASE b = "a1" -> "a0" [] b = "m2" -> "m1" [] b = "c1" -> "c0" [] b = "c2" -> "c1" [] OTHER -> None]

MCContent == [b \in MCBlocks |-> IF b = "b0" THEN <<"rb">> ELSE <<>>]

MCNeeds == [b \in MCBlocks |->
    CASE b = "a1" -> {"rb"}
      [] b = "m1" -> {"a1", "b0"}
      [] b = "e1" -> {"m1"}
      [] b = "m2" -> {"a2", "b0"}
      [] OTHER -> {}]

MCLastMicro == {"m1"}

(* The epoch block arrives when the request blocks of its epoch are stored *)
(* and the next epoch's micro block when the epoch block is.               *)
MCArrivesAfter == [b \in MCBlocks |->
    CASE b = "e1" -> {"a0", "a1", "b0"} [] b = "m2" -> {"e1"} [] OTHER -> {}]

OneThread == [threads |-> {t1}, blocks |-> TwoEpochs, consensus |-> {}]

(* A delegate that agrees on c0 and then falls behind, so that it hears of *)
(* the others over p2p only.                                               *)
FallsBehind == [threads |-> {t1, t2}, blocks |-> OneChain, consensus |-> {"c0"}]

BothSettings == {OneThread, FallsBehind}

TwoThreads == {[threads |-> {t1, t2}, blocks |-> {"c0", "c1"}, consensus |-> {}]}
=============================================================================
