------------------------- MODULE MCGenerateSubsets -------------------------
(* The sessions of MCRequestRejection, and beside them GenerateSubsets on  *)
(* every input of a size that its sessions of two requests do not reach:   *)
(* N requests, the backups that support each of them, and the requests     *)
(* that have enough support with those who prepared the whole batch.       *)
EXTENDS MCRequestRejection

CONSTANT N

ASSUME NAssumption == N \in Nat

VARIABLE call    \* the last call of GenerateSubsets, with its result

Inputs == [enough : SUBSET (1..N), support : [1..N -> SUBSET Backups]]
NoCall == [enough |-> {}, support |-> <<>>, groups |-> <<>>, defined |-> TRUE]

Call(i) ==
    LET found == Subsets(N, i.enough, i.support)
    IN  [enough |-> i.enough, support |-> i.support, groups |-> found.groups, defined |-> found.defined]

SubsetsInit == Init /\ call = NoCall

SubsetsNext ==
    /\ call = NoCall
    /\ \/ Next /\ UNCHANGED call
       \/ /\ setting = CHOOSE s \in Settings : TRUE
          /\ unsent = Requests
          /\ \E i \in Inputs : call' = Call(i)
          /\ UNCHANGED vars

SubsetsSpec == SubsetsInit /\ [][SubsetsNext]_<<vars, call>>

(* Whenever GenerateSubsets returns, the requests with enough support are  *)
(* in its groups, each in exactly one, no two groups have the same         *)
(* delegates, and every delegate listed with a group supports all of its   *)
(* requests: the batches built from the groups can all reach a quorum, and *)
(* none repeats a request of another.                                      *)
SubsetsCorrect ==
    LET groups == call.groups
    IN  call.defined =>
            /\ UNION {g.requests : g \in Range(groups)} = call.enough
            /\ \A g, h \in DOMAIN groups :
                  groups[g].requests \cap groups[h].requests # {} \/ groups[g].delegates = groups[h].delegates
                      => g = h
            /\ \A g \in Range(groups) : \A r \in g.requests : g.delegates \subseteq call.support[r]
=============================================================================
