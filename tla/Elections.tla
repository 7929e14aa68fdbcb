----------------------------- MODULE Elections -----------------------------
(***************************************************************************)
(* Candidates, their votes and the delegates they become: the candidate    *)
(* tables of blockstore.cpp, candidate.cpp, epoch_voting_manager.cpp, and  *)
(* TransitionCandidatesDBNextEpoch of epoch_persistence.cpp.               *)
(*                                                                         *)
(* Besides the fields of Staking the database record has                   *)
(*   candidates  candidacy_db: account -> CandidateInfo or NoCandidate     *)
(*   leading     leading_candidates_db: the best of this epoch, copied     *)
(*   min_leading the worst of them, as the node remembers it               *)
(*   remove_candidates  who leaves candidacy_db with the next epoch block  *)
(*   ebs         the epoch blocks, the tip last; a block has a sequence of *)
(*               delegates [account, starting_term, raw_stake]             *)
(* and a RepInfo has its candidacy action and the action's epoch.  The     *)
(* sort and the redistribution of voting weights that end                  *)
(* GetNextEpochDelegates are left out: no operator here reads a weight.    *)
(***************************************************************************)
EXTENDS Staking, FiniteSets, FiniteSetsExt

CONSTANTS
    NoCandidate,
    NumDelegates,       \* NUM_DELEGATES, a multiple of TermLength
    TermLength,         \* TERM_LENGTH
    StartElections      \* START_ELECTIONS_EPOCH

NumElects == NumDelegates \div TermLength

-----------------------------------------------------------------------------
(***************************************************************************)
(* Leading candidates                                                      *)
(***************************************************************************)

\* The hash that breaks a tie is the account.
IsGreater(a, x, b, y) ==
    \/ x.votes > y.votes
    \/ x.votes = y.votes /\ x.cur_stake > y.cur_stake
    \/ x.votes = y.votes /\ x.cur_stake = y.cur_stake /\ a > b

SyncLeadingCandidates(db) ==
    LET worst == CHOOSE a \in DOMAIN db.leading : \A b \in DOMAIN db.leading \ {a} :
                    IsGreater(b, db.leading[b], a, db.leading[a])
    IN  [db EXCEPT !.min_leading = [account |-> worst, info |-> db.leading[worst]]]

LeadingPut(db, accounts, a, info) ==
    [db EXCEPT !.leading = [c \in accounts |-> IF c = a THEN info ELSE @[c]]]

IsFull(db) == Cardinality(DOMAIN db.leading) = NumElects

\* Mutant of UpdateLeadingCandidates: the minimum is not looked for again
\* when it is the minimum that changes.
UpdateLeadingUnsynced(db, a, info) ==
    LET led == DOMAIN db.leading
        joined == LeadingPut(db, led \cup {a}, a, info)
    IN  IF a \in led THEN LeadingPut(db, led, a, info)
        ELSE IF ~IsFull(db) THEN IF IsFull(joined) THEN SyncLeadingCandidates(joined) ELSE joined
        ELSE IF IsGreater(a, info, db.min_leading.account, db.min_leading.info)
        THEN SyncLeadingCandidates(LeadingPut(db, (led \ {db.min_leading.account}) \cup {a}, a, info))
        ELSE db

UpdateLeadingCandidates(db, a, info) ==
    LET led == DOMAIN db.leading
        updated == LeadingPut(db, led, a, info)
        joined == LeadingPut(db, led \cup {a}, a, info)
    IN  IF a \in led
        THEN IF IsFull(db) /\ db.min_leading.account = a
             THEN SyncLeadingCandidates(updated) ELSE updated
        ELSE IF ~IsFull(db)
        THEN IF IsFull(joined) THEN SyncLeadingCandidates(joined) ELSE joined
        ELSE IF IsGreater(a, info, db.min_leading.account, db.min_leading.info)
        THEN SyncLeadingCandidates(LeadingPut(db, (led \ {db.min_leading.account}) \cup {a}, a, info))
        ELSE db

CandidatePut(db, a, info) ==
    UpdateLeadingCandidates([db EXCEPT !.candidates[a] = info], a, info)

\* CandidateInfo::TransitionIfNecessary
CandidateTransition(info, epoch) ==
    IF epoch > info.epoch_modified
    THEN [info EXCEPT !.cur_stake = info.next_stake, !.epoch_modified = epoch, !.votes = 0]
    ELSE info

CandidateAddVote(db, a, weighted_vote, epoch) ==
    IF db.candidates[a] = NoCandidate
    THEN Halt(db)
    ELSE CandidatePut(db, a, [CandidateTransition(db.candidates[a], epoch)
                                EXCEPT !.votes = @ + weighted_vote])

CandidateInfo(cur_stake, next_stake, epoch) ==
    [votes |-> 0, cur_stake |-> cur_stake, next_stake |-> next_stake, epoch_modified |-> epoch]

-----------------------------------------------------------------------------
(***************************************************************************)
(* Epoch blocks                                                            *)
(***************************************************************************)

\* epoch_get_n, without and with the filter that skips extensions.
EpochGetN(db, n) == db.ebs[Len(db.ebs) - n]

EpochGetTerm(db, n) ==
    LET terms == SelectSeq(db.ebs, LAMBDA b : ~b.is_extension)
    IN  terms[Len(terms) - n]

AccountsOf(delegates) == {delegates[i].account : i \in DOMAIN delegates}

Starting(block) == {d \in Range(block.delegates) : d.starting_term}

IsDelegateNextEpoch(db, a) == a \in AccountsOf(EpochGetN(db, 0).delegates)

ShouldForceRetire(next) == next > StartElections /\ next <= StartElections + TermLength

\* In the first term the delegates that were there when elections began
\* retire, a group at a time in the order of their seats.
GetDelegatesToForceRetire(db, next) ==
    LET ago == next - StartElections - 1
    IN  Range(SubSeq(EpochGetN(db, ago).delegates, ago * NumElects + 1, (ago + 1) * NumElects))

GetRetiringDelegates(db, next) ==
    IF ShouldForceRetire(next) THEN GetDelegatesToForceRetire(db, next)
    ELSE IF next > StartElections
    THEN {[d EXCEPT !.starting_term = FALSE] : d \in Starting(EpochGetTerm(db, TermLength - 1))}
    ELSE {}

\* The winners in the order of their keys.
GetDelegateElects(db, next) ==
    IF next > StartElections
    THEN LET winners == SetToSortSeq(DOMAIN db.leading, <)
         IN  [i \in DOMAIN winners |->
                [account |-> winners[i], starting_term |-> TRUE,
                 raw_stake |-> db.leading[winners[i]].cur_stake]]
    ELSE <<>>

\* The block, and whether every check and index on the way is right.
GetNextEpochDelegates(db, next) ==
    LET num_new == IF next > StartElections THEN NumElects ELSE 0
        previous == EpochGetN(db, 0).delegates
        retiring_dels == GetRetiringDelegates(db, next)
        retiring == {d.account : d \in retiring_dels}
        elects == GetDelegateElects(db, next)
        extend == Len(elects) # num_new
        leaves(i) == previous[i].account \in retiring
        seats == {i \in DOMAIN previous : leaves(i)}
        found == {i \in DOMAIN previous : previous[i] \in retiring_dels}
        seat(i) == IF ~leaves(i) THEN [previous[i] EXCEPT !.starting_term = FALSE]
                   ELSE IF extend
                   THEN [previous[i] EXCEPT !.starting_term = ShouldForceRetire(next)]
                   ELSE elects[Cardinality({j \in seats : j <= i})]
        ok == /\ Cardinality(found) = num_new
              /\ ~extend => Cardinality(retiring) = num_new /\ Cardinality(seats) = num_new
    IN  [ok |-> ok,
         block |-> [is_extension |-> extend /\ ~ShouldForceRetire(next),
                    delegates |-> IF ok THEN [i \in DOMAIN previous |-> seat(i)] ELSE previous]]

-----------------------------------------------------------------------------
(***************************************************************************)
(* Applying an epoch block                                                 *)
(***************************************************************************)

\* The delegates in the last epoch of their term stand again, unless they
\* have renounced.
AddReelectionCandidates(db, next) ==
    LET again == {d.account : d \in Starting(EpochGetTerm(db, TermLength - 1))}
        add(x, a) ==
            IF x.reps[a] = NoRep \/ x.reps[a].candidacy # "AnnounceCandidacy" THEN x
            ELSE IF x.power[a] = NoInfo THEN Halt(x)
            ELSE LET i == Transitioned(x.power[a], next)
                 IN  CandidatePut(GetVotingPowerInfo(x, a, next), a,
                                  CandidateInfo(i.current["self_stake"], i.next["self_stake"],
                                                x.reps[a].candidacy_epoch))
    IN  FoldLeft(add, db, SetToSeq(again))

MarkDelegateElectsAsRemove(db) ==
    [db EXCEPT !.remove_candidates =
        @ \cup {d.account : d \in Starting(EpochGetN(db, 0))}]

\* Whoever is removed must be there.
UpdateCandidatesDB(db) ==
    IF \E a \in db.remove_candidates : db.candidates[a] = NoCandidate
    THEN Halt(db)
    ELSE [db EXCEPT !.candidates =
              [a \in DOMAIN @ |-> IF a \in db.remove_candidates THEN NoCandidate ELSE @[a]],
                    !.remove_candidates = {},
                    !.leading = << >>]

\* Mutant of TransitionCandidatesDBNextEpoch: the elected stay candidates.
TransitionKeepsElects(db, next) ==
    UpdateCandidatesDB(IF next >= StartElections THEN AddReelectionCandidates(db, next) ELSE db)

TransitionCandidatesDBNextEpoch(db, next) ==
    LET added == IF next >= StartElections THEN AddReelectionCandidates(db, next) ELSE db
        marked == IF next > StartElections THEN MarkDelegateElectsAsRemove(added) ELSE added
    IN  UpdateCandidatesDB(marked)
=============================================================================
