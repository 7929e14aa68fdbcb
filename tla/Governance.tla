----------------------------- MODULE Governance -----------------------------
(***************************************************************************)
(* Requests that move funds, stake, voting power and votes, from validation*)
(* to the database, across epoch boundaries: request_persistence.cpp and   *)
(* the epoch block of epoch_persistence.cpp, on top of VotingPower,        *)
(* Staking, Elections, Rewards and Tokens.                                 *)
(*                                                                         *)
(* A request is validated in the epoch it names and applied when consensus *)
(* on its block ends, possibly after the next epoch has begun; meanwhile   *)
(* its account is reserved.  One account's requests are therefore applied  *)
(* in order and different accounts' requests in any order.  Elections are  *)
(* enabled (ENABLE_ELECTIONS).                                             *)
(***************************************************************************)
EXTENDS Tokens

CONSTANTS
    Accounts,           \* positive numbers
    Scenarios,          \* name -> [start, last: the epochs of a behaviour,
                        \*  max: how many requests are submitted,
                        \*  genesis: the database it starts from,
                        \*  requests: what clients may submit, each with the
                        \*  epochs it may be submitted in]
    Fee,
    MinRepStake,        \* MIN_REP_STAKE
    MinDelegateStake,   \* MIN_DELEGATE_STAKE
    LevyPercentage,     \* of every new representative
    NewLogos            \* what an epoch block mints

VARIABLES
    store,             \* the database
    cur_epoch,          \* the current epoch
    eb,             \* epoch_tip: number of the last epoch block
    pending,        \* validated requests with the epoch they name
    submitted,      \* how many requests were validated
    scenario,       \* which of the scenarios this behaviour is
    snap,           \* history: voting power per representative and epoch
    held            \* history: stake per epoch and account

vars == <<store, cur_epoch, eb, pending, submitted, scenario, snap, held>>

EpochsFrom(start) == (start - 1) .. (start + 4)

Epochs == EpochsFrom(Scenarios[scenario].start)

IsDeadPeriod(e) == eb + 2 = e

-----------------------------------------------------------------------------
(***************************************************************************)
(* Validation                                                              *)
(***************************************************************************)

IsRep(a) == store.reps[a] # NoRep

\* ValidateStake of the requests that may set the stake of their origin.
CanSetStake(r) ==
    r.set_stake => ValidateStake(store, r.origin, r.amount, r.origin, cur_epoch, Fee)

HasMinGovernanceStake(r) ==
    LET min == IF r.type = "AnnounceCandidacy" /\ MinDelegateStake > MinRepStake
               THEN MinDelegateStake ELSE MinRepStake
    IN  IF r.set_stake THEN r.amount >= min
        ELSE store.stake[r.origin] # NoStake /\ store.stake[r.origin].amount >= min

ValidateStartRepresenting(r) ==
    /\ ~IsDeadPeriod(cur_epoch)
    /\ IsRep(r.origin) => /\ store.reps[r.origin].action = "StopRepresenting"
                          /\ store.reps[r.origin].epoch # cur_epoch
    /\ HasMinGovernanceStake(r)
    /\ CanSetStake(r)

ValidateStopRepresenting(r) ==
    LET rep == store.reps[r.origin]
    IN  /\ ~IsDeadPeriod(cur_epoch)
        /\ IsRep(r.origin)
        /\ rep.epoch # cur_epoch
        /\ rep.action # "StopRepresenting"
        /\ rep.candidacy # "None" => /\ rep.candidacy_epoch # cur_epoch
                                     /\ rep.candidacy # "AnnounceCandidacy"
        /\ ~IsDelegateNextEpoch(store, r.origin)
        /\ CanSetStake(r)

MaxVotes == 8

\* Who has announced before this epoch, or renounces in it, can be voted for.
IsActiveCandidate(a) ==
    /\ store.candidates[a] # NoCandidate
    /\ IF store.reps[a].candidacy = "AnnounceCandidacy"
       THEN store.reps[a].candidacy_epoch # cur_epoch
       ELSE store.reps[a].candidacy_epoch >= cur_epoch

ValidateElectionVote(r) ==
    /\ cur_epoch >= StartElections
    /\ ~IsDeadPeriod(cur_epoch)
    /\ IsRep(r.origin)
    /\ IF store.reps[r.origin].action = "StopRepresenting"
       THEN store.reps[r.origin].epoch >= cur_epoch
       ELSE store.reps[r.origin].epoch # cur_epoch
    /\ store.reps[r.origin].vote # cur_epoch
    /\ \A a \in DOMAIN r.votes : IsActiveCandidate(a)
    /\ SumFunction(r.votes) <= MaxVotes

ValidateAnnounceCandidacy(r) ==
    LET rep == store.reps[r.origin]
    IN  /\ ~IsDeadPeriod(cur_epoch)
        /\ cur_epoch >= StartElections - 1
        /\ IsRep(r.origin) => /\ rep.epoch # cur_epoch
                              /\ rep.candidacy # "AnnounceCandidacy"
                              /\ rep.candidacy = "RenounceCandidacy" => rep.candidacy_epoch # cur_epoch
        /\ HasMinGovernanceStake(r)
        /\ CanSetStake(r)

ValidateRenounceCandidacy(r) ==
    /\ ~IsDeadPeriod(cur_epoch)
    /\ IsRep(r.origin)
    /\ store.reps[r.origin].candidacy = "AnnounceCandidacy"
    /\ store.reps[r.origin].candidacy_epoch # cur_epoch
    /\ HasMinGovernanceStake(r)
    /\ CanSetStake(r)

ValidateProxy(r) ==
    /\ r.target # r.origin
    /\ IsRep(r.origin) => store.reps[r.origin].action = "StopRepresenting"
    /\ IsRep(r.target)
    /\ store.reps[r.target].action # "StopRepresenting"
    /\ ValidateStake(store, r.origin, r.amount, r.target, cur_epoch, Fee)

ValidateSelfStake(r) ==
    /\ store.accounts[r.origin].new_rep.rep = NoAccount
    /\ IsRep(r.origin) /\ store.reps[r.origin].action # "StopRepresenting" =>
          r.amount >= MinRepStake
    /\ ValidateStake(store, r.origin, r.amount, r.origin, cur_epoch, Fee)

ValidateUnstake(r) ==
    /\ store.accounts[r.origin].new_rep.rep = NoAccount
    /\ IsRep(r.origin) => store.reps[r.origin].action = "StopRepresenting"

TokenTypes == AdminTypes \cup {"Issuance", "TokenSend"}

\* The fee of an Issuance holds the first logos of the token account; only
\* votes are free.
RequestFee(r) ==
    CASE r.type = "Issuance" -> Fee + r.args.grant
      [] r.type = "ElectionVote" -> 0
      [] OTHER -> Fee

\* Request::GetLogosTotal
GetLogosTotal(r) == RequestFee(r) + IF r.type = "Send" THEN r.amount ELSE 0

GetAvailableBalance(a) ==
    CASE a # TokenId -> store.accounts[a].available + GetPruneableThawingAmount(store, a, cur_epoch)
      [] a = TokenId /\ store.token # NoToken -> store.token.balance
      [] OTHER -> 0

ValidateRequest(r) ==
    /\ GetLogosTotal(r) <= GetAvailableBalance(GetAccount(r))
    /\ CASE r.type = "Send" -> TRUE
         [] r.type = "Proxy" -> ValidateProxy(r)
         [] r.type = "Stake" -> ValidateSelfStake(r)
         [] r.type = "Unstake" -> ValidateUnstake(r)
         [] r.type = "StartRepresenting" -> ValidateStartRepresenting(r)
         [] r.type = "StopRepresenting" -> ValidateStopRepresenting(r)
         [] r.type = "ElectionVote" -> ValidateElectionVote(r)
         [] r.type = "AnnounceCandidacy" -> ValidateAnnounceCandidacy(r)
         [] r.type = "RenounceCandidacy" -> ValidateRenounceCandidacy(r)
         [] r.type = "Claim" -> ValidateClaim(store, r.origin, r.claim, eb)
         [] r.type \in TokenTypes -> ValidateToken(store, r)

\* A request passes ValidateAndUpdate and its account is reserved.
Validate(r) ==
    /\ submitted < Scenarios[scenario].max
    /\ cur_epoch \in r.epochs
    /\ \A p \in pending : Reserves(p.request) \cap Reserves(r) = {}
    /\ ValidateRequest(r)
    /\ pending' = pending \cup {[request |-> r, epoch |-> cur_epoch]}
    /\ submitted' = submitted + 1
    /\ UNCHANGED <<store, cur_epoch, eb, scenario, snap, held>>

-----------------------------------------------------------------------------
(***************************************************************************)
(* Application                                                             *)
(***************************************************************************)

RepInfo(action, e) ==
    [action |-> action, epoch |-> e, vote |-> NeverVoted, levy |-> LevyPercentage,
     candidacy |-> IF action = "AnnounceCandidacy" THEN action ELSE "None", candidacy_epoch |-> e]

\* SetBalance of an account of either kind.
AddBalance(d, a, n, e) ==
    IF a = TokenId THEN [d EXCEPT !.token.balance = @ + n]
    ELSE SetBalance(d, a, d.accounts[a].balance + n, e)

ApplySend(d, r, e) ==
    AddBalance(AddBalance(d, GetAccount(r), 0 - r.amount, e), r.target, r.amount, e)

ApplyStopRepresenting(d, r, e) ==
    [d EXCEPT !.reps[r.origin].action = "StopRepresenting",
              !.reps[r.origin].epoch = e,
              !.remove_reps = @ \cup {r.origin}]

\* The weighted votes are added to the candidates, and the representative is
\* entitled to rewards by the stakes its record shows when it has been read.
ApplyElectionVote(d, r, e) ==
    LET rep == r.origin
        read == GetCurrentVotingPower([d EXCEPT !.reps[rep].vote = e], rep, e)
        add(x, a) == CandidateAddVote(x, a, r.votes[a] * read.power, e)
        counted == FoldLeft(add, read.db, SetToSeq(DOMAIN r.votes))
        s == counted.power[rep].current
    IN  IF read.db.halted THEN read.db
        ELSE [InitRewards(counted, rep, e, d.reps[rep].levy,
                          s["self_stake"] + s["locked_proxied"], s["self_stake"])
                EXCEPT !.votes = @ \cup {[rep |-> rep, epoch |-> e, power |-> read.power,
                                          votes |-> r.votes]}]

\* A delegate that announces again stands at once only in the last epoch of
\* its term.  In an earlier epoch the search for its term runs past the end
\* of the delegates, since its loop tests the index of the outer loop.
ApplyAnnounceCandidacy(d, r, e) ==
    LET a == r.origin
        known == IF d.reps[a] = NoRep THEN RepInfo("AnnounceCandidacy", e)
                 ELSE [d.reps[a] EXCEPT !.candidacy = "AnnounceCandidacy", !.candidacy_epoch = e]
        next_stake == IF r.set_stake THEN r.amount ELSE d.stake[a].amount
        announced == [d EXCEPT !.reps[a] = known]
        last == \E x \in Starting(EpochGetN(d, TermLength - 1)) : x.account = a
    IN  IF IsDelegateNextEpoch(d, a) /\ ~last THEN Halt(d)
        ELSE CandidatePut(announced, a, CandidateInfo(0, next_stake, e))

ApplyRenounceCandidacy(d, r, e) ==
    LET a == r.origin
        moved == CandidateTransition(d.candidates[a], e)
        info == IF r.set_stake THEN [moved EXCEPT !.next_stake = r.amount] ELSE moved
        put == IF d.candidates[a] = NoCandidate THEN d
               ELSE CandidatePut([d EXCEPT !.remove_candidates = @ \cup {a}], a, info)
    IN  [put EXCEPT !.reps[a].candidacy = "RenounceCandidacy",
                    !.reps[a].candidacy_epoch = e]

ApplyClaim(d, r, e) ==
    LET c == ProcessClaim(d, r.origin, r.claim)
    IN  Deposit(c.db, r.origin, c.sum, e)

GovernanceTypes ==
    {"Proxy", "Stake", "Unstake", "StartRepresenting", "StopRepresenting",
     "ElectionVote", "AnnounceCandidacy", "RenounceCandidacy"}

\* What a request that sets a stake does before; a staking request nothing.
BeforeStake(d, r, e) ==
    CASE r.type = "StartRepresenting" -> [d EXCEPT !.reps[r.origin] = RepInfo("StartRepresenting", e)]
      [] r.type = "StopRepresenting" -> ApplyStopRepresenting(d, r, e)
      [] r.type = "AnnounceCandidacy" -> ApplyAnnounceCandidacy(d, r, e)
      [] r.type = "RenounceCandidacy" -> ApplyRenounceCandidacy(d, r, e)
      [] OTHER -> d

\* Proxy stakes for its target, the others for their origin.
ApplyStake(d, r, e) ==
    IF r.type \in {"Proxy", "Stake", "Unstake"} \/ r.set_stake
    THEN Stake(d, r.origin, IF r.type = "Unstake" THEN 0 ELSE r.amount,
               IF r.type = "Proxy" THEN r.target ELSE r.origin, e)
    ELSE d

\* The part of ApplyRequest that depends on the type of the request.
ApplyType(d, r, e) ==
    CASE r.type \in {"Send", "WithdrawLogos"} -> ApplySend(d, r, e)
      [] r.type = "ElectionVote" -> ApplyElectionVote(d, r, e)
      [] r.type \in GovernanceTypes \ {"ElectionVote"} -> ApplyStake(BeforeStake(d, r, e), r, e)
      [] r.type = "Claim" -> ApplyClaim(d, r, e)
      [] r.type \in TokenTypes \ {"WithdrawLogos"} -> ApplyToken(d, r)

ApplyRequest(r, e) ==
    LET a == GetAccount(r)
        pruned == IF a = TokenId THEN store ELSE PruneThawing(store, a, e)
        charged == IF r.type = "ElectionVote" THEN pruned
                   ELSE OnFeeCollected(AddBalance(pruned, a, 0 - RequestFee(r), e), e, Fee)
        link == [type |-> r.type, epoch |-> e, target |-> r.target, amount |-> r.amount]
        linked == IF r.type \in GovernanceTypes
                  THEN [charged EXCEPT !.chain[r.origin] = Append(@, link)] ELSE charged
    IN  ApplyType(linked, r, e)

\* A transaction that reaches trace_and_halt is not committed.
Commit(d) == IF d.halted THEN Halt(store) ELSE d

\* History: the power of every epoch after e, from who represents whom in it.
RepAt(account, e) ==
    IF e >= account.new_rep.epoch_first_active THEN account.new_rep.rep ELSE account.old_rep.rep

\* What account a adds to the power of kind k of rep in epoch x.
Adds(d, a, rep, x, k) ==
    IF k = "unlocked_proxied"
    THEN IF RepAt(d.accounts[a], x) = rep THEN d.accounts[a].available ELSE 0
    ELSE IF d.stake[a] # NoStake /\ d.stake[a].target = rep /\ StakeKind(a, rep) = k
    THEN d.stake[a].amount ELSE 0

Recorded(d, e) ==
    LET changed == {a \in Accounts : \/ d.accounts[a] # store.accounts[a]
                                     \/ d.stake[a] # store.stake[a]}
    IN  [rep \in Accounts |-> [x \in Epochs |->
            IF x <= e THEN snap[rep][x]
            ELSE [k \in Kinds |->
                    FoldSet(LAMBDA a, n : n + Adds(d, a, rep, x, k) - Adds(store, a, rep, x, k),
                            snap[rep][x][k], changed)]]]

Apply(p) ==
    /\ p \in pending
    /\ store' = Commit(ApplyRequest(p.request, p.epoch))
    /\ pending' = pending \ {p}
    /\ snap' = Recorded(store', p.epoch)
    /\ held' = LET a == p.request.origin
               IN  [x \in Epochs |-> IF x > p.epoch THEN [held[x] EXCEPT ![a] = store'.stake[a]]
                                     ELSE held[x]]
    /\ UNCHANGED <<cur_epoch, eb, submitted, scenario>>

-----------------------------------------------------------------------------
(***************************************************************************)
(* Epochs                                                                  *)
(***************************************************************************)

\* UpdateThawing: what new delegates have been thawing freezes, and what
\* retired delegates have frozen begins to thaw.
UpdateThawingFunds(d, block, e) ==
    LET delegates == AccountsOf(block.delegates)
        retired == AccountsOf(EpochGetN(d, 0).delegates) \ delegates
        thaw(x, a) == SetExpirationOfFrozen(x, a, e + 2)
        freeze(x, a) == MarkThawingAsFrozen(x, a, e)
    IN  FoldLeft(freeze, FoldLeft(thaw, d, SetToSeq(retired)), SetToSeq(delegates))

UpdateRepresentativesDB(d) ==
    LET remove(x, a) == TryPrune([x EXCEPT !.reps[a] = NoRep], a)
    IN  [FoldLeft(remove, d, SetToSeq(d.remove_reps)) EXCEPT !.remove_reps = {}]

TransitionNextEpoch(d, next) == UpdateRepresentativesDB(TransitionCandidatesDBNextEpoch(d, next))

\* ApplyUpdates of the epoch block of epoch e; the links between the request
\* chains are left out.
ApplyEpochBlock(d, block, e) ==
    LET stored == [UpdateThawingFunds(d, block, e) EXCEPT !.ebs = Append(@, block)]
    IN  UpdateGlobalRewards(ApplyRewards(TransitionNextEpoch(stored, e + 1), e), e, NewLogos)

\* The epoch block of epoch eb + 1 is built and applied once the requests of
\* that epoch are applied.
EpochBlock ==
    /\ eb + 2 = cur_epoch
    /\ \A p \in pending : p.epoch = cur_epoch
    /\ LET e == eb + 1
           next == GetNextEpochDelegates(store, e + 1)
       IN  /\ store' = IF next.ok THEN Commit(ApplyEpochBlock(store, next.block, e)) ELSE Halt(store)
           /\ snap' = Recorded(store', e + 1)
    /\ eb' = eb + 1
    /\ UNCHANGED <<cur_epoch, pending, submitted, scenario, held>>

NextEpoch ==
    /\ cur_epoch < Scenarios[scenario].last
    /\ eb + 1 = cur_epoch
    /\ cur_epoch' = cur_epoch + 1
    /\ UNCHANGED <<store, eb, pending, submitted, scenario, snap, held>>

-----------------------------------------------------------------------------
Init ==
    /\ scenario \in DOMAIN Scenarios
    /\ store = Scenarios[scenario].genesis
    /\ cur_epoch = Scenarios[scenario].start
    /\ eb = Scenarios[scenario].start - 1
    /\ pending = {}
    /\ submitted = 0
    /\ snap = [a \in Accounts |-> [x \in Epochs |->
                  IF store.power[a] = NoInfo THEN ZeroSnapshot ELSE store.power[a].next]]
    /\ held = [x \in Epochs |-> store.stake]

Next ==
    /\ ~store.halted
    /\ \/ \E r \in Scenarios[scenario].requests : Validate(r)
       \/ \E p \in pending : Apply(p)
       \/ EpochBlock
       \/ NextEpoch

Spec == Init /\ [][Next]_vars

-----------------------------------------------------------------------------
(***************************************************************************)
(* Properties                                                              *)
(***************************************************************************)

Locked(a) ==
    (IF store.stake[a] = NoStake THEN 0 ELSE store.stake[a].amount)
      + FoldSet(LAMBDA t, n : t.amount + n, 0, store.thawing[a])

Balances(d) ==
    SumFunction([a \in Accounts |-> d.accounts[a].balance])
      + (IF d.token = NoToken THEN 0 ELSE d.token.balance)

\* Every unit of an account's balance is available, staked or thawing, once,
\* whatever mixture of staking, redelegation, thawing, freezing and pruning
\* produced the records; and what the accounts lose in fees, or an epoch block
\* mints, is in a pool until it comes back, to the last fraction, as delegates'
\* rewards, claims and dust.
FundsConserved ==
    /\ \A a \in Accounts :
          store.accounts[a].balance = store.accounts[a].available + Locked(a)
    /\ Unit * (Balances(store) + SumFunction(store.fee_pool)) + SumFunction(store.dust)
            + SumFunction([x \in DOMAIN store.global |-> store.global[x].remaining])
            + SumFunction([x \in DOMAIN store.rewards |-> store.rewards[x].remaining])
         = Unit * (Balances(Scenarios[scenario].genesis) + store.minted)

\* The two snapshots of a representative are the power of the epoch the
\* record was last moved to and of the epoch after it, even when updates of
\* the previous epoch arrive after updates of the current one.  (A record
\* pruned while nobody needed it comes back without a past, so the current
\* snapshot counts only for who may vote in its epoch.)
PowerWindow ==
    \A a \in Accounts :
        IF store.power[a] = NoInfo
        THEN \A x \in Epochs : x > cur_epoch => snap[a][x] = ZeroSnapshot
        ELSE LET i == store.power[a]
                 votes == /\ IsRep(a)
                          /\ store.reps[a].action = "StartRepresenting" =>
                                store.reps[a].epoch < i.epoch_modified
             IN  /\ votes => i.current = snap[a][i.epoch_modified]
                 /\ i.next = snap[a][i.epoch_modified + 1]
                 /\ \A x \in Epochs : x > i.epoch_modified => snap[a][x] = i.next

\* A vote of epoch e counts the power the representative has in epoch e,
\* whether it is applied before or after the first update of epoch e + 1.
VotePower ==
    \A v \in store.votes : v.power = GetPower(snap[v.rep][v.epoch])

\* Every stake and thawing record of an account that is never a delegate (and
\* so has no frozen funds) has its liability with the same amount, and no other
\* liability that has not expired is worth anything.  All secondary liabilities
\* of an account that have not expired have one target: through redelegation
\* its funds answer for at most one representative besides its own.
LiabilitiesMatch ==
    LET Of(a) == (IF store.stake[a] = NoStake THEN {}
                  ELSE {<<Hash(store.stake[a].target, a, 0, FALSE), store.stake[a].amount>>})
                 \cup {<<Hash(t.target, a, t.expiration, FALSE), t.amount>> : t \in store.thawing[a]}
        users == Accounts \ UNION {AccountsOf(store.ebs[i].delegates) : i \in DOMAIN store.ebs}
        owed == UNION {Of(a) : a \in users}
    IN  /\ \A x \in owed : x[1] \in DOMAIN store.liability /\ store.liability[x[1]] = x[2]
        /\ \A h \in {g \in DOMAIN store.liability : g.source \in users} :
              IF h.is_secondary THEN h \in store.secondary[h.source]
              ELSE store.liability[h] > 0 /\ (h.expiration = 0 \/ h.expiration > cur_epoch) =>
                        \E x \in owed : x[1] = h
        /\ \A a \in Accounts : \A g, h \in store.secondary[a] :
              g.expiration > cur_epoch /\ h.expiration > cur_epoch => g.target = h.target

\* A validated request can be applied: no interleaving with other accounts'
\* requests or with the end of the epoch makes the node halt.
NodeKeepsRunning == ~store.halted

\* What a candidate has been given by the votes applied in epoch e.
Tally(a, e) ==
    FoldSet(LAMBDA v, n : n + v.power * v.votes[a], 0,
            {v \in store.votes : v.epoch = e /\ a \in DOMAIN v.votes})

\* The leading candidates, which become the delegates, are the best of all
\* that the votes of the epoch and the changes of candidacy touched, in
\* whatever order these were applied, and are copied with their full count.
LeadersAreBest ==
    LET e == eb + 1
        touched == {a \in Accounts : /\ store.candidates[a] # NoCandidate
                                     /\ store.candidates[a].epoch_modified >= e}
        led == DOMAIN store.leading
    IN  /\ \A a \in touched : store.candidates[a].votes = Tally(a, e)
        /\ Cardinality(led) = Min({NumElects, Cardinality(touched)})
        /\ \A a \in led : a \in touched /\ store.leading[a] = store.candidates[a]
        /\ \A a \in led, b \in touched \ led :
              IsGreater(a, store.candidates[a], b, store.candidates[b])

\* Every epoch block seats different accounts, and who starts a term sits for
\* TermLength blocks that are not extensions and then leaves or was elected
\* again, however candidates announce, renounce and are voted for.
TermsServed ==
    LET terms == SelectSeq(store.ebs, LAMBDA b : ~b.is_extension)
    IN  /\ \A i \in DOMAIN store.ebs :
              Cardinality(AccountsOf(store.ebs[i].delegates)) = NumDelegates
        /\ \A i, j \in DOMAIN terms : \A d \in Starting(terms[i]) :
              /\ j \in i .. (i + TermLength - 1) => d.account \in AccountsOf(terms[j].delegates)
              /\ j = i + TermLength =>
                    \A x \in Range(terms[j].delegates) : x.account = d.account => x.starting_term

\* A claim is paid for an epoch only by the representative that the account's
\* stake was locked to in that epoch, for that stake, or to a representative
\* for itself; so no epoch pays an account twice.
ClaimsEarned ==
    \A h \in store.harvests :
        /\ \A g \in store.harvests : g.account = h.account /\ g.epoch = h.epoch => g = h
        /\ IF h.rep = h.account
           THEN \E v \in store.votes : v.rep = h.rep /\ v.epoch = h.epoch
           ELSE h.epoch \in Epochs => held[h.epoch][h.account] = [target |-> h.rep, amount |-> h.staked]

\* Every token of the supply is in the token account, in its fees or in the
\* entry of one user, and nobody owes tokens: a transfer and a revocation from
\* the same user, on two chains, cannot both spend what was validated once.
TokensConserved ==
    LET held_by == [a \in Accounts |-> IF store.entries[a] = NoEntry THEN 0 ELSE store.entries[a].balance]
    IN  /\ \A a \in Accounts : held_by[a] >= 0
        /\ store.token # NoToken =>
              /\ store.token.token_balance >= 0 /\ store.token.token_fee_balance >= 0
              /\ store.token.total_supply
                    = store.token.token_balance + store.token.token_fee_balance + SumFunction(held_by)

\* A user has the status the controllers ordered, whether it was ordered
\* before or after the user's first tokens arrived, and in one place only.
StatusKept ==
    \A a \in Accounts : /\ StatusOf(store, a) = store.ordered[a]
                        /\ store.entries[a] # NoEntry => store.central[a] = NoStatus
=============================================================================
