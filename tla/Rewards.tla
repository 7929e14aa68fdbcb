------------------------------ MODULE Rewards ------------------------------
(***************************************************************************)
(* Fee pools, the rewards of voting representatives and their claims:      *)
(* epoch_rewards_manager.cpp, ApplyRewards and UpdateGlobalRewards of      *)
(* epoch_persistence.cpp, ProcessClaim of request_persistence.cpp.         *)
(*                                                                         *)
(* Besides the fields of Elections the database record has                 *)
(*   fee_pool  epoch -> the fees collected in it                           *)
(*   global    epoch -> GlobalRewardsInfo, for epochs somebody voted in    *)
(*   rewards   <<representative, epoch>> -> RewardsInfo                    *)
(*   dust      account -> fraction of a unit it is owed                    *)
(*   chain     account -> its governance subchain, oldest request first    *)
(* and, for the properties only, how much was minted and every harvest.    *)
(* Rational numbers are counted in 1/Unit.                                 *)
(***************************************************************************)
EXTENDS Elections

CONSTANTS Unit          \* a multiple of the denominators that occur

\* Adds a sum with a fraction to an account: whole units are deposited, the
\* rest is dust.
Deposit(db, a, sum, epoch) ==
    LET owed == db.dust[a] + sum
        kept == [db EXCEPT !.dust[a] = owed % Unit]
    IN  IF owed >= Unit
        THEN SetBalance(kept, a, db.accounts[a].balance + owed \div Unit, epoch)
        ELSE kept

OnFeeCollected(db, epoch, fee) == [db EXCEPT !.fee_pool[epoch] = @ + fee]

Put(f, k, v) == [x \in DOMAIN f \cup {k} |-> IF x = k THEN v ELSE f[x]]

Erase(f, k) == [x \in DOMAIN f \ {k} |-> f[x]]

AddGlobalStake(db, epoch, stake) ==
    LET info == IF epoch \in DOMAIN db.global THEN db.global[epoch]
                ELSE [total_stake |-> 0, remaining |-> 0, total |-> 0]
    IN  [db EXCEPT !.global = Put(@, epoch, [info EXCEPT !.total_stake = @ + stake])]

\* EpochRewardsManager::Init: the vote of a representative entitles it.
InitRewards(db, rep, epoch, levy, total_stake, self_stake) ==
    AddGlobalStake(
        [db EXCEPT !.rewards = Put(@, <<rep, epoch>>,
            [initialized |-> FALSE, levy |-> levy, total_stake |-> total_stake,
             self_stake |-> self_stake, remaining |-> 0, total |-> 0])],
        epoch, total_stake)

-----------------------------------------------------------------------------
(***************************************************************************)
(* The epoch block                                                         *)
(***************************************************************************)

\* The fees of epoch e go to the delegates of the epoch block before the
\* previous one, by the stake they were elected with.
ApplyRewards(db, e) ==
    LET delegates == EpochGetN(db, 2).delegates
        total == FoldLeft(LAMBDA n, d : n + d.raw_stake, 0, delegates)
        reward(x, d) == Deposit(x, d.account, (db.fee_pool[e] * Unit * d.raw_stake) \div total, e + 1)
    IN  IF db.fee_pool[e] = 0 THEN db
        ELSE [FoldLeft(reward, db, delegates) EXCEPT !.fee_pool[e] = 0]

\* UpdateGlobalRewards and SetGlobalReward: the logos minted by the block.
UpdateGlobalRewards(db, e, new_logos) ==
    IF e \notin DOMAIN db.global THEN db
    ELSE [db EXCEPT !.global[e].total = new_logos * Unit,
                    !.global[e].remaining = new_logos * Unit,
                    !.minted = @ + new_logos]

-----------------------------------------------------------------------------
(***************************************************************************)
(* Claims                                                                  *)
(***************************************************************************)

\* The share of the global reward that a representative's first claim moves
\* to the representative's pool.
HarvestGlobalReward(db, rep, epoch) ==
    LET info == db.rewards[<<rep, epoch>>]
        g == db.global[epoch]
        pool == (info.total_stake * g.total) \div g.total_stake
        left == g.remaining - pool
    IN  IF info.initialized THEN [db |-> db, info |-> info]
        ELSE IF epoch \notin DOMAIN db.global THEN [db |-> Halt(db), info |-> info]
        ELSE IF left < 0 THEN [db |-> Halt(db), info |-> info]
        ELSE [db |-> [db EXCEPT !.global = IF left > 0 THEN Put(@, epoch, [g EXCEPT !.remaining = left])
                                           ELSE Erase(@, epoch)],
              info |-> [info EXCEPT !.initialized = TRUE, !.total = pool, !.remaining = pool]]

\* HarvestReward refuses more than what remains; its caller pays all the same.
HarvestReward(db, rep, epoch, reward, info) ==
    IF reward > info.remaining THEN db
    ELSE [db EXCEPT !.rewards = IF reward < info.remaining
                                THEN Put(@, <<rep, epoch>>, [info EXCEPT !.remaining = @ - reward])
                                ELSE Erase(@, <<rep, epoch>>)]

\* The stake a claim counts: a representative keeps the levied part of what
\* is proxied to it.
ClaimStake(info, is_rep, staked) ==
    IF is_rep
    THEN info.self_stake + ((100 - info.levy) * (info.total_stake - info.self_stake)) \div 100
    ELSE (staked * info.levy) \div 100

\* One epoch of a claim; x is the state of ProcessClaim's loop.
ClaimEpoch(x, a, epoch) ==
    LET rep == IF x.is_rep THEN a ELSE x.rep
        h == HarvestGlobalReward(x.db, rep, epoch)
        reward == (ClaimStake(h.info, x.is_rep, x.staked) * h.info.total) \div h.info.total_stake
    IN  IF <<rep, epoch>> \notin DOMAIN x.db.rewards THEN x
        ELSE [x EXCEPT !.sum = @ + reward,
                       !.db = [HarvestReward(h.db, rep, epoch, reward, h.info) EXCEPT !.harvests =
                                   @ \cup {[account |-> a, rep |-> rep, epoch |-> epoch,
                                            staked |-> IF x.is_rep THEN 0 ELSE x.staked]}]]

\* What a request of the chain says about the epochs after it.
ClaimStatus(x, r) ==
    CASE r.type = "Proxy" ->
            [x EXCEPT !.rep = IF r.amount = 0 THEN NoAccount ELSE r.target,
                      !.staked = r.amount, !.is_rep = FALSE]
      [] r.type \in {"AnnounceCandidacy", "StartRepresenting"} ->
            [x EXCEPT !.rep = NoAccount, !.is_rep = TRUE]
      [] r.type = "StopRepresenting" -> [x EXCEPT !.is_rep = FALSE]

\* Mutant of FirstClaimed: a request counts from its own epoch.
FirstClaimedEarly(r, claimed) == IF r.epoch > claimed THEN r.epoch ELSE claimed + 1

\* A request decides the epochs after its own that are not claimed yet.
FirstClaimed(r, claimed) == IF r.epoch >= claimed THEN r.epoch + 1 ELSE claimed + 1

\* The chain is walked from its head; a request decides the epochs up to the
\* peak that later requests leave.
ClaimRequest(x, a, r) ==
    LET y == ClaimStatus(x, r)
        claimed == x.db.accounts[a].claim_epoch
        first == FirstClaimed(r, claimed)
    IN  IF \/ x.peak <= claimed
           \/ r.epoch >= x.peak
           \/ r.type \in {"Stake", "Unstake", "ElectionVote", "RenounceCandidacy"}
        THEN x
        ELSE [(IF y.rep = NoAccount /\ ~y.is_rep THEN y
               ELSE FoldLeft(LAMBDA z, e : ClaimEpoch(z, a, e), y,
                             [i \in 1 .. (x.peak - first + 1) |-> first + i - 1]))
                 EXCEPT !.peak = r.epoch]

ProcessClaim(db, a, claim_epoch) ==
    LET start == [db |-> db, sum |-> 0, peak |-> claim_epoch,
                  is_rep |-> FALSE, rep |-> NoAccount, staked |-> 0]
        x == FoldLeft(LAMBDA y, r : ClaimRequest(y, a, r), start, Reverse(db.chain[a]))
    IN  [sum |-> x.sum, db |-> [x.db EXCEPT !.accounts[a].claim_epoch = claim_epoch]]

ValidateClaim(db, a, claim_epoch, stored) ==
    /\ claim_epoch <= stored
    /\ db.accounts[a].claim_epoch < claim_epoch
=============================================================================
