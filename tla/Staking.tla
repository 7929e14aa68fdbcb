------------------------------ MODULE Staking ------------------------------
(***************************************************************************)
(* Balances, stakes, thawing funds and liabilities: logos::account_info of *)
(* common.cpp, staking_manager.cpp and liability_manager.cpp.              *)
(*                                                                         *)
(* Besides the fields of VotingPower the database record has               *)
(*   accounts   account_db: balances, representative, prune marks          *)
(*   stake      staking_db: account -> [target, amount] or NoStake         *)
(*   thawing    thawing_db: account -> set of [expiration, target, amount];*)
(*              a set, because LMDB keeps equal duplicates once            *)
(*   liability  master_liabilities_db: hash -> amount, where the hash of a *)
(*              liability is the record of what is hashed                  *)
(*   secondary  secondary_liabilities_db: account -> set of hashes         *)
(* Accounts are positive numbers, as addresses are, and 0 is no account.   *)
(***************************************************************************)
EXTENDS VotingPower, Sequences, SequencesExt

CONSTANTS NoStake, ThawingPeriod

NoAccount == 0

-----------------------------------------------------------------------------
(***************************************************************************)
(* account_info                                                            *)
(***************************************************************************)

GetRepForEpoch(account, epoch) ==
    IF account.new_rep.rep # NoAccount /\ epoch >= account.new_rep.epoch_first_active
    THEN account.new_rep.rep
    ELSE account.old_rep.rep

\* The unlocked proxied power that follows a change of the available balance
\* by diff.  When the representative changes one epoch later, the change is
\* undone there and made to the representative of that epoch.
Shift(db, rep, up, diff, epoch) ==
    Modify(db, rep, "unlocked_proxied", IF up THEN diff ELSE -diff, epoch)

ShiftUnlocked(db, a, up, diff, epoch) ==
    LET rep == GetRepForEpoch(db.accounts[a], epoch + 1)
        next_rep == GetRepForEpoch(db.accounts[a], epoch + 2)
        change(d) == IF next_rep # NoAccount /\ next_rep # rep
                     THEN Shift(Shift(d, rep, ~up, diff, epoch + 1), next_rep, up, diff, epoch + 1)
                     ELSE d
    IN  change(IF rep # NoAccount THEN Shift(db, rep, up, diff, epoch) ELSE db)

SetBalance(db, a, balance, epoch) ==
    LET old == db.accounts[a].balance
        up == balance > old
        diff == IF up THEN balance - old ELSE old - balance
        d == ShiftUnlocked(db, a, up, diff, epoch)
    IN  IF ~up /\ diff > db.accounts[a].available
        THEN Halt(db)
        ELSE [d EXCEPT !.accounts[a].balance = balance,
                       !.accounts[a].available = IF up THEN @ + diff ELSE @ - diff]

SetAvailableBalance(db, a, available, epoch) ==
    LET old == db.accounts[a].available
        up == available > old
        diff == IF up THEN available - old ELSE old - available
        d == ShiftUnlocked(db, a, up, diff, epoch)
    IN  IF available > db.accounts[a].balance
        THEN Halt(db)
        ELSE [d EXCEPT !.accounts[a].available = available]

-----------------------------------------------------------------------------
(***************************************************************************)
(* LiabilityManager and the liabilities of block_store                     *)
(***************************************************************************)

Hash(target, source, expiration, is_secondary) ==
    [target |-> target, source |-> source,
     expiration |-> expiration, is_secondary |-> is_secondary]

\* liability_put: liabilities of one hash are consolidated.
LiabilityPut(db, h, amount) ==
    [db EXCEPT !.liability =
        [x \in DOMAIN @ \cup {h} |->
            (IF x \in DOMAIN @ THEN @[x] ELSE 0) + (IF x = h THEN amount ELSE 0)]]

UpdateLiabilityAmount(db, h, amount) ==
    IF h \notin DOMAIN db.liability
    THEN Halt(db)
    ELSE [db EXCEPT !.liability[h] = amount]

DeleteLiability(db, h) ==
    IF h \notin DOMAIN db.liability
    THEN Halt(db)
    ELSE [db EXCEPT !.liability = [x \in DOMAIN @ \ {h} |-> @[x]]]

PruneSecondaryLiabilities(db, source, epoch) ==
    IF db.accounts[source].liabilities_updated >= epoch
    THEN db
    ELSE LET expired == {h \in db.secondary[source] : h.expiration <= epoch}
         IN  [db EXCEPT !.accounts[source].liabilities_updated = epoch,
                        !.secondary[source] = @ \ expired,
                        !.liability = [x \in DOMAIN @ \ expired |-> @[x]]]

\* All secondary liabilities of an account that have not expired must have
\* one target; self stake cannot become locked proxy.
CanCreateSecondaryLiability(db, target, source, epoch) ==
    /\ target # source
    /\ Hash(target, source, epoch + ThawingPeriod, TRUE) \notin DOMAIN db.liability =>
          \A h \in db.secondary[source] : h.expiration > epoch => h.target = target

CreateSecondaryLiability(db, target, source, amount, expiration, epoch) ==
    LET pruned == PruneSecondaryLiabilities(db, source, epoch)
        h == Hash(target, source, expiration, TRUE)
    IN  IF CanCreateSecondaryLiability(pruned, target, source, epoch)
        THEN [ok |-> TRUE,
              db |-> [LiabilityPut(pruned, h, amount) EXCEPT !.secondary[source] = @ \cup {h}]]
        ELSE [ok |-> FALSE, db |-> pruned]

-----------------------------------------------------------------------------
(***************************************************************************)
(* Thawing funds                                                           *)
(***************************************************************************)

\* LMDB compares the serialized records byte by byte, and the expiration is
\* written inverted and least significant byte first.
Byte == 256

StoredBefore(t, u) ==
    LET low(x) == x.expiration % Byte
        high(x) == x.expiration \div Byte
    IN  \/ low(t) > low(u)
        \/ low(t) = low(u) /\ high(t) > high(u)
        \/ t.expiration = u.expiration /\ t.target < u.target
        \/ t.expiration = u.expiration /\ t.target = u.target /\ t.amount < u.amount

\* The order in which ProcessThawingFunds visits the records of an account.
ThawingFunds(db, a) == SetToSortSeq(db.thawing[a], StoredBefore)

\* Store(ThawingFunds): consolidates with the record of the same target and
\* expiration, unless the scan meets an earlier expiration first.
StoreConsolidated(db, a, funds, old) ==
    LET total == FoldSet(LAMBDA t, n : t.amount + n, funds.amount, old)
    IN  UpdateLiabilityAmount(
            [db EXCEPT !.thawing[a] = (@ \ old) \cup {[funds EXCEPT !.amount = total]}],
            Hash(funds.target, a, funds.expiration, FALSE), total)

StoreThawing(db, a, funds) ==
    LET same(t) == t.target = funds.target /\ t.expiration = funds.expiration
        reached(s) == {s[i] : i \in {j \in DOMAIN s : same(s[j]) /\
                                      \A k \in 1 .. j : s[k].expiration >= funds.expiration}}
    IN  StoreConsolidated(db, a, funds, reached(ThawingFunds(db, a)))

\* Mutant of UpdateThawing: the record is not deleted first.
UpdateThawingKept(db, a, funds, amount) ==
    IF amount > 0
    THEN StoreThawing(db, a, [funds EXCEPT !.amount = amount])
    ELSE DeleteLiability(db, Hash(funds.target, a, funds.expiration, FALSE))

\* UpdateAmountAndStore(ThawingFunds)
UpdateThawing(db, a, funds, amount) ==
    LET d == [db EXCEPT !.thawing[a] = @ \ {funds}]
    IN  IF amount > 0
        THEN StoreThawing(d, a, [funds EXCEPT !.amount = amount])
        ELSE DeleteLiability(d, Hash(funds.target, a, funds.expiration, FALSE))

\* Store(StakedFunds)
StoreStake(db, a, funds) ==
    UpdateLiabilityAmount([db EXCEPT !.stake[a] = funds], Hash(funds.target, a, 0, FALSE), funds.amount)

\* Mutant of UpdateStake: the liability outlives the stake.
UpdateStakeOwing(db, a, funds, amount) ==
    IF amount > 0
    THEN StoreStake(db, a, [funds EXCEPT !.amount = amount])
    ELSE [db EXCEPT !.stake[a] = NoStake]

\* UpdateAmountAndStore(StakedFunds)
UpdateStake(db, a, funds, amount) ==
    IF amount > 0
    THEN StoreStake(db, a, [funds EXCEPT !.amount = amount])
    ELSE DeleteLiability([db EXCEPT !.stake[a] = NoStake], Hash(funds.target, a, 0, FALSE))

PruneThawing(db, a, epoch) ==
    IF db.accounts[a].thawing_updated >= epoch
    THEN db
    ELSE LET expired == {t \in db.thawing[a] : t.expiration # 0 /\ t.expiration <= epoch}
             pruned == [db EXCEPT !.accounts[a].thawing_updated = epoch,
                                  !.thawing[a] = @ \ expired]
         IN  SetAvailableBalance(pruned, a,
                 db.accounts[a].available + FoldSet(LAMBDA t, n : t.amount + n, 0, expired), epoch)

GetPruneableThawingAmount(db, a, epoch) ==
    IF db.accounts[a].thawing_updated >= epoch
    THEN 0
    ELSE FoldSet(LAMBDA t, n : t.amount + n, 0,
             {t \in db.thawing[a] : t.expiration # 0 /\ t.expiration <= epoch})

\* The records in `hits' get a new expiration and with it a new liability.
Reexpire(db, a, hits, expiration) ==
    LET move(d, t) == [LiabilityPut(DeleteLiability(d, Hash(t.target, a, t.expiration, FALSE)),
                                    Hash(t.target, a, expiration, FALSE), t.amount)
                         EXCEPT !.thawing[a] = @ \ {t}]
        store(d, t) == StoreThawing(d, a, [t EXCEPT !.expiration = expiration])
    IN  FoldLeft(store, FoldLeft(move, db, hits), hits)

\* What a delegate began to thaw in epoch_created freezes; the scan ends at
\* the first record that expires earlier.
MarkThawingAsFrozen(db, a, epoch_created) ==
    LET e == epoch_created + ThawingPeriod
        s == ThawingFunds(db, a)
        hit(t) == t.expiration = e /\ t.target = a
        ends == {i \in DOMAIN s : ~hit(s[i]) /\ s[i].expiration < e}
        seen == {i \in DOMAIN s : \A j \in ends : i < j}
    IN  Reexpire(db, a, SelectSeq(SubSeq(s, 1, Cardinality(seen)), hit), 0)

SetExpirationOfFrozen(db, a, epoch_unfrozen) ==
    LET frozen(t) == t.expiration = 0
    IN  Reexpire(db, a, SelectSeq(ThawingFunds(db, a), frozen), epoch_unfrozen + ThawingPeriod)

-----------------------------------------------------------------------------
(***************************************************************************)
(* StakingManager                                                          *)
(***************************************************************************)

\* Extract up to `amount' from a stake or a thawing record of a; funds that
\* change their target leave a secondary liability behind.
Extract(db, a, source, target, amount, epoch) ==
    LET is_stake == "expiration" \notin DOMAIN source
        taken == IF amount > source.amount THEN source.amount ELSE amount
        expiration == IF is_stake \/ source.expiration = 0 THEN epoch + ThawingPeriod
                      ELSE source.expiration
        left == source.amount - taken
        take(moved) ==
            IF ~moved.ok THEN [db |-> moved.db, taken |-> 0]
            ELSE [db |-> IF is_stake THEN UpdateStake(moved.db, a, source, left)
                                     ELSE UpdateThawing(moved.db, a, source, left),
                  taken |-> taken]
    IN  take(IF source.target \in {a, target} THEN [ok |-> source.target = target, db |-> db]
             ELSE CreateSecondaryLiability(db, source.target, a, taken, expiration, epoch))

BeginThawing(db, a, epoch, stake, amount) ==
    LET expiration == epoch + ThawingPeriod
        created == LiabilityPut(db, Hash(stake.target, a, expiration, FALSE), 0)
        store(x) == StoreThawing(x.db, a, [expiration |-> expiration, target |-> stake.target,
                                           amount |-> x.taken])
    IN  store(Extract(created, a, stake, stake.target, amount, epoch))

\* What a stake of a with that target counts as.
StakeKind(a, target) == IF target = a THEN "self_stake" ELSE "locked_proxied"

AddStake(db, a, target, amount, epoch) ==
    IF target = a THEN AddSelfStake(db, a, amount, epoch)
                  ELSE AddProxied(db, target, "locked_proxied", amount, epoch)

ReduceStake(db, a, epoch, stake, amount) ==
    BeginThawing(Subtract(db, stake.target, StakeKind(a, stake.target), amount, epoch),
                 a, epoch, stake, amount)

\* Power of both kinds that a's stake and available balance give a target.
AddPower(db, a, target, staked, epoch) ==
    IF target = a THEN AddStake(db, a, a, staked, epoch)
    ELSE AddProxied(AddProxied(db, target, "locked_proxied", staked, epoch),
                    target, "unlocked_proxied", db.accounts[a].available, epoch)

SubtractPower(db, a, stake, epoch) ==
    IF stake.target = a THEN Subtract(db, a, "self_stake", stake.amount, epoch)
    ELSE Subtract(Subtract(db, stake.target, "locked_proxied", stake.amount, epoch),
                  stake.target, "unlocked_proxied", db.accounts[a].available, epoch)

\* ChangeTarget: the database and how much of `amount' the old stake covers;
\* the rest of the old stake thaws.
ChangeTarget(db, a, epoch, stake, target, amount) ==
    LET created == LiabilityPut(SubtractPower(db, a, stake, epoch), Hash(target, a, 0, FALSE), 0)
        thaw(d, rest) == IF rest > 0
                         THEN BeginThawing(d, a, epoch, [stake EXCEPT !.amount = rest], rest) ELSE d
        move(x) == [db |-> thaw(AddPower(x.db, a, target, x.taken, epoch), stake.amount - x.taken),
                    taken |-> x.taken]
    IN  move(Extract(created, a, stake, target, amount, epoch))

\* An update of the representative takes effect in the next epoch; two
\* updates in one epoch do not lose the representative before them.
UpdateRep(db, a, epoch, rep) ==
    [db EXCEPT !.accounts[a].old_rep =
                   IF epoch + 1 > db.accounts[a].new_rep.epoch_first_active
                   THEN db.accounts[a].new_rep ELSE @,
               !.accounts[a].new_rep = [rep |-> rep, epoch_first_active |-> epoch + 1]]

\* The first stake of an account: its available balance moves from the
\* representative it may have to the target.
FirstStake(db, a, target, epoch) ==
    LET available == db.accounts[a].available
        created == LiabilityPut(db, Hash(target, a, 0, FALSE), 0)
        added == IF target = a THEN created
                 ELSE AddProxied(created, target, "unlocked_proxied", available, epoch)
        rep == GetRepForEpoch(db.accounts[a], epoch + 1)
    IN  IF rep = NoAccount THEN added
        ELSE Subtract(added, rep, "unlocked_proxied", available, epoch)

StakeAvailableFunds(db, a, amount, epoch) ==
    IF amount > db.accounts[a].available
    THEN Halt(db)
    ELSE SetAvailableBalance(db, a, db.accounts[a].available - amount, epoch)

\* The end of Stake: `amount' more is taken from thawing funds in the order
\* they are stored and then from the available balance.
Fund(db, a, target, amount, epoch) ==
    LET record(y, left) == [db |-> y.db, left |-> left - y.taken]
        take(x, t) == IF x.left = 0 THEN x
                      ELSE record(Extract(x.db, a, t, target, x.left, epoch), x.left)
        rest(x) == IF x.left > 0 THEN StakeAvailableFunds(x.db, a, x.left, epoch) ELSE x.db
    IN  rest(FoldLeft(take, [db |-> AddStake(db, a, target, amount, epoch), left |-> amount],
                      ThawingFunds(db, a)))

CompleteStake(db, a, target, has, amount, epoch) ==
    LET fund(d) == IF amount = 0 THEN d ELSE Fund(d, a, target, amount, epoch)
        store(d) == IF has + amount = 0 THEN d
                    ELSE StoreStake(d, a, [target |-> target, amount |-> has + amount])
    IN  store(fund(UpdateRep(db, a, epoch, IF target = a THEN NoAccount ELSE target)))

\* A stake withdrawn from one target in favour of another leaves before the
\* representative is updated.
Stake(db, a, amount, target, epoch) ==
    LET stake == db.stake[a]
        complete(x) == IF stake # NoStake /\ amount = 0 THEN [x.db EXCEPT !.stake[a] = NoStake]
                       ELSE CompleteStake(x.db, a, target, x.taken, amount - x.taken, epoch)
        reduce == stake # NoStake /\ target = stake.target /\ amount < stake.amount
    IN  IF reduce THEN ReduceStake(db, a, epoch, stake, stake.amount - amount)
        ELSE complete(CASE stake = NoStake -> [db |-> FirstStake(db, a, target, epoch), taken |-> 0]
                        [] stake # NoStake /\ target # stake.target ->
                              ChangeTarget(db, a, epoch, stake, target, amount)
                        [] OTHER -> [db |-> db, taken |-> stake.amount])

\* StakingManager::Validate: enough can be staked from the available
\* balance, the stake and the thawing funds.  Funds of one other target at
\* most can be used, the first for which a secondary liability is possible.
ValidateStake(db, a, amount, target, epoch, fee) ==
    LET account == db.accounts[a]
        available == account.available - fee + GetPruneableThawingAmount(db, a, epoch)
        sources == (IF db.stake[a] = NoStake THEN <<>> ELSE << db.stake[a] >>) \o ThawingFunds(db, a)
        foreign == {i \in DOMAIN sources :
                       /\ sources[i].target # target
                       /\ CanCreateSecondaryLiability(db, sources[i].target, a, epoch)}
        chosen == CHOOSE i \in foreign : \A j \in foreign : i <= j
        usable(f) == \/ f.target = target
                     \/ foreign # {} /\ f.target = sources[chosen].target
        total == FoldLeft(LAMBDA n, f : n + f.amount, 0, SelectSeq(sources, usable))
    IN  /\ account.available >= fee
        /\ available < amount => available + total >= amount
=============================================================================
