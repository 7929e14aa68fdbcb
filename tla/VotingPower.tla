---------------------------- MODULE VotingPower ----------------------------
(***************************************************************************)
(* The voting power of representatives: voting_power_manager.cpp.          *)
(*                                                                         *)
(* The database keeps one record per representative, two snapshots wide:   *)
(* "current" is the power of epoch epoch_modified, "next" the power of the *)
(* epoch after it.  An update of epoch e takes effect in epoch e + 1, and  *)
(* updates of two neighbouring epochs may be applied in either order.      *)
(*                                                                         *)
(* The operators work on a database record `db', of which they use         *)
(*   power     voting_power_db: account -> VotingPowerInfo or NoInfo       *)
(*   fallback  voting_power_fallback_db: account -> power or NoFallback    *)
(*   reps      representative_db: account -> RepInfo or NoRep              *)
(*   halted    trace_and_halt was reached; the transaction is not committed*)
(***************************************************************************)
EXTENDS Integers

CONSTANTS NoInfo, NoFallback, NoRep

Kinds == {"locked_proxied", "unlocked_proxied", "self_stake"}

ZeroSnapshot == [k \in Kinds |-> 0]

DilutionFactor == 25

\* Amount GetPower(VotingPowerInfo): unlocked proxies count diluted.
GetPower(s) ==
    s["self_stake"] + s["locked_proxied"] + (s["unlocked_proxied"] * DilutionFactor) \div 100

Halt(db) == [db EXCEPT !.halted = TRUE]

NeverVoted == -1

-----------------------------------------------------------------------------
(***************************************************************************)
(* One record.                                                             *)
(***************************************************************************)

\* The record as TransitionIfNecessary leaves it.
Transitioned(info, epoch) ==
    IF epoch > info.epoch_modified
    THEN [current |-> info.next, next |-> info.next, epoch_modified |-> epoch]
    ELSE info

\* Mutant of Modified: a late update changes the next snapshot only.
ModifiedNextOnly(info, kind, delta, epoch) ==
    [Transitioned(info, epoch) EXCEPT !.next[kind] = @ + delta]

\* The record as Modify leaves it: an update of the epoch before
\* epoch_modified changes the current snapshot as well.
Modified(info, kind, delta, epoch) ==
    LET t == Transitioned(info, epoch)
    IN  [t EXCEPT !.next[kind] = @ + delta,
                  !.current[kind] = IF epoch < t.epoch_modified THEN @ + delta ELSE @]

\* Modify's checks: a subtraction may not exceed what is there.
CanModify(info, kind, delta, epoch) ==
    LET t == Transitioned(info, epoch)
    IN  /\ t.next[kind] + delta >= 0
        /\ epoch < t.epoch_modified => t.current[kind] + delta >= 0

-----------------------------------------------------------------------------
(***************************************************************************)
(* The database.                                                           *)
(***************************************************************************)

\* Mutant of HandleFallback: nothing is kept for a late vote.
HandleFallbackNothing(db, rep, epoch) ==
    [db EXCEPT !.fallback[rep] = NoFallback]

\* Mutant of HandleFallback: keeps the power the record moves on to.
HandleFallbackNext(db, rep, epoch) ==
    [db EXCEPT !.fallback[rep] =
        IF db.reps[rep] # NoRep THEN GetPower(db.power[rep].next) ELSE NoFallback]

\* HandleFallback: when a representative that has not voted in epoch - 1
\* moves on to epoch, the power it leaves behind is kept for a late vote.
HandleFallback(db, rep, epoch) ==
    LET r == db.reps[rep]
        keep == r # NoRep /\ (r.vote = NeverVoted \/ r.vote < epoch - 1)
    IN  [db EXCEPT !.fallback[rep] =
            IF keep THEN GetPower(db.power[rep].current) ELSE NoFallback]

TransitionIfNecessary(db, rep, epoch) ==
    IF epoch > db.power[rep].epoch_modified
    THEN [HandleFallback(db, rep, epoch) EXCEPT !.power[rep] = Transitioned(@, epoch)]
    ELSE db

\* CanPrune: nothing is left for the next epoch, and no representative.
CanPrune(db, rep) ==
    /\ db.power[rep].next = ZeroSnapshot
    /\ db.reps[rep] = NoRep

StoreOrPrune(db, rep) ==
    IF CanPrune(db, rep) THEN [db EXCEPT !.power[rep] = NoInfo] ELSE db

TryPrune(db, rep) ==
    IF db.power[rep] # NoInfo THEN StoreOrPrune(db, rep) ELSE db

\* What the operations that add or subtract have in common.
Modify(db, rep, kind, delta, epoch) ==
    IF db.power[rep] = NoInfo THEN Halt(db)
    ELSE IF ~CanModify(db.power[rep], kind, delta, epoch) THEN Halt(db)
    ELSE StoreOrPrune([TransitionIfNecessary(db, rep, epoch)
                         EXCEPT !.power[rep] = Modified(db.power[rep], kind, delta, epoch)], rep)

\* AddLockedProxied, AddUnlockedProxied.
AddProxied(db, rep, kind, amount, epoch) == Modify(db, rep, kind, amount, epoch)

\* AddSelfStake creates the record of a new representative; pruning the
\* record that was only just created fails, since it is not stored yet.
AddSelfStake(db, rep, amount, epoch) ==
    IF db.power[rep] # NoInfo
    THEN AddProxied(db, rep, "self_stake", amount, epoch)
    ELSE LET fresh == [current |-> ZeroSnapshot, next |-> ZeroSnapshot, epoch_modified |-> epoch]
             d == [db EXCEPT !.power[rep] = Modified(fresh, "self_stake", amount, epoch)]
         IN  IF CanPrune(d, rep) THEN Halt(db) ELSE d

\* SubtractLockedProxied, SubtractUnlockedProxied, SubtractSelfStake.
Subtract(db, rep, kind, amount, epoch) == Modify(db, rep, kind, -amount, epoch)

\* GetVotingPowerInfo of a record that exists: reading it moves it on.
GetVotingPowerInfo(db, rep, epoch) ==
    IF epoch > db.power[rep].epoch_modified
    THEN StoreOrPrune(TransitionIfNecessary(db, rep, epoch), rep)
    ELSE db

\* GetCurrentVotingPower: the database after the call and the power it reads.
GetCurrentVotingPower(db, rep, epoch) ==
    IF db.power[rep] = NoInfo
    THEN [db |-> Halt(db), power |-> 0]
    ELSE LET i == Transitioned(db.power[rep], epoch)
             d == GetVotingPowerInfo(db, rep, epoch)
         IN  IF epoch >= i.epoch_modified
             THEN [db |-> d, power |-> GetPower(i.current)]
             ELSE IF db.fallback[rep] = NoFallback
             THEN [db |-> Halt(db), power |-> 0]
             ELSE [db |-> d, power |-> db.fallback[rep]]
=============================================================================
