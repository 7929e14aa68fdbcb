---------------------------- MODULE MCGovernance ----------------------------
(***************************************************************************)
(* Instances of Governance: four delegates, two elected per epoch for two  *)
(* epochs.  Accounts 1 to 4 are the delegates a behaviour starts with, and *)
(* representatives.  1, 3 and 4 have the voting power of genesis delegates *)
(* and no stake record, 2 has staked since.  Account 5 is a user and 6     *)
(* stakes for itself; what more they are depends on the scenario.          *)
(***************************************************************************)
EXTENDS Governance

MCAccounts == 1 .. 6

NoRepYet == [rep |-> NoAccount, epoch_first_active |-> 0]

ProxiedTo(a) == [rep |-> a, epoch_first_active |-> 1]

Info(self, locked, unlocked, e) ==
    LET s == [k \in Kinds |-> CASE k = "self_stake" -> self
                                [] k = "unlocked_proxied" -> unlocked
                                [] OTHER -> locked]
    IN  [current |-> s, next |-> s, epoch_modified |-> e]

Block(starting) ==
    [is_extension |-> FALSE,
     delegates |-> [i \in 1 .. 4 |->
        [account |-> i, starting_term |-> i \in starting, raw_stake |-> IF i = 1 THEN 3 ELSE 1]]]

\* The database before epoch `start', where the delegates 1 and 2, and before
\* them 3 and 4, have just begun their terms.  `rep' is the representative of
\* 5, `locked' what 5 has staked with it, and `candidates' are who stands.
Genesis(start, rep, locked, reps, candidates, blocks) ==
    [accounts |-> [a \in MCAccounts |->
        [balance |-> IF a \in {2, 5, 6} THEN 26 ELSE 20,
         available |-> IF a = 5 THEN 26 - locked ELSE 20,
         old_rep |-> NoRepYet, new_rep |-> IF a = 5 /\ rep # NoAccount THEN ProxiedTo(rep) ELSE NoRepYet,
         thawing_updated |-> 0, liabilities_updated |-> 0, claim_epoch |-> start - 1]],
     stake |-> [a \in MCAccounts |->
        CASE a \in {2, 6} -> [target |-> a, amount |-> 6]
          [] a = 5 /\ locked > 0 -> [target |-> rep, amount |-> locked]
          [] OTHER -> NoStake],
     thawing |-> [a \in MCAccounts |-> {}],
     liability |-> [h \in {Hash(a, a, 0, FALSE) : a \in {2, 6}}
                            \cup {Hash(rep, a, 0, FALSE) : a \in IF locked > 0 THEN {5} ELSE {}} |->
                       IF h.source = 5 THEN locked ELSE 6],
     secondary |-> [a \in MCAccounts |-> {}],
     power |-> [a \in 0 .. 6 |-> CASE a = rep /\ a # 0 -> Info(6, locked, 26 - locked, start - 1)
                                   [] a \in {1, 2, 3, 4, 6} -> Info(6, 0, 0, start - 1)
                                   [] OTHER -> NoInfo],
     fallback |-> [a \in 0 .. 6 |-> NoFallback],
     reps |-> [a \in 0 .. 6 |-> IF a \in reps THEN RepInfo("AnnounceCandidacy", 0) ELSE NoRep],
     remove_reps |-> {},
     candidates |-> [a \in MCAccounts |->
                        IF a \in candidates THEN CandidateInfo(6, 6, 0) ELSE NoCandidate],
     leading |-> << >>,
     min_leading |-> [account |-> NoAccount, info |-> CandidateInfo(0, 0, 0)],
     remove_candidates |-> {},
     ebs |-> blocks,
     fee_pool |-> [e \in EpochsFrom(start) |-> 0],
     global |-> << >>,
     rewards |-> << >>,
     dust |-> [a \in MCAccounts |-> 0],
     token |-> NoToken,
     entries |-> [a \in MCAccounts |-> NoEntry],
     central |-> [a \in MCAccounts |-> NoStatus],
     ordered |-> [a \in MCAccounts |-> {}],
     chain |-> [a \in MCAccounts |->
        CASE a = 5 /\ rep # NoAccount ->
                << [type |-> "Proxy", epoch |-> 0, target |-> rep, amount |-> locked] >>
          [] a = 6 /\ 6 \in reps -> << [type |-> "AnnounceCandidacy", epoch |-> 0,
                                        target |-> NoAccount, amount |-> 6] >>
          [] OTHER -> << >>],
     votes |-> {},
     harvests |-> {},
     minted |-> 0,
     halted |-> FALSE]

InTerm == << Block({1, 2}), Block({3, 4}), Block({1, 2}) >>

-----------------------------------------------------------------------------
Request(type, origin, target, amount, epochs) ==
    [type |-> type, origin |-> origin, target |-> target, amount |-> amount,
     set_stake |-> type \in {"StartRepresenting", "StopRepresenting", "AnnounceCandidacy"},
     epochs |-> epochs, votes |-> << >>, claim |-> 0, args |-> << >>]

Vote(origin, votes, epochs) == [Request("ElectionVote", origin, 0, 0, epochs) EXCEPT !.votes = votes]

Renounce(origin, epochs) == Request("RenounceCandidacy", origin, 0, 0, epochs)

Claim(origin, claim, epochs) == [Request("Claim", origin, 0, 0, epochs) EXCEPT !.claim = claim]

Always == 0 .. 20

\* Proxies, sends and votes around one user of two representatives.  The
\* user is paid in the first epoch only, possibly after a proxy of the second.
Proxies ==
    [start |-> 8, last |-> 10, max |-> 5,
     genesis |-> Genesis(8, 1, 0, 1 .. 4, {3, 4}, InTerm),
     requests |->
        {Request("Send", 1, 5, 1, {8}), Request("Send", 5, 2, 2, {9}),
         Request("Proxy", 5, 1, 3, {8, 9}),
         Request("Proxy", 5, 2, 2, Always), Request("Proxy", 5, 2, 5, {8, 9}),
         Vote(1, << >>, {8})}]

\* An account that becomes a representative and stops again.
SelfStakes ==
    [start |-> 8, last |-> 10, max |-> 4,
     genesis |-> Genesis(8, 1, 0, 1 .. 4, {3, 4}, InTerm),
     requests |->
        {Request("StartRepresenting", 6, 6, 5, Always), Request("StopRepresenting", 6, 6, 2, Always),
         Request("Unstake", 6, 6, 0, Always), Request("Stake", 6, 6, 8, Always),
         Request("Proxy", 5, 6, 2, {9}), Vote(6, << >>, Always)}]

\* Candidates come, go and are voted for; 2 has begun to thaw when it leaves.
Votes ==
    [start |-> 8, last |-> 11, max |-> 5,
     genesis |-> Genesis(8, 0, 0, {1, 2, 3, 4, 6}, {3, 4, 6}, InTerm),
     requests |->
        {Request("AnnounceCandidacy", 5, 5, 6, {8}), Renounce(6, {8, 9}), Renounce(3, {8}),
         Vote(1, 3 :> 1 @@ 4 :> 2, {8}), Vote(1, 6 :> 2 @@ 1 :> 1, {9, 10}),
         Vote(2, 4 :> 1 @@ 6 :> 2, {8}), Vote(2, 2 :> 1 @@ 5 :> 1, {9, 10}),
         Request("Stake", 2, 2, 4, {8, 9})}]

\* The first election: the delegates in the first two seats are replaced;
\* the other two have renounced.
FirstElection ==
    [start |-> 4, last |-> 5, max |-> 4,
     genesis |-> [Genesis(4, 0, 0, {1, 2, 3, 4, 6}, {1, 2, 6}, << Block({}), Block({}), Block({}) >>)
                    EXCEPT !.reps[3].candidacy = "RenounceCandidacy",
                           !.reps[4].candidacy = "RenounceCandidacy"],
     requests |->
        {Vote(1, 1 :> 1 @@ 2 :> 1, {4}), Vote(2, 6 :> 3, {4}), Vote(3, 2 :> 1 @@ 6 :> 1, {4}),
         Renounce(1, {4}), Request("AnnounceCandidacy", 5, 5, 6, {4})}]

\* Rewards of two representatives and of the user with a locked proxy.
Claims ==
    [start |-> 8, last |-> 10, max |-> 5,
     genesis |-> Genesis(8, 1, 6, {1, 2, 3, 4, 6}, {3, 4, 6}, InTerm),
     requests |->
        {Vote(1, 3 :> 1 @@ 4 :> 1, {8, 9}), Vote(6, 3 :> 1, {8}), Request("Proxy", 5, 6, 3, {8, 9}),
         Claim(5, 8, Always), Claim(5, 9, Always), Claim(6, 9, Always), Claim(6, 8, Always)}]

Token(type, origin, target, amount, args) ==
    [Request(type, origin, target, amount, Always) EXCEPT !.args = args]

Acts(names) == {<<"act", n>> : n \in names}

Issue(controllers) ==
    Token("Issuance", 5, 0, 9,
          [grant |-> 10, fee_type |-> "Flat", fee_rate |-> 1, controllers |-> controllers,
           settings |-> {<<"Issuance", "value">>, <<"Revoke", "value">>, <<"AdjustFee", "value">>,
                         <<"Freeze", "value">>, <<"Freeze", "modify">>, <<"Whitelist", "modify">>}])

\* Users of a token that is being issued: 6 is given tokens, sends them on and
\* may be frozen or lose them, until freezing is switched off.
TokenUsers ==
    [start |-> 8, last |-> 8, max |-> 6,
     genesis |-> Genesis(8, 0, 0, 1 .. 4, {3, 4}, InTerm),
     requests |->
        {Issue(5 :> Acts({"Distribute", "Freeze", "Revoke", "AdjustFee", "WithdrawFee"})
                        \cup {<<"Freeze", "value">>}),
         Token("ChangeSetting", 5, 0, 0, [setting |-> <<"Freeze", "value">>, enable |-> FALSE]),
         Token("Distribute", 5, 6, 4, << >>),
         Token("AdjustUserStatus", 5, 6, 0, [status |-> "Frozen"]),
         Token("AdjustUserStatus", 5, 6, 0, [status |-> "Unfrozen"]),
         Token("AdjustFee", 5, 0, 0, [fee_type |-> "Percentage", fee_rate |-> 100]),
         Token("TokenSend", 6, 1, 2, [fee |-> 1]), Token("TokenSend", 6, 1, 2, [fee |-> 2]),
         Token("Revoke", 5, 1, 3, [source |-> 6]),
         Token("WithdrawFee", 5, 1, 1, << >>)}]

\* Two controllers: 5 makes 6 one and takes it back, and both administer.
TokenControllers ==
    [start |-> 8, last |-> 8, max |-> 5,
     genesis |-> LET d == Genesis(8, 0, 0, 1 .. 4, {3, 4}, InTerm)
                 IN  ApplyToken(d, Issue(5 :> Acts({"UpdateController", "Issuance", "WithdrawLogos"}) \cup
                        {<<"Freeze", "modify">>, <<"Freeze", "value">>, <<"Whitelist", "value">>})),
     requests |->
        {Token("UpdateController", 5, 6, 0,
               [add |-> TRUE, privileges |-> Acts({"Burn", "Whitelist"}) \cup {<<"Freeze", "value">>}]),
         Token("UpdateController", 5, 6, 0, [add |-> FALSE, privileges |-> Acts({"Burn"})]),
         Token("UpdateController", 5, 6, 0, [add |-> FALSE, privileges |-> {}]),
         Token("ChangeSetting", 6, 0, 0, [setting |-> <<"Freeze", "value">>, enable |-> FALSE]),
         Token("ChangeSetting", 5, 0, 0, [setting |-> <<"Freeze", "modify">>, enable |-> TRUE]),
         Token("ChangeSetting", 5, 0, 0, [setting |-> <<"Whitelist", "value">>, enable |-> TRUE]),
         Token("ImmuteSetting", 5, 0, 0, [setting |-> <<"Freeze", "value">>]),
         Token("AdjustUserStatus", 6, 1, 0, [status |-> "Whitelisted"]),
         Token("AdjustUserStatus", 6, 1, 0, [status |-> "NotWhitelisted"]),
         Token("IssueAdditional", 5, 0, 3, << >>), Token("Burn", 6, 0, 4, << >>),
         Token("WithdrawLogos", 5, 1, 2, << >>), Request("Send", 1, 7, 1, Always)}]

MCScenarios ==
    [token_users |-> TokenUsers, token_controllers |-> TokenControllers,
     proxies |-> Proxies, self_stakes |-> SelfStakes, votes |-> Votes,
     first_election |-> FirstElection, claims |-> Claims]
=============================================================================
