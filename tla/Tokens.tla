------------------------------- MODULE Tokens -------------------------------
(***************************************************************************)
(* A token: its account, the entries of the users that hold it and the     *)
(* requests of its controllers (token/, and the token parts of             *)
(* request_persistence.cpp).                                               *)
(*                                                                         *)
(* Besides the fields of Rewards the database record has                   *)
(*   token     NoToken, or the token account: its logos `balance',         *)
(*             total_supply, token_balance, token_fee_balance, fee_type,   *)
(*             fee_rate, controllers (account -> privileges) and the set   *)
(*             of the settings that are on                                 *)
(*   entries   account -> NoEntry, or its TokenEntry                       *)
(*   central   account -> NoStatus, or its status in the central list      *)
(* and, for the properties only, the status last ordered for every user.   *)
(* A setting is <<name, "value">> or <<name, "modify">>, a status the set  *)
(* of the flags that are up.  Names, symbols and the issuer's information  *)
(* are left out.                                                           *)
(***************************************************************************)
EXTENDS Rewards

CONSTANTS
    NoToken, NoEntry, NoStatus,
    TokenId,            \* the address of the token account
    MaxControllers

\* TokenRequest::GetAccount: whose chain a request is on, and who pays.
AdminTypes ==
    {"IssueAdditional", "ChangeSetting", "ImmuteSetting", "Revoke", "AdjustUserStatus", "AdjustFee",
     "UpdateController", "Burn", "Distribute", "WithdrawFee", "WithdrawLogos"}

GetAccount(r) == IF r.type \in AdminTypes THEN TokenId ELSE r.origin

GetSource(r) == IF r.type = "Revoke" THEN r.args.source ELSE r.origin

\* What a request reserves: its account, and for transfers between users the
\* source's share in the token.
ReservesAccount(r) == {<<GetAccount(r)>>}

Reserves(r) ==
    {<<GetAccount(r)>>}
      \cup (IF r.type \in {"Revoke", "TokenSend"} THEN {<<TokenId, GetSource(r)>>} ELSE {})

\* The privilege a controller needs (ControllerInfo::IsAuthorized): to change a
\* setting, or to act.
StatusSetting(status) == IF status \in {"Frozen", "Unfrozen"} THEN "Freeze" ELSE "Whitelist"

Privilege(r) ==
    CASE r.type = "IssueAdditional" -> <<"act", "Issuance">>
      [] r.type = "ChangeSetting" -> r.args.setting
      [] r.type = "ImmuteSetting" -> <<r.args.setting[1], "modify">>
      [] r.type = "AdjustUserStatus" -> <<"act", StatusSetting(r.args.status)>>
      [] OTHER -> <<"act", r.type>>

IsAuthorized(token, r) ==
    /\ r.origin \in DOMAIN token.controllers
    /\ Privilege(r) \in token.controllers[r.origin]

\* Whether the settings of the token account allow a request.
IsAllowed(token, r) ==
    CASE r.type = "IssueAdditional" -> <<"Issuance", "value">> \in token.settings
      [] r.type = "ChangeSetting" ->
            ~(r.args.setting[2] = "modify" /\ ~r.args.enable) =>
                <<r.args.setting[1], "modify">> \in token.settings
      [] r.type = "ImmuteSetting" -> r.args.setting[2] = "value"
      [] r.type \in {"Revoke", "AdjustFee"} -> <<r.type, "value">> \in token.settings
      [] r.type = "AdjustUserStatus" -> <<StatusSetting(r.args.status), "value">> \in token.settings
      [] OTHER -> TRUE

SendAllowed(token, status) ==
    /\ <<"Whitelist", "value">> \in token.settings => "whitelisted" \in status
    /\ <<"Freeze", "value">> \in token.settings => "frozen" \notin status

FeeSufficient(token, amount, fee) ==
    fee >= IF token.fee_type = "Flat" THEN token.fee_rate ELSE (token.fee_rate * amount) \div 100

\* The status of a user is in its entry once it has one.
StatusOf(db, a) ==
    CASE db.entries[a] # NoEntry -> db.entries[a].status
      [] db.entries[a] = NoEntry /\ db.central[a] # NoStatus -> db.central[a]
      [] OTHER -> {}

\* validate_destination: only users receive tokens.
ValidDestination(db, a) == a \in DOMAIN db.entries /\ SendAllowed(db.token, StatusOf(db, a))

\* Request::Validate of the requests that look at the token account.
ValidateAdmin(token, r) ==
    CASE r.type \in {"Burn", "Distribute"} -> r.amount <= token.token_balance
      [] r.type = "WithdrawFee" -> r.amount <= token.token_fee_balance
      [] r.type = "WithdrawLogos" -> r.amount <= token.balance
      [] r.type = "UpdateController" ->
            r.target \notin DOMAIN token.controllers =>
                r.args.add /\ Cardinality(DOMAIN token.controllers) # MaxControllers
      [] OTHER -> TRUE

ValidateTokenAdminRequest(db, r) ==
    /\ IsAuthorized(db.token, r)
    /\ IsAllowed(db.token, r)
    /\ ValidateAdmin(db.token, r)

HasTokens(db, a, amount) == db.entries[a] # NoEntry /\ amount <= db.entries[a].balance

ValidateTokenTransfer(db, r) ==
    CASE r.type = "Revoke" -> ValidDestination(db, r.target) /\ HasTokens(db, r.args.source, r.amount)
      [] r.type = "TokenSend" ->
            /\ HasTokens(db, r.origin, r.amount + r.args.fee)
            /\ SendAllowed(db.token, db.entries[r.origin].status)
            /\ ValidDestination(db, r.target)
            /\ FeeSufficient(db.token, r.amount, r.args.fee)
      [] r.type \in {"Distribute", "WithdrawFee"} -> ValidDestination(db, r.target)
      [] OTHER -> TRUE

ValidateToken(db, r) ==
    IF r.type = "Issuance"
    THEN db.token = NoToken /\ Cardinality(DOMAIN r.args.controllers) <= MaxControllers
    ELSE /\ db.token # NoToken
         /\ r.type \in AdminTypes => ValidateTokenAdminRequest(db, r)
         /\ ValidateTokenTransfer(db, r)

-----------------------------------------------------------------------------
(***************************************************************************)
(* Application                                                             *)
(***************************************************************************)

\* ApplySend of a token: the first tokens tether the account, whose status
\* moves from the central list to its entry.
TetherAnew(db, a, amount) ==
    IF db.entries[a] # NoEntry THEN [db EXCEPT !.entries[a].balance = @ + amount]
    ELSE [db EXCEPT !.entries[a] = [balance |-> amount, status |-> {}], !.central[a] = NoStatus]

ApplyTokenSend(db, a, amount) ==
    IF db.entries[a] # NoEntry THEN [db EXCEPT !.entries[a].balance = @ + amount]
    ELSE [db EXCEPT !.entries[a] = [balance |-> amount, status |-> StatusOf(db, a)],
                    !.central[a] = NoStatus]

\* do_adjust_status
Adjusted(status, change) ==
    CASE change = "Frozen" -> status \cup {"frozen"}
      [] change = "Unfrozen" -> status \ {"frozen"}
      [] change = "Whitelisted" -> status \cup {"whitelisted"}
      [] change = "NotWhitelisted" -> status \ {"whitelisted"}

AdjustUserStatus(db, a, change) ==
    LET ordered == [db EXCEPT !.ordered[a] = Adjusted(@, change)]
    IN  IF db.entries[a] # NoEntry
        THEN [ordered EXCEPT !.entries[a].status = Adjusted(@, change)]
        ELSE [ordered EXCEPT !.central[a] = Adjusted(StatusOf(db, a), change)]

\* Privileges are added or taken one by one; a removal that names none
\* removes the controller.
UpdateController(controllers, r) ==
    CASE r.args.add /\ r.target \in DOMAIN controllers ->
            [controllers EXCEPT ![r.target] = @ \cup r.args.privileges]
      [] r.args.add /\ r.target \notin DOMAIN controllers ->
            Put(controllers, r.target, r.args.privileges)
      [] ~r.args.add /\ r.args.privileges = {} -> Erase(controllers, r.target)
      [] OTHER -> [controllers EXCEPT ![r.target] = @ \ r.args.privileges]

ApplyIssuance(db, r) ==
    [db EXCEPT !.token = [balance |-> r.args.grant, total_supply |-> r.amount,
                          token_balance |-> r.amount, token_fee_balance |-> 0,
                          fee_type |-> r.args.fee_type, fee_rate |-> r.args.fee_rate,
                          controllers |-> r.args.controllers, settings |-> r.args.settings]]

\* The sender's account is stored last.
ApplyTransfer(db, r) ==
    LET left == db.entries[r.origin].balance - r.amount - r.args.fee
        fees == [db EXCEPT !.token.token_fee_balance = @ + r.args.fee]
    IN  [ApplyTokenSend(fees, r.target, r.amount) EXCEPT !.entries[r.origin].balance = left]

\* The part of ApplyRequest that depends on the type; WithdrawLogos, which
\* pays logos, is in Governance.
ApplyToken(db, r) ==
    CASE r.type = "Issuance" -> ApplyIssuance(db, r)
      [] r.type = "IssueAdditional" ->
            [db EXCEPT !.token.token_balance = @ + r.amount, !.token.total_supply = @ + r.amount]
      [] r.type = "ChangeSetting" ->
            [db EXCEPT !.token.settings =
                IF r.args.enable THEN @ \cup {r.args.setting} ELSE @ \ {r.args.setting}]
      [] r.type = "ImmuteSetting" ->
            [db EXCEPT !.token.settings = @ \ {<<r.args.setting[1], "modify">>}]
      [] r.type = "Revoke" ->
            ApplyTokenSend([db EXCEPT !.entries[r.args.source].balance = @ - r.amount],
                           r.target, r.amount)
      [] r.type = "AdjustUserStatus" -> AdjustUserStatus(db, r.target, r.args.status)
      [] r.type = "AdjustFee" ->
            [db EXCEPT !.token.fee_type = r.args.fee_type, !.token.fee_rate = r.args.fee_rate]
      [] r.type = "UpdateController" ->
            [db EXCEPT !.token.controllers = UpdateController(@, r)]
      [] r.type = "Burn" ->
            [db EXCEPT !.token.total_supply = @ - r.amount, !.token.token_balance = @ - r.amount]
      [] r.type = "Distribute" ->
            ApplyTokenSend([db EXCEPT !.token.token_balance = @ - r.amount], r.target, r.amount)
      [] r.type = "WithdrawFee" ->
            ApplyTokenSend([db EXCEPT !.token.token_fee_balance = @ - r.amount], r.target, r.amount)
      [] r.type = "TokenSend" -> ApplyTransfer(db, r)
=============================================================================
