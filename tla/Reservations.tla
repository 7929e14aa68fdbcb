---------------------------- MODULE Reservations ----------------------------
(***************************************************************************)
(* Account reservations, which keep conflicting requests from being        *)
(* approved at once by the sessions of different primaries                 *)
(* (reservations.cpp, and the parts of request_persistence.cpp and         *)
(* request_consensus_manager.cpp that use them).                           *)
(*                                                                         *)
(* Every delegate keeps its reservations in memory: it makes one when it   *)
(* approves of a request, as primary or as backup, and drops it when the   *)
(* request is applied; one that is RESERVATION_PERIOD epochs old may be    *)
(* overwritten.  A session is the consensus on one request; what happens   *)
(* within it is in DelegateConsensus, so here it has the delegates that    *)
(* approve, a quorum of which can post-commit it.                          *)
(***************************************************************************)
EXTENDS Naturals, FiniteSets

CONSTANTS
    Delegates,
    Requests,
    NoRequest,
    Sent,           \* what clients send to a delegate: [Delegates -> SUBSET Requests]
    Keys,           \* accounts and shares of users in tokens
    Account,        \* GetAccount: [Requests -> Keys]
    Reserves,       \* what a request reserves: [Requests -> SUBSET Keys]
    Previous,       \* [Requests -> Requests \cup {NoRequest}]
    Quorums,        \* epoch -> the sets of delegates that are a quorum in it
    Restarting,     \* delegates that may lose their memory
    Period,         \* RESERVATION_PERIOD
    FirstEpoch,
    Epochs,         \* the epochs of a behaviour
    MaxRounds       \* bounds how often requests are proposed

ASSUME RequestAssumption ==
    /\ Sent \in [Delegates -> SUBSET Requests]
    /\ NoRequest \notin Requests
    /\ Account \in [Requests -> Keys]
    /\ Reserves \in [Requests -> SUBSET Keys]
    /\ Previous \in [Requests -> Requests \cup {NoRequest}]
    /\ \A r \in Requests : Account[r] \in Reserves[r]

ASSUME EpochAssumption ==
    /\ Period \in Nat \ {0}
    /\ Epochs \subseteq Nat
    /\ FirstEpoch \in Epochs
    /\ MaxRounds \in Nat

\* Quorums of the same or of successive epochs share a delegate that does not
\* restart.  An election replaces a quarter of the delegates.
ASSUME QuorumAssumption ==
    /\ Quorums \in [Epochs -> SUBSET SUBSET Delegates]
    /\ \A e, f \in Epochs : e = f \/ e = f + 1 =>
          \A P \in Quorums[e], Q \in Quorums[f] : \E d \in P \cap Q : d \notin Restarting

VARIABLES
    epoch,          \* GetCurEpochNumber of every delegate
    cache,          \* _cache of every delegate
    head,           \* head of every account, per delegate
    applied,        \* the requests in every delegate's database
    session,        \* the session every primary is leading
    committed,      \* the sessions that were post-committed
    rounds          \* how often requests were proposed

vars == <<epoch, cache, head, applied, session, committed, rounds>>

NoReservation == [reservation |-> NoRequest, epoch |-> 0]

\* An approval, with the delegate's epoch and what it had applied by then.
Vote(d) == [delegate |-> d, epoch |-> epoch[d], seen |-> applied[d]]

NoSession == [request |-> NoRequest, epoch |-> 0, votes |-> {}]

IsOpen(p) == session[p].request # NoRequest

Voters(s) == {v.delegate : v \in s.votes}

-----------------------------------------------------------------------------
(***************************************************************************)
(* Validation                                                              *)
(***************************************************************************)

\* Mutant of CanAcquire: a reservation expires an epoch early.
CanAcquireEarly(d, key, r, allow_duplicates) ==
    LET info == cache[d][key]
    IN  IF info.reservation = r THEN allow_duplicates
        ELSE info.reservation # NoRequest => epoch[d] + 1 >= info.epoch + Period

\* The key is free, reserved by r itself, or its reservation has expired.
CanAcquire(d, key, r, allow_duplicates) ==
    LET info == cache[d][key]
    IN  IF info.reservation = r THEN allow_duplicates
        ELSE info.reservation # NoRequest => epoch[d] >= info.epoch + Period

\* ValidateRequest up to the checks that depend on the type.  A request that
\* has been applied passes as a duplicate.
ValidateRequest(d, r, allow_duplicates) ==
    /\ Previous[r] # NoRequest => Previous[r] \in applied[d]
    /\ \A key \in Reserves[r] : CanAcquire(d, key, r, allow_duplicates)
    /\ IF Previous[r] = head[d][Account[r]] THEN TRUE ELSE allow_duplicates /\ r \in applied[d]

\* Mutant of UpdateReservation: the source of the tokens is not reserved.
UpdateAccountOnly(d, r) ==
    cache' = [cache EXCEPT ![d][Account[r]] = [reservation |-> r, epoch |-> epoch[d]]]

\* UpdateReservation of the keys of a request.  It is called under the mutex
\* CanAcquire was called under, so its own check of the epoch passes.
UpdateReservation(d, r) ==
    cache' = [cache EXCEPT ![d] = [key \in Keys |->
        IF key \in Reserves[r] THEN [reservation |-> r, epoch |-> epoch[d]] ELSE @[key]]]

-----------------------------------------------------------------------------
(***************************************************************************)
(* Sessions                                                                *)
(***************************************************************************)

NextRound == rounds < MaxRounds /\ rounds' = rounds + 1

\* ConstructBatch of a new batch.
Propose(p, r) ==
    /\ ~IsOpen(p)
    /\ NextRound
    /\ ValidateRequest(p, r, FALSE)
    /\ UpdateReservation(p, r)
    /\ session' = [session EXCEPT ![p] = [request |-> r, epoch |-> epoch[p], votes |-> {Vote(p)}]]
    /\ UNCHANGED <<epoch, head, applied, committed>>

\* PrePrepareGetNext after QuorumFailed: the whole batch again.
ReproposeBatch(p) ==
    /\ IsOpen(p)
    /\ session' = [session EXCEPT ![p].votes = {v \in @ : v.delegate = p}]
    /\ UNCHANGED <<epoch, cache, head, applied, committed, rounds>>

\* PrePrepareGetNext after a rejection: a part of the batch is validated again
\* and may repeat a request, or the request is dropped.
ReproposeSubset(p) ==
    /\ IsOpen(p)
    /\ LET r == session[p].request
       IN  IF ValidateRequest(p, r, TRUE)
           THEN /\ UpdateReservation(p, r)
                /\ session' = [session EXCEPT ![p].votes = {Vote(p)}]
           ELSE /\ session' = [session EXCEPT ![p] = NoSession]
                /\ UNCHANGED cache
    /\ UNCHANGED <<epoch, head, applied, committed, rounds>>

\* The session ends undecided, with the epoch's delegates.
Abandon(p) ==
    /\ IsOpen(p)
    /\ session' = [session EXCEPT ![p] = NoSession]
    /\ UNCHANGED <<epoch, cache, head, applied, committed, rounds>>

\* ValidateBatch of a backup, whose clock may be an epoch ahead or behind.
Accept(b, p) ==
    /\ IsOpen(p)
    /\ b \notin Voters(session[p])
    /\ epoch[b] + 1 >= session[p].epoch /\ session[p].epoch + 1 >= epoch[b]
    /\ ValidateRequest(b, session[p].request, TRUE)
    /\ UpdateReservation(b, session[p].request)
    /\ session' = [session EXCEPT ![p].votes = @ \cup {Vote(b)}]
    /\ UNCHANGED <<epoch, head, applied, committed, rounds>>

PostCommit(p) ==
    /\ IsOpen(p)
    /\ \E Q \in Quorums[session[p].epoch] : Q \subseteq Voters(session[p])
    /\ committed' = committed \cup {session[p]}
    /\ session' = [session EXCEPT ![p] = NoSession]
    /\ UNCHANGED <<epoch, cache, head, applied, rounds>>
-----------------------------------------------------------------------------
(***************************************************************************)
(* Application, epochs and restarts                                        *)
(***************************************************************************)

\* Only the reservation of the request itself is dropped.
Release(d, r) ==
    cache' = [cache EXCEPT ![d] = [key \in Keys |->
        IF key \in Reserves[r] /\ @[key].reservation = r THEN NoReservation ELSE @[key]]]

\* ApplyUpdates of a block that may arrive repeatedly, from a primary or by
\* p2p, once the previous request of the account is there: it is applied or
\* ignored as a duplicate.
Apply(d, s) ==
    LET r == s.request
        a == Account[r]
    IN  /\ Previous[r] # NoRequest => Previous[r] \in applied[d]
        /\ IF Previous[r] = head[d][a]
           THEN /\ head' = [head EXCEPT ![d][a] = r]
                /\ applied' = [applied EXCEPT ![d] = @ \cup {r}]
           ELSE r \in applied[d] /\ UNCHANGED <<head, applied>>
        /\ Release(d, r)
        /\ UNCHANGED <<epoch, session, committed, rounds>>

\* By epoch x what delegate d has approved of RESERVATION_PERIOD epochs ago is
\* over and, if post-committed, applied; so is what was proposed two epochs
\* ago.  The code assumes as much of the length of an epoch.
Settled(d, x) ==
    /\ \A p \in Delegates : IsOpen(p) =>
          /\ x < session[p].epoch + 2
          /\ \A v \in session[p].votes : v.delegate = d => x < v.epoch + Period
    /\ \A s \in committed :
          x >= s.epoch + 2 \/ (\E v \in s.votes : v.delegate = d /\ x >= v.epoch + Period) =>
              s.request \in applied[d]

\* EpochStart; clocks differ by less than an epoch.
NextEpoch(d) ==
    /\ epoch[d] + 1 \in Epochs
    /\ \A c \in Delegates : epoch[d] <= epoch[c]
    /\ Settled(d, epoch[d] + 1)
    /\ epoch' = [epoch EXCEPT ![d] = @ + 1]
    /\ UNCHANGED <<cache, head, applied, session, committed, rounds>>

\* The cache is never written to the database.
Restart(d) ==
    /\ d \in Restarting
    /\ cache' = [cache EXCEPT ![d] = [key \in Keys |-> NoReservation]]
    /\ session' = [session EXCEPT ![d] = NoSession]
    /\ UNCHANGED <<epoch, head, applied, committed, rounds>>

-----------------------------------------------------------------------------
Init ==
    /\ epoch = [d \in Delegates |-> FirstEpoch]
    /\ cache = [d \in Delegates |-> [key \in Keys |-> NoReservation]]
    /\ head = [d \in Delegates |-> [key \in Keys |-> NoRequest]]
    /\ applied = [d \in Delegates |-> {}]
    /\ session = [d \in Delegates |-> NoSession]
    /\ committed = {}
    /\ rounds = 0

Next ==
    \/ \E p \in Delegates : \E r \in Sent[p] : Propose(p, r)
    \/ \E p \in Delegates : \/ ReproposeBatch(p)
                           \/ ReproposeSubset(p)
                           \/ Abandon(p)
                           \/ PostCommit(p)
    \/ \E b, p \in Delegates : Accept(b, p)
    \/ \E d \in Delegates, s \in committed : Apply(d, s)
    \/ \E d \in Delegates : NextEpoch(d) \/ Restart(d)

Spec == Init /\ [][Next]_vars

-----------------------------------------------------------------------------
(***************************************************************************)
(* Properties                                                              *)
(***************************************************************************)

\* Of two post-committed requests that reserve the same account, or the same
\* share in a token, one was approved by a delegate that had applied the
\* other: no two spend what was validated once, whoever proposed them, in
\* whatever epochs, and however often they were proposed again.
Serialized ==
    \A s, t \in committed :
        s.request # t.request /\ Reserves[s.request] \cap Reserves[t.request] # {} =>
            \/ \E v \in s.votes : t.request \in v.seen
            \/ \E v \in t.votes : s.request \in v.seen

\* No account's chain forks, so that ApplyRequest never meets the fork it
\* halts at, even when only a part of the delegates have applied a block.
NoFork ==
    \A s, t \in committed :
        /\ Account[s.request] = Account[t.request]
        /\ Previous[s.request] = Previous[t.request]
        => s.request = t.request
=============================================================================
