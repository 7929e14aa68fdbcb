------------------------- MODULE ReservationsProofs -------------------------
(***************************************************************************)
(* No two conflicting requests are approved without one knowing the other, *)
(* and no account's chain forks, for any delegates, requests, weights and  *)
(* number of epochs.                                                       *)
(*                                                                         *)
(* The argument: two quorums share a delegate that has voted for both and  *)
(* has not lost its memory.  From its first vote on it held a reservation  *)
(* (Kept), which only the application of the request or its expiry ends,   *)
(* and by then the request was applied (Settled); so its second vote had   *)
(* seen the first request.  Sessions too far apart in epochs to share a    *)
(* delegate are kept apart by their primaries' own votes.                  *)
(***************************************************************************)
EXTENDS Reservations, TLAPS

(* The provers a leaf is tried with, and their time in seconds *)
USE SMTT(30), ZenonT(30)

Live == committed \cup {session[p] : p \in {q \in Delegates : IsOpen(q)}}

Ballot == [delegate : Delegates, epoch : Epochs, seen : SUBSET Requests]

Session == [request : Requests, epoch : Epochs, votes : SUBSET Ballot]

TypeOK ==
    /\ epoch \in [Delegates -> Epochs]
    /\ cache \in [Delegates -> [Keys -> [reservation : Requests \cup {NoRequest}, epoch : Nat]]]
    /\ head \in [Delegates -> [Keys -> Requests \cup {NoRequest}]]
    /\ applied \in [Delegates -> SUBSET Requests]
    /\ session \in [Delegates -> Session \cup {NoSession}]
    /\ committed \in SUBSET Session

Conflict(r, q) == r # q /\ Reserves[r] \cap Reserves[q] # {}

SamePlace(r, q) == Account[r] = Account[q] /\ Previous[r] = Previous[q]

Clocks == \A c, d \in Delegates : epoch[c] <= epoch[d] + 1

\* What is applied has its predecessor, is not what the chain waits for, and
\* is alone at its place.
Chains ==
    \A d \in Delegates : \A r \in applied[d] :
        /\ Previous[r] # NoRequest => Previous[r] \in applied[d]
        /\ Previous[r] # head[d][Account[r]]
        /\ \A q \in applied[d] : SamePlace(r, q) => r = q

\* While a request is not applied, who voted for it holds its reservations,
\* made in the epoch of the vote or later.
Kept(r, v) ==
    \/ r \in applied[v.delegate]
    \/ \A k \in Reserves[r] : /\ cache[v.delegate][k].reservation = r
                              /\ cache[v.delegate][k].epoch >= v.epoch

VoteOK(r, v) ==
    /\ epoch[v.delegate] >= v.epoch
    /\ epoch[v.delegate] >= v.epoch + Period => r \in applied[v.delegate]
    /\ \A q \in v.seen : SamePlace(r, q) => r = q
    /\ v.delegate \notin Restarting => Kept(r, v)

Votes == \A s \in Live : \A v \in s.votes : VoteOK(s.request, v)

SessionAge(r, e) ==
    \A d \in Delegates : /\ epoch[d] + 1 >= e
                         /\ epoch[d] >= e + 2 => r \in applied[d]

Ages == \A s \in Live : SessionAge(s.request, s.epoch)

\* Of two votes of one delegate for conflicting requests one has seen the
\* other request.
Pairs ==
    \A s, t \in Live : Conflict(s.request, t.request) =>
        \A v \in s.votes, w \in t.votes :
            v.delegate = w.delegate /\ v.delegate \notin Restarting =>
                t.request \in v.seen \/ s.request \in w.seen

\* The vote has seen every session of two or more epochs earlier.
SeesOld(e, v) == \A t \in Live : t.epoch + 2 <= e => t.request \in v.seen

Leaders ==
    \A p \in Delegates : IsOpen(p) =>
        /\ epoch[p] >= session[p].epoch
        /\ \E v \in session[p].votes : v.delegate = p /\ SeesOld(session[p].epoch, v)

Decided ==
    \A s \in committed :
        /\ \E Q \in Quorums[s.epoch] : Q \subseteq Voters(s)
        /\ \E v \in s.votes : SeesOld(s.epoch, v)

IInv ==
    /\ TypeOK
    /\ Clocks
    /\ Chains
    /\ Votes
    /\ Ages
    /\ Pairs
    /\ Leaders
    /\ Decided

-----------------------------------------------------------------------------
LEMMA LiveMember ==
    ASSUME NEW s
    PROVE  s \in Live <=> s \in committed \/ \E p \in Delegates : IsOpen(p) /\ s = session[p]
BY Zenon DEF Live

LEMMA LiveType ==
    ASSUME TypeOK, NEW s \in Live
    PROVE  s \in Session
BY RequestAssumption DEF TypeOK, Live, IsOpen, NoSession

\* What the database and the cache of a delegate say when it approves of a
\* request: the request is alone at its place of the chain, and every other
\* request the delegate has approved of and that conflicts is applied.
LEMMA Approval ==
    ASSUME IInv, NEW d \in Delegates, NEW r \in Requests, NEW dup \in BOOLEAN,
           ValidateRequest(d, r, dup)
    PROVE  /\ \A q \in applied[d] : SamePlace(r, q) => r = q
           /\ \A s \in Live : \A v \in s.votes :
                 v.delegate = d /\ d \notin Restarting /\ Conflict(s.request, r) =>
                     s.request \in applied[d]
<1>1. ASSUME NEW q \in applied[d], SamePlace(r, q)
      PROVE  r = q
  <2>1. CASE Previous[r] = head[d][Account[r]]
    BY <1>1, <2>1, Zenon DEF IInv, Chains, SamePlace
  <2>2. CASE r \in applied[d]
    BY <1>1, <2>2, Zenon DEF IInv, Chains
  <2> QED  BY <2>1, <2>2, Zenon DEF ValidateRequest
<1>2. ASSUME NEW s \in Live, NEW v \in s.votes, v.delegate = d, d \notin Restarting,
             Conflict(s.request, r), s.request \notin applied[d]
      PROVE  FALSE
  <2>1. s \in Session
    BY LiveType, Zenon DEF IInv
  <2>2. VoteOK(s.request, v)
    BY Zenon DEF IInv, Votes
  <2>3. PICK k \in Reserves[s.request] : k \in Reserves[r]
    BY <1>2, Zenon DEF Conflict
  <2>4. cache[d][k].reservation = s.request /\ cache[d][k].epoch >= v.epoch
    BY <1>2, <2>2, <2>3, Zenon DEF VoteOK, Kept
  <2>5. s.request # NoRequest /\ s.request # r
    BY <1>2, <2>1, RequestAssumption, Zenon DEF Session, Conflict
  <2>6. epoch[d] >= cache[d][k].epoch + Period
    BY <2>3, <2>4, <2>5, Zenon DEF ValidateRequest, CanAcquire
  <2>7. /\ epoch[d] \in Nat /\ cache[d][k].epoch \in Nat /\ v.epoch \in Nat /\ Period \in Nat
    <3>1. k \in Keys
      BY <2>1, <2>3, RequestAssumption, Zenon DEF Session
    <3>2. v \in Ballot
      BY <2>1, Zenon DEF Session
    <3>3. v.epoch \in Nat /\ Period \in Nat
      BY <3>2, EpochAssumption, Zenon DEF Ballot
    <3>4. epoch[d] \in Nat
      BY EpochAssumption, Zenon DEF IInv, TypeOK
    <3>5. cache[d][k].epoch \in Nat
      BY <3>1, Zenon DEF IInv, TypeOK
    <3> QED  BY <3>3, <3>4, <3>5, Zenon
  <2>8. epoch[d] >= v.epoch + Period
    BY <2>4, <2>6, <2>7
  <2> QED  BY <1>2, <2>2, <2>8, Zenon DEF VoteOK
<1> QED  BY <1>1, <1>2, Zenon

\* A reservation made for one request does not end what the delegate keeps
\* for the requests it has voted for.
LEMMA ReservationKept ==
    ASSUME IInv, NEW d \in Delegates, NEW r \in Requests, NEW dup \in BOOLEAN,
           ValidateRequest(d, r, dup), UpdateReservation(d, r), UNCHANGED <<epoch, applied>>,
           NEW s \in Live, NEW v \in s.votes
    PROVE  VoteOK(s.request, v)'
<1>1. s \in Session /\ v \in Ballot
  BY LiveType, Zenon DEF IInv, Session
<1>2. VoteOK(s.request, v)
  BY Zenon DEF IInv, Votes
<1>3. SUFFICES ASSUME v.delegate \notin Restarting, s.request \notin applied[v.delegate],
                      NEW k \in Reserves[s.request]
               PROVE  /\ cache'[v.delegate][k].reservation = s.request
                      /\ cache'[v.delegate][k].epoch >= v.epoch
  BY <1>1, <1>2, Zenon DEF VoteOK, Kept, SamePlace
<1>4. cache[v.delegate][k].reservation = s.request /\ cache[v.delegate][k].epoch >= v.epoch
  BY <1>2, <1>3, Zenon DEF VoteOK, Kept
<1>5. k \in Keys /\ v.delegate \in Delegates
  BY <1>1, RequestAssumption, Zenon DEF Session, Ballot
<1>6. cache'[v.delegate] = IF v.delegate = d
                           THEN [key \in Keys |-> IF key \in Reserves[r]
                                    THEN [reservation |-> r, epoch |-> epoch[d]]
                                    ELSE cache[d][key]]
                           ELSE cache[v.delegate]
  BY <1>5, Zenon DEF UpdateReservation, IInv, TypeOK
<1>7. CASE v.delegate = d /\ k \in Reserves[r]
  <2>1. s.request = r
    BY <1>3, <1>7, Approval DEF Conflict
  <2> QED  BY <1>2, <1>5, <1>6, <1>7, <2>1 DEF VoteOK
<1>8. CASE ~(v.delegate = d /\ k \in Reserves[r])
  BY <1>4, <1>5, <1>6, <1>8
<1> QED  BY <1>7, <1>8, Zenon

\* A session in which the approval of d is added to votes it had, if any.
LEMMA Approve ==
    ASSUME IInv, NEW p \in Delegates, NEW d \in Delegates, NEW dup \in BOOLEAN, NEW n \in Session,
           ValidateRequest(d, n.request, dup), UpdateReservation(d, n.request),
           UNCHANGED <<epoch, head, applied, committed>>,
           session' = [session EXCEPT ![p] = n],
           \A v \in n.votes : \/ v = Vote(d)
                              \/ IsOpen(p) /\ n.request = session[p].request /\ v \in session[p].votes,
           SessionAge(n.request, n.epoch),
           epoch[p] >= n.epoch,
           \E v \in n.votes : v.delegate = p /\ SeesOld(n.epoch, v),
           \A s \in Live : n.epoch + 2 <= s.epoch =>
               \E t \in Live : t.request = n.request /\ t.epoch = n.epoch
    PROVE  IInv'
<1> DEFINE r == n.request
<1>1. n.request \in Requests /\ n.epoch \in Nat
  BY EpochAssumption, Zenon DEF Session
<1>2. session' \in [Delegates -> Session \cup {NoSession}] /\ session'[p] = n
      /\ \A q \in Delegates : q # p => session'[q] = session[q]
  BY Zenon DEF IInv, TypeOK
<1>3. \A s \in Live' : s \in Live \/ s = n
  BY <1>2, LiveMember, Zenon DEF Live, IsOpen
<1>4. IsOpen(p) => session[p] \in Live
  BY Zenon DEF Live
<1>5. \A v \in n.votes : \/ v = Vote(d)
                         \/ \E s \in Live : s.request = n.request /\ v \in s.votes
  BY <1>4, Zenon
<1>6. TypeOK'
  <2>1. epoch[d] \in Nat
    BY EpochAssumption, Zenon DEF IInv, TypeOK
  <2>2. cache' \in [Delegates -> [Keys -> [reservation : Requests \cup {NoRequest}, epoch : Nat]]]
    BY <1>1, <2>1 DEF IInv, TypeOK, UpdateReservation
  <2> QED  BY <1>2, <2>2, Zenon DEF IInv, TypeOK
<1>7. Clocks'
  BY Zenon DEF IInv, Clocks
<1>8. Chains'
  BY DEF IInv, Chains, SamePlace
<1>9. Votes'
  <2>1. SUFFICES ASSUME NEW s \in Live', NEW v \in s.votes
                 PROVE  VoteOK(s.request, v)'
    BY Zenon DEF Votes
  <2>2. ASSUME NEW t \in Live, v \in t.votes, t.request = s.request
        PROVE  VoteOK(s.request, v)'
    <3>1. VoteOK(t.request, v)'
      BY <1>1, <2>2, ReservationKept, Zenon
    <3> QED  BY <2>2, <3>1, Zenon
  <2>3. CASE s = n /\ v = Vote(d)
    <3>1. v.delegate = d /\ v.epoch = epoch[d] /\ v.seen = applied[d]
      BY <2>3, Zenon DEF Vote
    <3>2. epoch[d] \in Nat /\ Period \in Nat /\ Period > 0
      <4>1. epoch[d] \in Nat
        BY EpochAssumption, Zenon DEF IInv, TypeOK
      <4>2. Period \in Nat /\ Period > 0
        BY EpochAssumption
      <4> QED  BY <4>1, <4>2, Zenon
    <3>3. \A q \in applied[d] : SamePlace(n.request, q) => n.request = q
      BY <1>1, Approval
    <3>4. \A k \in Reserves[n.request] : cache'[d][k] = [reservation |-> n.request, epoch |-> epoch[d]]
      BY <1>1, RequestAssumption, Zenon DEF UpdateReservation, IInv, TypeOK
    <3> QED  BY <2>3, <3>1, <3>2, <3>3, <3>4 DEF VoteOK, Kept, SamePlace
  <2> QED  BY <1>3, <1>5, <2>2, <2>3, Zenon
<1>10. Ages'
  <2>1. SUFFICES ASSUME NEW s \in Live' PROVE SessionAge(s.request, s.epoch)'
    BY Zenon DEF Ages
  <2>2. SessionAge(s.request, s.epoch)
    BY <1>3, Zenon DEF IInv, Ages
  <2> QED  BY <2>2, Zenon DEF SessionAge
<1>11. Pairs'
  <2>1. SUFFICES ASSUME NEW s \in Live', NEW t \in Live', Conflict(s.request, t.request),
                        NEW v \in s.votes, NEW w \in t.votes,
                        v.delegate = w.delegate, v.delegate \notin Restarting
                 PROVE  t.request \in v.seen \/ s.request \in w.seen
    BY Zenon DEF Pairs, Conflict
  <2>2. CASE s = n /\ t = n
    BY <2>1, <2>2, Zenon DEF Conflict
  <2>3. CASE s = n /\ v = Vote(d) /\ t \in Live
    <3>1. t.request \in applied[d]
      BY <1>1, <2>1, <2>3, Approval DEF Vote, Conflict
    <3> QED  BY <2>3, <3>1, Zenon DEF Vote
  <2>4. CASE t = n /\ w = Vote(d) /\ s \in Live
    <3>1. s.request \in applied[d]
      BY <1>1, <2>1, <2>4, Approval DEF Vote
    <3> QED  BY <2>4, <3>1, Zenon DEF Vote
  <2>5. ASSUME NEW x \in Live, NEW y \in Live, x.request = s.request, y.request = t.request,
               v \in x.votes, w \in y.votes
        PROVE  t.request \in v.seen \/ s.request \in w.seen
    BY <2>1, <2>5, Zenon DEF IInv, Pairs
  <2>6. s \in Live \/ (s = n /\ (v = Vote(d) \/ \E x \in Live : x.request = s.request /\ v \in x.votes))
    BY <1>3, <1>5, Zenon
  <2>7. t \in Live \/ (t = n /\ (w = Vote(d) \/ \E x \in Live : x.request = t.request /\ w \in x.votes))
    BY <1>3, <1>5, Zenon
  <2> QED  BY <2>2, <2>3, <2>4, <2>5, <2>6, <2>7, Zenon
<1>12. ASSUME NEW s \in Live \cup {n}, NEW v, SeesOld(s.epoch, v)
       PROVE  SeesOld(s.epoch, v)'
  <2>1. SUFFICES ASSUME n.epoch + 2 <= s.epoch PROVE n.request \in v.seen
    BY <1>3, <1>12, Zenon DEF SeesOld
  <2>2. PICK t \in Live : t.request = n.request /\ t.epoch = n.epoch
    BY <1>1, <2>1
  <2> QED  BY <1>12, <2>1, <2>2, Zenon DEF SeesOld
<1>13. Leaders'
  <2>1. SUFFICES ASSUME NEW q \in Delegates, IsOpen(q)'
                 PROVE  (/\ epoch[q] >= session[q].epoch
                         /\ \E v \in session[q].votes : v.delegate = q /\ SeesOld(session[q].epoch, v))'
    BY Zenon DEF Leaders
  <2>2. CASE q = p
    <3>1. PICK v \in n.votes : v.delegate = p /\ SeesOld(n.epoch, v)
      BY Zenon
    <3>2. SeesOld(n.epoch, v)'
      BY <1>12, <3>1, Zenon
    <3> QED  BY <1>2, <2>2, <3>1, <3>2, Zenon DEF SeesOld
  <2>3. CASE q # p
    <3>1. IsOpen(q) /\ session'[q] = session[q] /\ session[q] \in Live
      BY <1>2, <2>1, <2>3, Zenon DEF IsOpen, Live
    <3>2. PICK v \in session[q].votes : v.delegate = q /\ SeesOld(session[q].epoch, v)
      BY <3>1, Zenon DEF IInv, Leaders
    <3>3. SeesOld(session[q].epoch, v)'
      BY <1>12, <3>1, <3>2, Zenon
    <3> QED  BY <3>1, <3>2, <3>3, Zenon DEF IInv, Leaders, SeesOld
  <2> QED  BY <2>2, <2>3, Zenon
<1>14. Decided'
  <2>1. SUFFICES ASSUME NEW s \in committed
                 PROVE  \E v \in s.votes : SeesOld(s.epoch, v)'
    BY Zenon DEF Decided, IInv, Voters
  <2>2. PICK v \in s.votes : SeesOld(s.epoch, v)
    BY Zenon DEF IInv, Decided
  <2> QED  BY <1>12, <2>2, Zenon DEF Live
<1> QED  BY <1>6, <1>7, <1>8, <1>9, <1>10, <1>11, <1>13, <1>14, Zenon DEF IInv

\* A step after which no session has votes that it had not before, and only
\* delegates that restart lose reservations.
LEMMA Fewer ==
    ASSUME IInv, TypeOK', UNCHANGED <<epoch, head, applied>>,
           \A d \in Delegates : d \notin Restarting => cache'[d] = cache[d],
           \A s \in Live' : \E t \in Live :
               t.request = s.request /\ t.epoch = s.epoch /\ s.votes \subseteq t.votes,
           \A p \in Delegates : IsOpen(p)' =>
               /\ IsOpen(p) /\ session'[p].epoch = session[p].epoch
               /\ \A v \in session[p].votes : v.delegate = p => v \in session'[p].votes,
           \A s \in committed' : /\ \E Q \in Quorums[s.epoch] : Q \subseteq Voters(s)
                                 /\ \E v \in s.votes : SeesOld(s.epoch, v)
    PROVE  IInv'
<1>1. Clocks' /\ Chains'
  BY DEF IInv, Clocks, Chains, SamePlace
<1>2. Votes'
  <2>1. SUFFICES ASSUME NEW s \in Live', NEW v \in s.votes
                 PROVE  VoteOK(s.request, v)'
    BY Zenon DEF Votes
  <2>2. PICK t \in Live : t.request = s.request /\ s.votes \subseteq t.votes
    BY Zenon
  <2>3. VoteOK(t.request, v) /\ v \in Ballot
    BY <2>2, LiveType, Zenon DEF IInv, Votes, Session
  <2>4. v.delegate \in Delegates
    BY <2>3, Zenon DEF Ballot
  <2> QED  BY <2>2, <2>3, <2>4, Zenon DEF VoteOK, Kept, SamePlace
<1>3. Ages'
  <2>1. SUFFICES ASSUME NEW s \in Live' PROVE SessionAge(s.request, s.epoch)'
    BY Zenon DEF Ages
  <2> QED  BY Zenon DEF IInv, Ages, SessionAge
<1>4. Pairs'
  <2>1. SUFFICES ASSUME NEW s \in Live', NEW t \in Live', Conflict(s.request, t.request),
                        NEW v \in s.votes, NEW w \in t.votes,
                        v.delegate = w.delegate, v.delegate \notin Restarting
                 PROVE  t.request \in v.seen \/ s.request \in w.seen
    BY Zenon DEF Pairs, Conflict
  <2>2. PICK x \in Live : x.request = s.request /\ s.votes \subseteq x.votes
    BY Zenon
  <2>3. PICK y \in Live : y.request = t.request /\ t.votes \subseteq y.votes
    BY Zenon
  <2> QED  BY <2>1, <2>2, <2>3 DEF IInv, Pairs
<1>5. ASSUME NEW e, NEW v, SeesOld(e, v)
      PROVE  SeesOld(e, v)'
  BY <1>5, Zenon DEF SeesOld
<1>6. Leaders'
  <2>1. SUFFICES ASSUME NEW q \in Delegates, IsOpen(q)'
                 PROVE  (/\ epoch[q] >= session[q].epoch
                         /\ \E v \in session[q].votes : v.delegate = q /\ SeesOld(session[q].epoch, v))'
    BY Zenon DEF Leaders
  <2>2. IsOpen(q) /\ session'[q].epoch = session[q].epoch
    BY <2>1, Zenon
  <2>3. PICK v \in session[q].votes : v.delegate = q /\ SeesOld(session[q].epoch, v)
    BY <2>2, Zenon DEF IInv, Leaders
  <2>4. v \in session'[q].votes /\ SeesOld(session[q].epoch, v)'
    BY <1>5, <2>1, <2>3, Zenon
  <2> QED  BY <2>2, <2>3, <2>4, Zenon DEF IInv, Leaders, SeesOld
<1>7. Decided'
  <2>1. SUFFICES ASSUME NEW s \in committed'
                 PROVE  (/\ \E Q \in Quorums[s.epoch] : Q \subseteq Voters(s)
                         /\ \E v \in s.votes : SeesOld(s.epoch, v))'
    BY Zenon DEF Decided
  <2>2. \E Q \in Quorums[s.epoch] : Q \subseteq Voters(s)
    BY Zenon
  <2>3. PICK v \in s.votes : SeesOld(s.epoch, v)
    BY Zenon
  <2>4. SeesOld(s.epoch, v)'
    BY <1>5, <2>3, Zenon
  <2> QED  BY <2>2, <2>3, <2>4, Zenon DEF Voters
<1> QED  BY <1>1, <1>2, <1>3, <1>4, <1>6, <1>7, Zenon DEF IInv

LEMMA ProposeStep ==
    ASSUME IInv, NEW p \in Delegates, NEW r \in Sent[p], Propose(p, r)
    PROVE  IInv'
<1> DEFINE n == [request |-> r, epoch |-> epoch[p], votes |-> {Vote(p)}]
<1>1. r \in Requests
  BY RequestAssumption, Zenon
<1>2. Vote(p) \in Ballot
  BY Zenon DEF IInv, TypeOK, Ballot, Vote
<1>3. n \in Session /\ n.request = r /\ n.epoch = epoch[p] /\ n.votes = {Vote(p)}
  BY <1>1, <1>2, Zenon DEF Session, IInv, TypeOK
<1>4. \A d \in Delegates : epoch[d] \in Nat
  BY EpochAssumption, Zenon DEF IInv, TypeOK
<1>5. SessionAge(r, epoch[p])
  BY <1>4 DEF IInv, Clocks, SessionAge
<1>6. Vote(p).delegate = p /\ SeesOld(epoch[p], Vote(p))
  <2>1. ASSUME NEW t \in Live, t.epoch + 2 <= epoch[p]
        PROVE  t.request \in applied[p]
    <3>1. t.epoch \in Nat
      BY LiveType, EpochAssumption, Zenon DEF IInv, Session
    <3> QED  BY <1>4, <2>1, <3>1, Zenon DEF IInv, Ages, SessionAge
  <2> QED  BY <2>1, Zenon DEF Vote, SeesOld
<1>7. \A s \in Live : ~(epoch[p] + 2 <= s.epoch)
  <2>1. SUFFICES ASSUME NEW s \in Live PROVE ~(epoch[p] + 2 <= s.epoch)
    BY Zenon
  <2>2. s.epoch \in Nat
    BY LiveType, EpochAssumption, Zenon DEF IInv, Session
  <2> QED  BY <1>4, <2>2 DEF IInv, Ages, SessionAge
<1>8. epoch[p] >= epoch[p]
  BY <1>4
<1> HIDE DEF n
<1>9. session' = [session EXCEPT ![p] = n] /\ UNCHANGED <<epoch, head, applied, committed>>
      /\ ValidateRequest(p, r, FALSE) /\ UpdateReservation(p, r)
  BY Zenon DEF Propose, n
<1> QED  BY <1>3, <1>5, <1>6, <1>7, <1>8, <1>9, Approve, Zenon

LEMMA AcceptStep ==
    ASSUME IInv, NEW b \in Delegates, NEW p \in Delegates, Accept(b, p)
    PROVE  IInv'
<1> DEFINE s == session[p]
           n == [s EXCEPT !.votes = @ \cup {Vote(b)}]
<1>1. IsOpen(p) /\ s \in Live /\ s \in Session
  BY LiveType, Zenon DEF Accept, Live, IInv
<1>2. Vote(b) \in Ballot
  BY Zenon DEF IInv, TypeOK, Ballot, Vote
<1>3. n \in Session /\ n.request = s.request /\ n.epoch = s.epoch /\ n.votes = s.votes \cup {Vote(b)}
  BY <1>1, <1>2, Zenon DEF Session
<1>4. SessionAge(s.request, s.epoch)
  BY <1>1, Zenon DEF IInv, Ages
<1>5. epoch[p] >= s.epoch /\ \E v \in s.votes : v.delegate = p /\ SeesOld(s.epoch, v)
  BY <1>1, Zenon DEF IInv, Leaders
<1>6. session' = [session EXCEPT ![p] = n] /\ UNCHANGED <<epoch, head, applied, committed>>
      /\ ValidateRequest(b, s.request, TRUE) /\ UpdateReservation(b, s.request)
  BY Zenon DEF Accept, IInv, TypeOK
<1> HIDE DEF n
<1> QED  BY <1>1, <1>3, <1>4, <1>5, <1>6, Approve, Zenon

LEMMA ReproposeSubsetStep ==
    ASSUME IInv, NEW p \in Delegates, ReproposeSubset(p)
    PROVE  IInv'
<1> DEFINE s == session[p]
           n == [s EXCEPT !.votes = {Vote(p)}]
<1>1. IsOpen(p) /\ s \in Live /\ s \in Session
  BY LiveType, Zenon DEF ReproposeSubset, Live, IInv
<1>2. CASE ValidateRequest(p, s.request, TRUE)
  <2>1. Vote(p) \in Ballot
    BY Zenon DEF IInv, TypeOK, Ballot, Vote
  <2>2. n \in Session /\ n.request = s.request /\ n.epoch = s.epoch /\ n.votes = {Vote(p)}
    BY <1>1, <2>1, Zenon DEF Session
  <2>3. SessionAge(s.request, s.epoch) /\ epoch[p] >= s.epoch
    BY <1>1, Zenon DEF IInv, Ages, Leaders
  <2>4. Vote(p).delegate = p /\ SeesOld(s.epoch, Vote(p))
    <3>1. ASSUME NEW t \in Live, t.epoch + 2 <= s.epoch
          PROVE  t.request \in applied[p]
      <4>1. t.epoch \in Nat /\ s.epoch \in Nat
        BY <1>1, LiveType, EpochAssumption, Zenon DEF IInv, Session
      <4>2. epoch[p] \in Nat
        BY EpochAssumption, Zenon DEF IInv, TypeOK
      <4> QED  BY <2>3, <3>1, <4>1, <4>2 DEF IInv, Ages, SessionAge
    <3> QED  BY <3>1, Zenon DEF Vote, SeesOld
  <2>5. session' = [session EXCEPT ![p] = n] /\ UNCHANGED <<epoch, head, applied, committed>>
        /\ UpdateReservation(p, s.request)
    BY <1>2, Zenon DEF ReproposeSubset, IInv, TypeOK
  <2> HIDE DEF n
  <2> QED  BY <1>1, <1>2, <2>2, <2>3, <2>4, <2>5, Approve, ZenonT(30)
<1>3. CASE ~ValidateRequest(p, s.request, TRUE)
  <2>1. session' = [session EXCEPT ![p] = NoSession] /\ UNCHANGED <<epoch, cache, head, applied, committed>>
    BY <1>3, Zenon DEF ReproposeSubset
  <2>2. /\ TypeOK' /\ Live' \subseteq Live
        /\ \A q \in Delegates : IsOpen(q)' => IsOpen(q) /\ session'[q] = session[q]
    BY <2>1, Zenon DEF IInv, TypeOK, Live, IsOpen, NoSession
  <2> QED  BY <2>1, <2>2, Fewer, Zenon DEF IInv, Decided
<1> QED  BY <1>2, <1>3, Zenon

LEMMA AbandonStep ==
    ASSUME IInv, NEW p \in Delegates, Abandon(p)
    PROVE  IInv'
<1>1. session' = [session EXCEPT ![p] = NoSession] /\ UNCHANGED <<epoch, cache, head, applied, committed>>
  BY Zenon DEF Abandon
<1>2. /\ TypeOK' /\ Live' \subseteq Live
      /\ \A q \in Delegates : IsOpen(q)' => IsOpen(q) /\ session'[q] = session[q]
  BY <1>1 DEF IInv, TypeOK, Live, IsOpen, NoSession
<1> QED  BY <1>1, <1>2, Fewer DEF IInv, Decided

LEMMA RestartStep ==
    ASSUME IInv, NEW d \in Delegates, Restart(d)
    PROVE  IInv'
<1>1. session' = [session EXCEPT ![d] = NoSession] /\ UNCHANGED <<epoch, head, applied, committed>>
  BY Zenon DEF Restart
<1>2. cache' \in [Delegates -> [Keys -> [reservation : Requests \cup {NoRequest}, epoch : Nat]]]
  BY Zenon DEF IInv, TypeOK, Restart, NoReservation
<1>3. \A c \in Delegates : c \notin Restarting => cache'[c] = cache[c]
  BY Zenon DEF Restart, IInv, TypeOK
<1>4. /\ TypeOK' /\ Live' \subseteq Live
      /\ \A q \in Delegates : IsOpen(q)' => IsOpen(q) /\ session'[q] = session[q]
  BY <1>1, <1>2, ZenonT(30), Zenon DEF IInv, TypeOK, Live, IsOpen, NoSession
<1> QED  BY <1>1, <1>3, <1>4, Fewer, Zenon DEF IInv, Decided

LEMMA PostCommitStep ==
    ASSUME IInv, NEW p \in Delegates, PostCommit(p)
    PROVE  IInv'
<1>1. session' = [session EXCEPT ![p] = NoSession] /\ UNCHANGED <<epoch, cache, head, applied>>
      /\ IsOpen(p) /\ committed' = committed \cup {session[p]}
  BY Zenon DEF PostCommit
<1>2. session[p] \in Live /\ session[p] \in Session
  BY <1>1, LiveType, Zenon DEF IInv, Live
<1>3. /\ TypeOK' /\ Live' \subseteq Live
      /\ \A q \in Delegates : IsOpen(q)' => IsOpen(q) /\ session'[q] = session[q]
  BY <1>1, <1>2, Zenon DEF IInv, TypeOK, Live, IsOpen, NoSession
<1>4. ASSUME NEW s \in committed'
      PROVE  /\ \E Q \in Quorums[s.epoch] : Q \subseteq Voters(s)
             /\ \E v \in s.votes : SeesOld(s.epoch, v)
  <2>1. CASE s \in committed
    BY <2>1, Zenon DEF IInv, Decided
  <2>2. CASE s = session[p]
    BY <1>1, <2>2, Zenon DEF PostCommit, IInv, Leaders
  <2> QED  BY <1>1, <2>1, <2>2, Zenon
<1> QED  BY <1>1, <1>3, <1>4, Fewer, Zenon

LEMMA ReproposeBatchStep ==
    ASSUME IInv, NEW p \in Delegates, ReproposeBatch(p)
    PROVE  IInv'
<1> DEFINE s == session[p]
           n == [s EXCEPT !.votes = {v \in s.votes : v.delegate = p}]
<1>1. IsOpen(p) /\ s \in Live /\ s \in Session
  BY LiveType, Zenon DEF ReproposeBatch, Live, IInv
<1>2. n \in Session /\ n.request = s.request /\ n.epoch = s.epoch
      /\ n.votes = {v \in s.votes : v.delegate = p}
  BY <1>1, Zenon DEF Session
<1>3. session' = [session EXCEPT ![p] = n] /\ UNCHANGED <<epoch, cache, head, applied, committed>>
  BY Zenon DEF ReproposeBatch, IInv, TypeOK
<1> HIDE DEF n
<1>4. session'[p] = n /\ \A q \in Delegates : q # p => session'[q] = session[q]
  BY <1>3, Zenon DEF IInv, TypeOK
<1>5. TypeOK'
  BY <1>2, <1>3, Zenon DEF IInv, TypeOK
<1>6. \A t \in Live' : t \in Live \/ t = n
  BY <1>3, <1>4, Zenon DEF Live, IsOpen
<1>7. ASSUME NEW q \in Delegates, IsOpen(q)'
      PROVE  /\ IsOpen(q) /\ session'[q].epoch = session[q].epoch
             /\ \A v \in session[q].votes : v.delegate = q => v \in session'[q].votes
  BY <1>1, <1>2, <1>4, <1>7, Zenon DEF IsOpen
<1>8. \A t \in Live' : \E x \in Live :
          x.request = t.request /\ x.epoch = t.epoch /\ t.votes \subseteq x.votes
  BY <1>1, <1>2, <1>6, Zenon
<1> QED  BY <1>3, <1>5, <1>7, <1>8, Fewer, Zenon DEF IInv, Decided

LEMMA ApplyStep ==
    ASSUME IInv, NEW d \in Delegates, NEW s \in committed, Apply(d, s)
    PROVE  IInv'
<1> DEFINE r == s.request
           a == Account[r]
<1>1. r \in Requests /\ a \in Keys /\ r # NoRequest
  BY RequestAssumption, Zenon DEF IInv, TypeOK, Session
<1>2. Previous[r] # NoRequest => Previous[r] \in applied[d]
  BY Zenon DEF Apply
<1>3. UNCHANGED <<epoch, session, committed>> /\ Release(d, r)
  BY Zenon DEF Apply
<1>4. Live' = Live
  BY <1>3, Zenon DEF Live, IsOpen
<1>5. /\ r \in applied'[d]
      /\ \A c \in Delegates : applied[c] \subseteq applied'[c]
      /\ \A c \in Delegates : c # d => applied'[c] = applied[c] /\ head'[c] = head[c]
      /\ head' \in [Delegates -> [Keys -> Requests \cup {NoRequest}]]
      /\ applied' \in [Delegates -> SUBSET Requests]
  <2>1. CASE Previous[r] = head[d][a]
    <3>1. head' = [head EXCEPT ![d][a] = r] /\ applied' = [applied EXCEPT ![d] = @ \cup {r}]
      BY <2>1, Zenon DEF Apply
    <3>2. head' \in [Delegates -> [Keys -> Requests \cup {NoRequest}]]
      BY <1>1, <3>1, Zenon DEF IInv, TypeOK
    <3> QED  BY <1>1, <3>1, <3>2, Zenon DEF IInv, TypeOK
  <2>2. CASE Previous[r] # head[d][a]
    BY <2>2, Zenon DEF Apply, IInv, TypeOK
  <2> QED  BY <2>1, <2>2, Zenon
<1>6. cache' = [cache EXCEPT ![d] = [key \in Keys |->
          IF key \in Reserves[r] /\ cache[d][key].reservation = r THEN NoReservation ELSE cache[d][key]]]
  BY <1>3, Zenon DEF Release, IInv, TypeOK
<1>7. TypeOK'
  <2>1. cache' \in [Delegates -> [Keys -> [reservation : Requests \cup {NoRequest}, epoch : Nat]]]
    BY <1>6 DEF IInv, TypeOK, NoReservation
  <2> QED  BY <1>3, <1>5, <2>1, Zenon DEF IInv, TypeOK
<1>8. Clocks'
  BY <1>3, Zenon DEF IInv, Clocks
<1>9. Chains'
  <2>1. CASE Previous[r] = head[d][a]
    <3>1. /\ applied'[d] = applied[d] \cup {r} /\ head'[d][a] = r
          /\ \A k \in Keys : k # a => head'[d][k] = head[d][k]
      BY <1>1, <2>1 DEF Apply, IInv, TypeOK
    <3>2. r \notin applied[d]
      BY <2>1, Zenon DEF IInv, Chains
    <3>3. ASSUME NEW x \in applied'[d]
          PROVE  Previous[x] # NoRequest => Previous[x] \in applied'[d]
      BY <1>2, <3>1, Zenon DEF IInv, Chains
    <3>4. ASSUME NEW x \in applied'[d]
          PROVE  Previous[x] # head'[d][Account[x]]
      <4>1. x \in Requests /\ Account[x] \in Keys
        BY <1>5, RequestAssumption, Zenon
      <4>2. CASE Account[x] = a
        <5>1. Previous[x] # r
          BY <1>1, <1>2, <3>1, <3>2, Zenon DEF IInv, Chains
        <5> QED  BY <3>1, <4>2, <5>1, Zenon
      <4>3. CASE Account[x] # a
        BY <3>1, <4>1, <4>3 DEF IInv, Chains
      <4> QED  BY <4>2, <4>3, Zenon
    <3>5. ASSUME NEW x \in applied'[d], NEW q \in applied'[d], SamePlace(x, q)
          PROVE  x = q
      <4>1. CASE x \in applied[d] /\ q \in applied[d]
        BY <3>5, <4>1, Zenon DEF IInv, Chains
      <4>2. CASE x = r /\ q \in applied[d]
        BY <2>1, <3>5, <4>2 DEF IInv, Chains, SamePlace
      <4>3. CASE q = r /\ x \in applied[d]
        BY <2>1, <3>5, <4>3 DEF IInv, Chains, SamePlace
      <4> QED  BY <3>1, <4>1, <4>2, <4>3, Zenon
    <3>6. \A c \in Delegates : c # d => \A x \in applied'[c] :
             /\ Previous[x] # NoRequest => Previous[x] \in applied'[c]
             /\ Previous[x] # head'[c][Account[x]]
             /\ \A q \in applied'[c] : SamePlace(x, q) => x = q
      BY <1>5 DEF IInv, Chains
    <3>7. \A c \in Delegates : \A x \in applied'[c] :
             /\ Previous[x] # NoRequest => Previous[x] \in applied'[c]
             /\ Previous[x] # head'[c][Account[x]]
             /\ \A q \in applied'[c] : SamePlace(x, q) => x = q
      BY <3>3, <3>4, <3>5, <3>6, Zenon
    <3> QED  BY <3>7, Zenon DEF Chains, SamePlace
  <2>2. CASE Previous[r] # head[d][a]
    BY <2>2, Zenon DEF Apply, IInv, Chains, SamePlace
  <2> QED  BY <2>1, <2>2, Zenon
<1>10. Votes'
  <2>1. SUFFICES ASSUME NEW t \in Live, NEW v \in t.votes
                 PROVE  VoteOK(t.request, v)'
    BY <1>4, Zenon DEF Votes
  <2>2. t \in Session /\ v \in Ballot /\ VoteOK(t.request, v)
    BY LiveType, Zenon DEF IInv, Votes, Session
  <2>3. SUFFICES ASSUME v.delegate \notin Restarting, t.request \notin applied'[v.delegate],
                        NEW k \in Reserves[t.request]
                 PROVE  /\ cache'[v.delegate][k].reservation = t.request
                        /\ cache'[v.delegate][k].epoch >= v.epoch
    BY <1>3, <1>5, <2>2, Zenon DEF VoteOK, Kept, SamePlace, Ballot
  <2>4. v.delegate \in Delegates /\ k \in Keys
    BY <2>2, RequestAssumption, Zenon DEF Ballot, Session
  <2>5. cache[v.delegate][k].reservation = t.request /\ cache[v.delegate][k].epoch >= v.epoch
    BY <1>5, <2>2, <2>3, <2>4, Zenon DEF VoteOK, Kept
  <2>6. v.delegate = d => t.request # r
    BY <1>5, <2>3, Zenon
  <2> QED  BY <1>6, <2>4, <2>5, <2>6, Zenon DEF IInv, TypeOK
<1>11. Ages'
  BY <1>3, <1>4, <1>5, Zenon DEF IInv, Ages, SessionAge
<1>12. Pairs'
  BY <1>4, Zenon DEF IInv, Pairs, Conflict
<1>13. Leaders'
  BY <1>3, <1>4, Zenon DEF IInv, Leaders, SeesOld, IsOpen
<1>14. Decided'
  BY <1>3, <1>4, Zenon DEF IInv, Decided, SeesOld, Voters
<1> QED  BY <1>7, <1>8, <1>9, <1>10, <1>11, <1>12, <1>13, <1>14, Zenon DEF IInv

LEMMA NextEpochStep ==
    ASSUME IInv, NEW d \in Delegates, NextEpoch(d)
    PROVE  IInv'
<1>1. UNCHANGED <<cache, head, applied, session, committed>> /\ Settled(d, epoch[d] + 1)
      /\ \A c \in Delegates : epoch[d] <= epoch[c]
  BY Zenon DEF NextEpoch
<1>2. Live' = Live
  BY <1>1, Zenon DEF Live, IsOpen
<1>3. epoch' \in [Delegates -> Epochs] /\ epoch'[d] = epoch[d] + 1
      /\ \A c \in Delegates : c # d => epoch'[c] = epoch[c]
  BY Zenon DEF NextEpoch, IInv, TypeOK
<1>4. \A c \in Delegates : epoch[c] \in Nat /\ epoch'[c] \in Nat
  BY <1>3, EpochAssumption, ZenonT(30) DEF IInv, TypeOK
<1>5. TypeOK' /\ Chains'
  BY <1>1, <1>3, Zenon DEF IInv, TypeOK, Chains, SamePlace
<1>6. Clocks'
  BY <1>1, <1>3, <1>4 DEF IInv, Clocks
<1>7. Votes'
  <2>1. SUFFICES ASSUME NEW t \in Live, NEW v \in t.votes
                 PROVE  VoteOK(t.request, v)'
    BY <1>2, Zenon DEF Votes
  <2>2. v \in Ballot /\ VoteOK(t.request, v)
    BY LiveType, Zenon DEF IInv, Votes, Session
  <2>3. v.delegate \in Delegates /\ v.epoch \in Nat /\ Period \in Nat
    BY <2>2, EpochAssumption, Zenon DEF Ballot
  <2>4. epoch'[v.delegate] >= v.epoch
    BY <1>3, <1>4, <2>2, <2>3 DEF VoteOK
  <2>5. epoch'[v.delegate] >= v.epoch + Period => t.request \in applied[v.delegate]
    <3>1. CASE v.delegate = d
      <4>1. CASE t \in committed
        BY <1>1, <1>3, <3>1, <4>1, Zenon DEF Settled
      <4>2. ASSUME NEW p \in Delegates, IsOpen(p), t = session[p]
            PROVE  ~(epoch'[v.delegate] >= v.epoch + Period)
        BY <1>1, <1>3, <1>4, <2>3, <3>1, <4>2 DEF Settled
      <4> QED  BY <4>1, <4>2, LiveMember, Zenon
    <3>2. CASE v.delegate # d
      BY <1>3, <2>2, <2>3, <3>2, Zenon DEF VoteOK
    <3> QED  BY <3>1, <3>2, Zenon
  <2> QED  BY <1>1, <2>2, <2>4, <2>5, Zenon DEF VoteOK, Kept, SamePlace
<1>8. Ages'
  <2>1. SUFFICES ASSUME NEW t \in Live, NEW c \in Delegates
                 PROVE  /\ epoch'[c] + 1 >= t.epoch
                        /\ epoch'[c] >= t.epoch + 2 => t.request \in applied[c]
    BY <1>1, <1>2, Zenon DEF Ages, SessionAge
  <2>2. t.epoch \in Nat
    BY LiveType, EpochAssumption, Zenon DEF IInv, Session
  <2>3. SessionAge(t.request, t.epoch)
    BY Zenon DEF IInv, Ages
  <2>4. epoch'[c] + 1 >= t.epoch
    BY <1>3, <1>4, <2>2, <2>3 DEF SessionAge
  <2>5. epoch'[c] >= t.epoch + 2 => t.request \in applied[c]
    <3>1. CASE c = d
      <4>1. CASE t \in committed
        BY <1>1, <1>3, <3>1, <4>1, Zenon DEF Settled
      <4>2. ASSUME NEW p \in Delegates, IsOpen(p), t = session[p]
            PROVE  ~(epoch'[c] >= t.epoch + 2)
        BY <1>1, <1>3, <1>4, <2>2, <3>1, <4>2 DEF Settled
      <4> QED  BY <4>1, <4>2, LiveMember, Zenon
    <3>2. CASE c # d
      BY <1>3, <2>3, <3>2, Zenon DEF SessionAge
    <3> QED  BY <3>1, <3>2, Zenon
  <2> QED  BY <2>4, <2>5, Zenon
<1>9. Pairs'
  BY <1>2, Zenon DEF IInv, Pairs, Conflict
<1>10. Leaders'
  <2>1. SUFFICES ASSUME NEW q \in Delegates, IsOpen(q)
                 PROVE  /\ epoch'[q] >= session[q].epoch
                        /\ \E v \in session[q].votes : v.delegate = q /\ SeesOld(session[q].epoch, v)
    BY <1>1, <1>2, Zenon DEF Leaders, SeesOld, IsOpen
  <2>2. session[q].epoch \in Nat
    <3>1. session[q] \in Live
      BY <2>1, Zenon DEF Live
    <3> QED  BY <3>1, LiveType, EpochAssumption, Zenon DEF IInv, Session
  <2> QED  BY <1>3, <1>4, <2>1, <2>2 DEF IInv, Leaders
<1>11. Decided'
  BY <1>1, <1>2, Zenon DEF IInv, Decided, SeesOld, Voters
<1> QED  BY <1>5, <1>6, <1>7, <1>8, <1>9, <1>10, <1>11, Zenon DEF IInv

LEMMA InitIInv ==
    Init => IInv
<1> SUFFICES ASSUME Init PROVE IInv
  BY Zenon
<1>1. Live = {}
  BY Zenon DEF Init, Live, IsOpen, NoSession
<1>2. TypeOK
  BY EpochAssumption, Zenon DEF Init, TypeOK, NoReservation
<1>3. Clocks
  BY EpochAssumption DEF Init, Clocks
<1> QED  BY <1>1, <1>2, <1>3, Zenon
         DEF Init, IInv, Chains, Votes, Ages, Pairs, Leaders, Decided, IsOpen, NoSession

LEMMA NextIInv ==
    IInv /\ [Next]_vars => IInv'
<1> SUFFICES ASSUME IInv, [Next]_vars PROVE IInv'
  BY Zenon
<1>1. CASE UNCHANGED vars
  <2>1. UNCHANGED <<epoch, cache, head, applied, session, committed>>
    BY <1>1, Zenon DEF vars
  <2>2. /\ TypeOK' /\ Live' = Live
        /\ \A q \in Delegates : IsOpen(q)' => IsOpen(q) /\ session'[q] = session[q]
    BY <2>1, Zenon DEF IInv, TypeOK, Live, IsOpen
  <2> QED  BY <2>1, <2>2, Fewer, Zenon DEF IInv, Decided
<1>2. CASE Next
  BY <1>2, ProposeStep, ReproposeBatchStep, ReproposeSubsetStep, AbandonStep, PostCommitStep,
     AcceptStep, ApplyStep, NextEpochStep, RestartStep, ZenonT(30) DEF Next
<1> QED  BY <1>1, <1>2, Zenon

LEMMA IInvSerialized ==
    IInv => Serialized
<1> SUFFICES ASSUME IInv, NEW s \in committed, NEW t \in committed, Conflict(s.request, t.request)
             PROVE  \/ \E v \in s.votes : t.request \in v.seen
                    \/ \E v \in t.votes : s.request \in v.seen
  BY Zenon DEF Serialized, Conflict
<1>1. s \in Live /\ t \in Live /\ s \in Session /\ t \in Session
  BY LiveType, Zenon DEF IInv, Live
<1>2. s.epoch \in Nat /\ t.epoch \in Nat /\ s.epoch \in Epochs /\ t.epoch \in Epochs
  BY <1>1, EpochAssumption, Zenon DEF Session
<1>3. CASE s.epoch + 2 <= t.epoch
  BY <1>1, <1>3, Zenon DEF IInv, Decided, SeesOld
<1>4. CASE t.epoch + 2 <= s.epoch
  BY <1>1, <1>4, Zenon DEF IInv, Decided, SeesOld
<1>5. CASE s.epoch = t.epoch \/ s.epoch = t.epoch + 1 \/ t.epoch = s.epoch + 1
  <2>1. PICK P \in Quorums[s.epoch] : P \subseteq Voters(s)
    BY Zenon DEF IInv, Decided
  <2>2. PICK Q \in Quorums[t.epoch] : Q \subseteq Voters(t)
    BY Zenon DEF IInv, Decided
  <2>3. PICK d \in P \cap Q : d \notin Restarting
    BY <1>2, <1>5, <2>1, <2>2, QuorumAssumption
  <2>4. PICK v \in s.votes : v.delegate = d
    BY <2>1, <2>3, Zenon DEF Voters
  <2>5. PICK w \in t.votes : w.delegate = d
    BY <2>2, <2>3, Zenon DEF Voters
  <2> QED  BY <1>1, <2>3, <2>4, <2>5 DEF IInv, Pairs
<1> QED  BY <1>2, <1>3, <1>4, <1>5

LEMMA IInvNoFork ==
    IInv => NoFork
<1> SUFFICES ASSUME IInv, NEW s \in committed, NEW t \in committed,
                    SamePlace(s.request, t.request), s.request # t.request
             PROVE  FALSE
  BY Zenon DEF NoFork, SamePlace
<1>1. s \in Live /\ t \in Live /\ s \in Session /\ t \in Session
  BY LiveType, Zenon DEF IInv, Live
<1>2. Conflict(s.request, t.request)
  BY <1>1, RequestAssumption, Zenon DEF Session, SamePlace, Conflict
<1>3. \/ \E v \in s.votes : t.request \in v.seen
      \/ \E v \in t.votes : s.request \in v.seen
  BY <1>2, IInvSerialized, Zenon DEF Serialized, Conflict
<1>4. SamePlace(t.request, s.request)
  BY Zenon DEF SamePlace
<1> QED  BY <1>1, <1>3, <1>4, Zenon DEF IInv, Votes, VoteOK

\* Of two post-committed requests that reserve the same account or token
\* share one was approved with knowledge of the other, whatever the weights
\* and however long the network runs.
THEOREM SerializedTheorem ==
    Spec => []Serialized
<1>1. Spec => []IInv
  BY InitIInv, NextIInv, PTL DEF Spec
<1> QED  BY <1>1, IInvSerialized, PTL

\* No account's chain forks: the fork at which ApplyRequest halts cannot come
\* from two primaries that chose two successors of one request.
THEOREM NoForkTheorem ==
    Spec => []NoFork
<1>1. Spec => []IInv
  BY InitIInv, NextIInv, PTL DEF Spec
<1> QED  BY <1>1, IInvNoFork, PTL
=============================================================================
