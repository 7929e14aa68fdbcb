----------------------- MODULE RequestRejectionProofs -----------------------
(***************************************************************************)
(* No request gets lost or is decided twice while delegates reject parts   *)
(* of the batches, for any delegates, weights, requests and submissions.   *)
(*                                                                         *)
(* The queue and the handler hold no request twice and every group of the  *)
(* queue is closed (Queued); the batch under way is the first group; every *)
(* request is unsent, waiting, decided or given up and never two of these  *)
(* (Divided).  A rejected batch goes back in the groups GenerateSubsets    *)
(* forms: that these hold the requests with enough support, each once, is  *)
(* what keeps the division.                                                *)
(***************************************************************************)
EXTENDS MCGenerateSubsets, RequestQueueProofs

(* The provers a leaf is tried with, and their time in seconds *)
USE SMTT(30), ZenonT(30)

(* GenerateSubsets, for every number of requests, set of backups and       *)
(* answers: the requests with enough support are all in its groups, each   *)
(* in one, no two groups have the same delegates, and the delegates listed *)
(* with a group support all of it.                                         *)
THEOREM SubsetsAreCorrect == SubsetsSpec => []SubsetsCorrect
  <1> DEFINE Called == call = NoCall \/ \E i \in Inputs : call = Call(i)
  <1>1. SubsetsInit => Called
    BY DEF SubsetsInit
  <1>2. Called /\ [SubsetsNext]_<<vars, call>> => Called'
    BY DEF SubsetsNext
  <1>3. ASSUME Called PROVE SubsetsCorrect
    <2>1. CASE call = NoCall
      <3>1. call.groups = <<>> /\ call.enough = {}
        BY <2>1 DEF NoCall
      <3>2. Range(call.groups) = {} /\ DOMAIN call.groups = {}
        BY <3>1 DEF Range
      <3> QED BY <3>1, <3>2 DEF SubsetsCorrect
    <2>2. ASSUME NEW i \in Inputs, call = Call(i) PROVE SubsetsCorrect
      <3> DEFINE found == Subsets(N, i.enough, i.support)
      <3>1. i.enough \in SUBSET (1..N) /\ i.support \in [1..N -> SUBSET Backups]
        BY DEF Inputs
      <3>2. \A k \in 1..N : i.support[k] \in SUBSET Backups
        BY <3>1, Zenon
      <3>3. found.groups \in Seq(Group(N, Backups)) /\ Grouped(found.groups, i.enough, i.support)
        BY <3>1, <3>2, NAssumption, SubsetsGroups, Zenon
      <3>4. call.groups = found.groups /\ call.enough = i.enough /\ call.support = i.support
        BY <2>2 DEF Call
      <3> HIDE DEF found
      <3>5. call.groups \in Seq(Group(N, Backups)) /\ Grouped(call.groups, call.enough, call.support)
        BY <3>3, <3>4, Zenon
      <3>6. /\ UNION {g.requests : g \in Range(call.groups)} = call.enough
            /\ \A g, h \in DOMAIN call.groups :
                  (call.groups[g].requests \cap call.groups[h].requests # {}
                    \/ call.groups[g].delegates = call.groups[h].delegates) => g = h
            /\ \A g \in Range(call.groups) : \A r \in g.requests : g.delegates \subseteq call.support[r]
        BY <3>5, GroupedCorrect, Zenon
      <3> QED BY <3>6, Zenon DEF SubsetsCorrect
    <2> QED BY <1>3, <2>1, <2>2
  <1> QED BY <1>1, <1>2, <1>3, PTL DEF SubsetsSpec

(* Beside the calls the sessions go on as Spec says.                       *)
LEMMA SubsetsImplementSpec == SubsetsSpec => Spec
  <1>1. SubsetsInit => Init
    BY DEF SubsetsInit
  <1>2. [SubsetsNext]_<<vars, call>> => [Next]_vars
    BY DEF SubsetsNext
  <1> QED BY <1>1, <1>2, PTL DEF SubsetsSpec, Spec

-----------------------------------------------------------------------------
(* The queue, the handler and the batch                                    *)

Entries == Requests \cup {Null}

(* No request waits twice, and every group of the queue is closed.         *)
Queued(q, h) ==
    /\ q \in Seq(Entries) /\ Distinct(q)
    /\ h \in Seq(Requests) /\ Distinct(h)
    /\ \A r \in Requests : ~(Contains(q, r) /\ Contains(h, r))
    /\ q = <<>> \/ q[Len(q)] = Null

Waits(q, h) == {r \in Requests : Contains(q, r) \/ Contains(h, r)}

(* b is the first group of queue q.                                        *)
AtFront(b, q) ==
    /\ b \in Seq(Requests)
    /\ Len(b) < Len(q)
    /\ SubSeq(q, 1, Len(b)) = b
    /\ q[Len(b) + 1] = Null

LEMMA RequestSequence ==
    ASSUME NEW b \in Seq(Requests)
    PROVE  /\ b \in Seq(Entries) /\ ~Contains(b, Null)
           /\ \A x : Contains(b, x) => x \in Requests
  <1>1. b \in Seq(Entries)
    BY DEF Entries
  <1>2. \A i \in 1..Len(b) : b[i] \in Requests
    OBVIOUS
  <1> QED BY <1>1, <1>2, RequestsAssumption, Zenon DEF Contains

LEMMA OnlyRequests ==
    ASSUME NEW b \in Seq(Entries), ~Contains(b, Null)
    PROVE  b \in Seq(Requests)
  <1>1. Len(b) \in Nat /\ b = [i \in 1..Len(b) |-> b[i]]
    OBVIOUS
  <1>2. \A i \in 1..Len(b) : b[i] \in Entries /\ b[i] # Null
    <2>1. \A i \in 1..Len(b) : b[i] \in Entries
      OBVIOUS
    <2> QED BY <2>1, Zenon DEF Contains
  <1>3. \A i \in 1..Len(b) : b[i] \in Requests
    BY <1>2, Zenon DEF Entries
  <1> QED BY <1>1, <1>3

LEMMA RangeContains ==
    ASSUME NEW T, NEW b \in Seq(T)
    PROVE  \A x : x \in Range(b) <=> Contains(b, x)
  <1>1. DOMAIN b = 1..Len(b)
    OBVIOUS
  <1> QED BY <1>1, Zenon DEF Range, Contains

(* What a distinct sequence says of its two parts                          *)
LEMMA DistinctParts ==
    ASSUME NEW T, NEW s \in Seq(T), NEW t \in Seq(T), Distinct(s \o t)
    PROVE  /\ Distinct(s) /\ Distinct(t)
           /\ \A x : Contains(s, x) /\ Contains(t, x) => x = Null
  <1> DEFINE u == s \o t
  <1>1. /\ Len(s) \in Nat /\ Len(t) \in Nat /\ Len(u) = Len(s) + Len(t)
        /\ \A i \in 1..Len(s) : u[i] = s[i]
        /\ \A i \in 1..Len(t) : u[Len(s) + i] = t[i]
    OBVIOUS
  <1>2. Distinct(u)
    OBVIOUS
  <1> HIDE DEF u
  <1>3. /\ \A i \in 1..Len(s) : i \in 1..Len(u)
        /\ \A i \in 1..Len(t) : Len(s) + i \in 1..Len(u)
        /\ \A i, j \in 1..Len(t) : Len(s) + i = Len(s) + j => i = j
        /\ \A i \in 1..Len(s), j \in 1..Len(t) : i # Len(s) + j
    BY <1>1
  <1>4. Distinct(s)
    BY <1>1, <1>2, <1>3, Zenon DEF Distinct
  <1>5. Distinct(t)
    <2> SUFFICES ASSUME NEW i \in 1..Len(t), NEW j \in 1..Len(t), t[i] = t[j], t[i] # Null
                 PROVE  i = j
      BY Zenon DEF Distinct
    <2>1. u[Len(s) + i] = u[Len(s) + j] /\ u[Len(s) + i] # Null
      BY <1>1, Zenon
    <2>2. Len(s) + i = Len(s) + j
      BY <1>2, <1>3, <2>1, Zenon DEF Distinct
    <2> QED BY <1>3, <2>2, Zenon
  <1>6. ASSUME NEW x, Contains(s, x), Contains(t, x) PROVE x = Null
    <2>1. PICK i \in 1..Len(s) : s[i] = x
      BY <1>6, Zenon DEF Contains
    <2>2. PICK j \in 1..Len(t) : t[j] = x
      BY <1>6, Zenon DEF Contains
    <2>3. u[i] = x /\ u[Len(s) + j] = x
      BY <1>1, <2>1, <2>2, Zenon
    <2> QED BY <1>2, <1>3, <2>3, Zenon DEF Distinct
  <1> QED BY <1>4, <1>5, <1>6, Zenon

LEMMA ConcatLast ==
    ASSUME NEW T, NEW s \in Seq(T), NEW t \in Seq(T), t # <<>>
    PROVE  /\ s \o t \in Seq(T) /\ s \o t # <<>>
           /\ (s \o t)[Len(s \o t)] = t[Len(t)]
  <1>1. Len(s) \in Nat /\ Len(t) \in Nat /\ Len(t) # 0
    OBVIOUS
  <1>2. s \o t \in Seq(T) /\ Len(s \o t) = Len(s) + Len(t)
    OBVIOUS
  <1>3. \A i \in 1..Len(t) : (s \o t)[Len(s) + i] = t[i]
    OBVIOUS
  <1>4. Len(t) \in 1..Len(t)
    BY <1>1
  <1>5. s \o t # <<>>
    BY <1>1, <1>2
  <1> QED BY <1>2, <1>3, <1>4, <1>5, Zenon

(* q is b, a delimiter, and what follows.                                  *)
Parts(q, b, r) ==
    /\ b \in Seq(Requests) /\ r \in Seq(Entries) /\ q = b \o r
    /\ r # <<>> /\ r[1] = Null

LEMMA FrontSplit ==
    ASSUME NEW b, NEW q \in Seq(Entries), AtFront(b, q)
    PROVE  \E r : Parts(q, b, r)
  <1> DEFINE k == Len(b)
             p == SubSeq(q, 1, k)
             r == SubSeq(q, k + 1, Len(q))
  <1>1. b \in Seq(Requests) /\ k < Len(q) /\ p = b /\ q[k + 1] = Null
    BY DEF AtFront
  <1>2. k \in Nat /\ Len(q) \in Nat
    BY <1>1
  <1> HIDE DEF k
  <1>3. p \in Seq(Entries) /\ Len(p) = k /\ \A i \in 1..k : p[i] = q[i]
    BY <1>1, <1>2
  <1>4. /\ r \in Seq(Entries) /\ Len(r) = Len(q) - k
        /\ \A i \in 1..(Len(q) - k) : r[i] = q[k + i]
    BY <1>1, <1>2
  <1> HIDE DEF p, r
  <1>5. r # <<>> /\ r[1] = Null
    BY <1>1, <1>2, <1>4
  <1>6. q = p \o r
    <2> DEFINE c == p \o r
    <2>1. /\ c \in Seq(Entries) /\ Len(c) = Len(p) + Len(r)
          /\ \A i \in 1..(Len(p) + Len(r)) : c[i] = IF i <= Len(p) THEN p[i] ELSE r[i - Len(p)]
      BY <1>3, <1>4, Concatenation, ZenonT(30)
    <2> HIDE DEF c
    <2>2. Len(c) = Len(q)
      BY <1>2, <1>3, <1>4, <2>1
    <2>3. ASSUME NEW i \in 1..Len(q) PROVE c[i] = q[i]
      <3>1. CASE i <= k
        BY <1>2, <1>3, <1>4, <2>1, <2>2, <3>1
      <3>2. CASE ~(i <= k)
        <4>1. i - k \in 1..(Len(q) - k) /\ k + (i - k) = i
          BY <1>2, <3>2
        <4> QED BY <1>2, <1>3, <1>4, <2>1, <2>2, <3>2, <4>1
      <3> QED BY <3>1, <3>2
    <2>4. c = q
      BY <1>2, <2>1, <2>2, <2>3
    <2> QED BY <2>4 DEF c
  <1> QED BY <1>1, <1>4, <1>5, <1>6, Zenon DEF Parts

LEMMA FrontJoin ==
    ASSUME NEW b, NEW q, NEW r, Parts(q, b, r)
    PROVE  /\ q \in Seq(Entries) /\ AtFront(b, q)
           /\ q # <<>> /\ q[Len(q)] = r[Len(r)]
           /\ FirstGroup(q) = b /\ AfterGroup(q) = r
           /\ b \in Seq(Entries)
           /\ \A x : Contains(q, x) <=> Contains(b, x) \/ Contains(r, x)
  <1>1. b \in Seq(Requests) /\ r \in Seq(Entries) /\ q = b \o r /\ r # <<>> /\ r[1] = Null
    BY Zenon DEF Parts
  <1>2. b \in Seq(Entries) /\ ~Contains(b, Null)
    BY <1>1, RequestSequence, Zenon
  <1>3. q \in Seq(Entries) /\ q # <<>> /\ q[Len(q)] = r[Len(r)]
    BY <1>1, <1>2, ConcatLast, Zenon
  <1>4. FirstGroup(q) = b /\ AfterGroup(q) = r
    BY <1>1, <1>2, GroupFound, Zenon
  <1>5. \A x : Contains(q, x) <=> Contains(b, x) \/ Contains(r, x)
    BY <1>1, <1>2, ContainsConcat, Zenon
  <1>6. /\ Len(b) \in Nat /\ Len(r) \in Nat /\ Len(r) # 0 /\ Len(q) = Len(b) + Len(r)
        /\ q[Len(b) + 1] = r[1]
    BY <1>1, <1>2
  <1>7. SubSeq(q, 1, Len(b)) = b
    BY <1>1, <1>2
  <1>8. AtFront(b, q)
    BY <1>1, <1>6, <1>7 DEF AtFront
  <1> QED BY <1>2, <1>3, <1>4, <1>5, <1>8

LEMMA WaitsMember ==
    ASSUME NEW q, NEW h
    PROVE  \A x \in Requests : x \in Waits(q, h) <=> Contains(q, x) \/ Contains(h, x)
  BY Zenon DEF Waits

(* MoveToTarget keeps what waits.                                          *)
LEMMA Refilled ==
    ASSUME NEW h, Queued(<<>>, h)
    PROVE  /\ Queued(MoveToTarget(<<>>, h), <<>>)
           /\ MoveToTarget(<<>>, h) # <<>>
           /\ Waits(MoveToTarget(<<>>, h), <<>>) = Waits(<<>>, h)
  <1> DEFINE m == MoveToTarget(<<>>, h)
             d == <<Null>>
             e == <<>>
  <1>1. h \in Seq(Requests) /\ Distinct(h)
    BY Zenon DEF Queued
  <1>2. h \in Seq(Entries) /\ ~Contains(h, Null)
    BY <1>1, RequestSequence, Zenon
  <1>3. /\ d \in Seq(Entries) /\ d # <<>> /\ Len(d) = 1 /\ d[Len(d)] = Null
        /\ \A x : Contains(d, x) <=> x = Null
    BY DEF Contains, Entries
  <1>4. Distinct(d)
    BY DEF Distinct
  <1>5. m = h \o d
    BY <1>2, <1>3 DEF MoveToTarget
  <1>6. e \in Seq(Requests) /\ Distinct(e) /\ \A x : ~Contains(e, x)
    BY DEF Distinct, Contains
  <1> HIDE DEF m, d, e
  <1>7. m \in Seq(Entries) /\ m # <<>> /\ m[Len(m)] = Null
    BY <1>2, <1>3, <1>5, ConcatLast, ZenonT(30)
  <1>8. \A x : Contains(m, x) <=> Contains(h, x) \/ Contains(d, x)
    BY <1>2, <1>3, <1>5, ContainsConcat, ZenonT(30)
  <1>9. Distinct(m)
    BY <1>1, <1>2, <1>3, <1>4, <1>5, DistinctConcat, ZenonT(30)
  <1>10. Queued(m, e)
    BY <1>6, <1>7, <1>9, ZenonT(30) DEF Queued
  <1>11. Waits(m, e) = Waits(e, h)
    BY <1>3, <1>6, <1>8, RequestsAssumption, Zenon DEF Waits
  <1> QED BY <1>7, <1>10, <1>11 DEF m, e

(* The first group of the queue without the members of S: the queue that   *)
(* starts with it and the requests that are dropped                        *)
Validates(q, h, valid, Q, dropped) ==
    /\ Queued(Q, h) /\ AtFront(valid, Q)
    /\ dropped \subseteq Waits(q, h)
    /\ Waits(Q, h) = Waits(q, h) \ dropped

LEMMA Validated ==
    ASSUME NEW q, NEW h, Queued(q, h), q # <<>>, NEW S,
           NEW valid, valid = Without(FirstGroup(q), S)
    PROVE  Validates(q, h, valid, valid \o AfterGroup(q), Range(FirstGroup(q)) \ Range(valid))
  <1>1. q \in Seq(Entries) /\ Distinct(q) /\ q[Len(q)] = Null
    BY Zenon DEF Queued
  <1>2. /\ h \in Seq(Requests) /\ Distinct(h)
        /\ \A r \in Requests : ~(Contains(q, r) /\ Contains(h, r))
    BY Zenon DEF Queued
  <1>3. Contains(q, Null)
    <2>1. Len(q) \in 1..Len(q)
      BY <1>1
    <2> QED BY <1>1, <2>1, ZenonT(30) DEF Contains
  <1>4. PICK p \in Seq(Entries), r \in Seq(Entries) :
           q = p \o r /\ r # <<>> /\ r[1] = Null /\ ~Contains(p, Null)
    BY <1>1, <1>3, GroupExists, Zenon
  <1>5. FirstGroup(q) = p /\ AfterGroup(q) = r
    BY <1>4, GroupFound, Zenon
  <1>6. p \in Seq(Requests)
    BY <1>4, OnlyRequests, Zenon
  <1>7. /\ Distinct(p) /\ Distinct(r)
        /\ \A x : Contains(p, x) /\ Contains(r, x) => x = Null
    <2>1. Distinct(p \o r)
      BY <1>1, <1>4, Zenon
    <2>2. p \in Seq(Entries) /\ r \in Seq(Entries)
      BY <1>4, Zenon
    <2> QED BY <2>1, <2>2, DistinctParts
  <1>8. /\ valid \in Seq(Requests) /\ Distinct(valid)
        /\ \A x : Contains(valid, x) <=> Contains(p, x) /\ x \notin S
    BY <1>5, <1>6, <1>7, WithoutProperties, Zenon
  <1> DEFINE Q == valid \o r
             dropped == Range(p) \ Range(valid)
  <1>9. Parts(Q, valid, r)
    BY <1>4, <1>8, Zenon DEF Parts
  <1>10. Parts(q, p, r)
    BY <1>4, <1>6, Zenon DEF Parts
  <1>11. \A x : x \in dropped <=> Contains(p, x) /\ ~Contains(valid, x)
    BY <1>6, <1>8, RangeContains, Zenon
  <1>12. Distinct(Q)
    <2>1. valid \in Seq(Entries)
      BY <1>8, RequestSequence, Zenon
    <2> QED BY <1>4, <1>7, <1>8, <2>1, DistinctConcat, ZenonT(30)
  <1> HIDE DEF Q, dropped
  <1>13. /\ Q \in Seq(Entries) /\ AtFront(valid, Q) /\ Q # <<>> /\ Q[Len(Q)] = r[Len(r)]
         /\ \A x : Contains(Q, x) <=> Contains(valid, x) \/ Contains(r, x)
    BY <1>9, FrontJoin, ZenonT(30)
  <1>14. q[Len(q)] = r[Len(r)] /\ \A x : Contains(q, x) <=> Contains(p, x) \/ Contains(r, x)
    BY <1>10, FrontJoin, Zenon
  <1>15. Queued(Q, h)
    BY <1>1, <1>2, <1>8, <1>12, <1>13, <1>14, Zenon DEF Queued
  <1>16. \A x \in Requests : x \in dropped => ~Contains(Q, x) /\ ~Contains(h, x)
    BY <1>2, <1>7, <1>11, <1>13, <1>14, RequestsAssumption, Zenon
  <1>17. dropped \subseteq Requests
    BY <1>6, <1>11, RequestSequence, Zenon
  <1>18. dropped \subseteq Waits(q, h)
    BY <1>11, <1>14, <1>17, Zenon DEF Waits
  <1>19. Waits(Q, h) = Waits(q, h) \ dropped
    BY <1>8, <1>11, <1>13, <1>14, <1>16, ZenonT(30) DEF Waits
  <1> QED BY <1>5, <1>13, <1>15, <1>18, <1>19, ZenonT(30) DEF Validates, Q, dropped

(* PopFront with a batch b at the front of the queue removes the batch.    *)
Pops(q, h, b, w) ==
    /\ w # <<>> /\ Head(w) = Null
    /\ Queued(Tail(w), h)
    /\ Range(b) \subseteq Waits(q, h)
    /\ Waits(Tail(w), h) = Waits(q, h) \ Range(b)
    /\ b \in Seq(Requests) /\ Distinct(b)
    /\ FirstGroup(q) = b

LEMMA Popped ==
    ASSUME NEW q, NEW h, Queued(q, h), NEW b, AtFront(b, q)
    PROVE  Pops(q, h, b, Without(q, Range(b)))
  <1> DEFINE w == Without(q, Range(b))
             d == <<Null>>
  <1>1. /\ q \in Seq(Entries) /\ Distinct(q)
        /\ h \in Seq(Requests) /\ Distinct(h)
        /\ \A r \in Requests : ~(Contains(q, r) /\ Contains(h, r))
    BY Zenon DEF Queued
  <1>2. PICK r : Parts(q, b, r)
    BY <1>1, FrontSplit, Zenon
  <1>3. b \in Seq(Requests) /\ r \in Seq(Entries) /\ q = b \o r /\ r # <<>> /\ r[1] = Null
    BY <1>2, Zenon DEF Parts
  <1>4. /\ q # <<>> /\ q[Len(q)] = r[Len(r)] /\ FirstGroup(q) = b /\ b \in Seq(Entries)
        /\ \A x : Contains(q, x) <=> Contains(b, x) \/ Contains(r, x)
    BY <1>2, FrontJoin, Zenon
  <1>5. /\ Distinct(b) /\ Distinct(r)
        /\ \A x : Contains(b, x) /\ Contains(r, x) => x = Null
    <2>1. Distinct(b \o r)
      BY <1>1, <1>3, ZenonT(30)
    <2> QED BY <1>3, <1>4, <2>1, DistinctParts, Zenon
  <1>6. \A x : x \in Range(b) <=> Contains(b, x)
    BY <1>3, RangeContains, ZenonT(30)
  <1>7. ~Contains(b, Null) /\ \A x : Contains(b, x) => x \in Requests
    BY <1>3, RequestSequence, Zenon
  <1>8. w = r
    <2>1. \A i \in 1..Len(b) : b[i] \in Range(b)
      BY <1>6, ZenonT(30) DEF Contains
    <2>2. \A i \in 1..Len(r) : r[i] \notin Range(b)
      BY <1>5, <1>6, <1>7, ZenonT(30) DEF Contains
    <2>3. Without(b \o r, Range(b)) = r
      BY <1>3, <1>4, <2>1, <2>2, WithoutPrefix, ZenonT(30)
    <2> QED BY <1>3, <2>3, ZenonT(30)
  <1> DEFINE t == Tail(r)
  <1>9. r = d \o t /\ t \in Seq(Entries) /\ d \in Seq(Entries) /\ Head(r) = Null
    BY <1>3 DEF Entries
  <1>10. \A x : Contains(d, x) <=> x = Null
    BY DEF Contains
  <1> HIDE DEF t, d
  <1>11. \A x : Contains(r, x) <=> Contains(d, x) \/ Contains(t, x)
    BY <1>9, ContainsConcat, ZenonT(30)
  <1>12. Distinct(t)
    <2>1. Distinct(d \o t)
      BY <1>5, <1>9, Zenon
    <2> QED BY <1>9, <2>1, DistinctParts, ZenonT(30)
  <1>13. t = <<>> \/ t[Len(t)] = Null
    <2>1. q[Len(q)] = Null
      BY <1>4, Zenon DEF Queued
    <2>2. t # <<>> => t[Len(t)] = r[Len(r)]
      BY <1>9, ConcatLast, Zenon
    <2> QED BY <1>4, <2>1, <2>2, Zenon
  <1>14. \A x \in Requests : Contains(q, x) <=> Contains(b, x) \/ Contains(t, x)
    BY <1>4, <1>10, <1>11, RequestsAssumption, ZenonT(30)
  <1>15. Queued(t, h)
    BY <1>1, <1>9, <1>12, <1>13, <1>14, ZenonT(30) DEF Queued
  <1>16. Range(b) \subseteq Waits(q, h)
    BY <1>4, <1>6, <1>7, Zenon DEF Waits
  <1>17. \A x \in Requests : Contains(b, x) => ~Contains(t, x) /\ ~Contains(h, x)
    BY <1>1, <1>4, <1>5, <1>11, RequestsAssumption, ZenonT(30)
  <1>18. Waits(t, h) = Waits(q, h) \ Range(b)
    BY <1>6, <1>14, <1>17, Zenon DEF Waits
  <1>19. Tail(w) = t
    BY <1>8, Zenon DEF t
  <1> HIDE DEF w
  <1>20. Pops(q, h, b, w)
    BY <1>3, <1>4, <1>5, <1>8, <1>9, <1>15, <1>16, <1>18, <1>19, ZenonT(30) DEF Pops
  <1> QED BY <1>20, Zenon DEF w

(* Requests that do not wait                                               *)
Fresh(S, q, h) == S \subseteq Requests /\ S \cap Waits(q, h) = {}

(* Queue Q and handler H hold what q and h hold and the requests in S.     *)
Adds(Q, H, q, h, S) == Queued(Q, H) /\ Waits(Q, H) = Waits(q, h) \cup S

(* The requests S that clients send go to the end of the handler.          *)
LEMMA Submitted ==
    ASSUME NEW q, NEW h, Queued(q, h), NEW S, Fresh(S, q, h)
    PROVE  Adds(q, h \o Listed(S), q, h, S)
  <1> DEFINE s == Listed(S)
             H == h \o s
  <1>1. /\ q \in Seq(Entries) /\ Distinct(q) /\ (q = <<>> \/ q[Len(q)] = Null)
        /\ h \in Seq(Requests) /\ Distinct(h)
        /\ \A r \in Requests : ~(Contains(q, r) /\ Contains(h, r))
    BY Zenon DEF Queued
  <1>2. IsFiniteSet(S)
    <2>1. S \subseteq Requests
      BY Zenon DEF Fresh
    <2> QED BY <2>1, RequestsAssumption, FS_Subset, Zenon
  <1>3. s \in Seq(S) /\ (\A x : Contains(s, x) <=> x \in S) /\ Distinct(s)
    BY <1>2, ListedProperties, Zenon
  <1> HIDE DEF s
  <1>4. s \in Seq(Requests)
    <2>1. S \subseteq Requests
      BY Zenon DEF Fresh
    <2> QED BY <1>3, <2>1
  <1>5. H \in Seq(Requests)
    BY <1>1, <1>4
  <1>6. \A x : Contains(H, x) <=> Contains(h, x) \/ Contains(s, x)
    BY <1>1, <1>4, ContainsConcat, ZenonT(30)
  <1>7. \A x \in S : x \in Requests /\ ~Contains(q, x) /\ ~Contains(h, x)
    BY Zenon DEF Waits, Fresh
  <1>8. Distinct(H)
    BY <1>1, <1>3, <1>4, <1>7, DistinctConcat, ZenonT(30)
  <1> HIDE DEF H
  <1>9. Queued(q, H)
    BY <1>1, <1>3, <1>5, <1>6, <1>7, <1>8, ZenonT(30) DEF Queued
  <1>10. Waits(q, H) = Waits(q, h) \cup S
    BY <1>3, <1>6, <1>7, Zenon DEF Waits
  <1> QED BY <1>9, <1>10, Zenon DEF s, H, Adds

(* c holds the requests in S, each once, and ends with a delimiter.        *)
Closes(c, S) ==
    /\ c \in Seq(Entries) /\ c # <<>> /\ c[Len(c)] = Null
    /\ Distinct(c)
    /\ \A x : Contains(c, x) <=> x \in S \/ x = Null

LEMMA ClosedGroup ==
    ASSUME NEW S, S \subseteq Requests
    PROVE  Closes(Listed(S) \o <<Null>>, S)
  <1> DEFINE s == Listed(S)
             d == <<Null>>
             c == s \o d
  <1>1. IsFiniteSet(S)
    BY RequestsAssumption, FS_Subset, Zenon
  <1>2. s \in Seq(S) /\ (\A x : Contains(s, x) <=> x \in S) /\ Distinct(s)
    BY <1>1, ListedProperties, Zenon
  <1> HIDE DEF s
  <1>3. s \in Seq(Entries)
    BY <1>2 DEF Entries
  <1>4. /\ d \in Seq(Entries) /\ d # <<>> /\ Len(d) = 1 /\ d[Len(d)] = Null
        /\ \A x : Contains(d, x) <=> x = Null
    BY DEF Contains, Entries
  <1>5. Distinct(d)
    BY DEF Distinct
  <1> HIDE DEF d
  <1>6. c \in Seq(Entries) /\ c # <<>> /\ c[Len(c)] = Null
    BY <1>3, <1>4, ConcatLast, ZenonT(30)
  <1>7. \A x : Contains(c, x) <=> Contains(s, x) \/ Contains(d, x)
    BY <1>3, <1>4, ContainsConcat, ZenonT(30)
  <1>8. Distinct(c)
    BY <1>2, <1>3, <1>4, <1>5, DistinctConcat, ZenonT(30)
  <1> HIDE DEF c
  <1>9. Closes(c, S)
    BY <1>2, <1>4, <1>6, <1>7, <1>8, ZenonT(30) DEF Closes
  <1> QED BY <1>9 DEF c, s, d

(* A closed group put before the queue                                     *)
LEMMA Prepended ==
    ASSUME NEW q, NEW h, Queued(q, h), NEW S, Fresh(S, q, h), NEW f, Closes(f, S)
    PROVE  Adds(f \o q, h, q, h, S)
  <1> DEFINE Q == f \o q
  <1>1. /\ q \in Seq(Entries) /\ Distinct(q) /\ (q = <<>> \/ q[Len(q)] = Null)
        /\ h \in Seq(Requests) /\ Distinct(h)
        /\ \A r \in Requests : ~(Contains(q, r) /\ Contains(h, r))
    BY Zenon DEF Queued
  <1>2. /\ f \in Seq(Entries) /\ f # <<>> /\ f[Len(f)] = Null /\ Distinct(f)
        /\ \A x : Contains(f, x) <=> x \in S \/ x = Null
    BY Zenon DEF Closes
  <1>3. \A x \in S : x \in Requests /\ ~Contains(q, x) /\ ~Contains(h, x)
    BY Zenon DEF Waits, Fresh
  <1>4. Distinct(Q)
    BY <1>1, <1>2, <1>3, DistinctConcat, ZenonT(30)
  <1>5. \A x : Contains(Q, x) <=> Contains(f, x) \/ Contains(q, x)
    BY <1>1, <1>2, ContainsConcat, ZenonT(30)
  <1>6. Q \in Seq(Entries)
    BY <1>1, <1>2
  <1>7. Q[Len(Q)] = Null
    <2>1. CASE q = <<>>
      <3>1. Q = f
        BY <1>2, <2>1
      <3> QED BY <1>2, <3>1, Zenon
    <2>2. CASE q # <<>>
      <3>1. Q[Len(Q)] = q[Len(q)]
        BY <1>1, <1>2, <2>2, ConcatLast, Zenon
      <3> QED BY <1>1, <2>2, <3>1, Zenon
    <2> QED BY <2>1, <2>2, Zenon
  <1> HIDE DEF Q
  <1>8. Queued(Q, h)
    BY <1>1, <1>2, <1>3, <1>4, <1>5, <1>6, <1>7, RequestsAssumption, ZenonT(30) DEF Queued
  <1>9. Waits(Q, h) = Waits(q, h) \cup S
    BY <1>2, <1>3, <1>5, RequestsAssumption, ZenonT(30) DEF Waits
  <1> QED BY <1>8, <1>9, ZenonT(30) DEF Q, Adds

(* The requests of a batch b that have enough support, in their groups,    *)
(* each closed by a delimiter                                              *)
LEMMA GroupsClosed ==
    ASSUME NEW b \in Seq(Requests), Distinct(b), NEW n, n = Len(b), NEW B,
           NEW groups \in Seq(Group(n, B)), groups # <<>>, NEW E, NEW who, E \subseteq 1..n,
           Grouped(groups, E, who)
    PROVE  Closes(Joined([g \in 1..Len(groups) |->
                     Listed({b[i] : i \in groups[g].requests}) \o <<Null>>]),
                  {b[i] : i \in E})
  <1> DEFINE Img(g) == {b[i] : i \in groups[g].requests}
             C(g) == Listed(Img(g)) \o <<Null>>
             L == Len(groups)
             seqs == [g \in 1..L |-> C(g)]
             S == {b[i] : i \in E}
             f == Joined(seqs)
  <1>1. L \in Nat /\ L # 0
    OBVIOUS
  <1>2. \A g \in 1..L : groups[g].requests \subseteq E
    BY Zenon DEF Grouped
  <1>3. /\ \A i \in 1..n : b[i] \in Requests /\ b[i] # Null
        /\ \A i, j \in 1..n : b[i] = b[j] => i = j
    <2>1. \A i \in 1..n : b[i] \in Requests
      OBVIOUS
    <2> QED BY <2>1, RequestsAssumption, ZenonT(30) DEF Distinct
  <1>4. \A g \in 1..L : Img(g) \subseteq Requests
    BY <1>2, <1>3, ZenonT(30)
  <1>5. ASSUME NEW g \in 1..L, NEW k \in 1..L, NEW x \in Img(g), x \in Img(k)
        PROVE  g = k
    <2>1. PICK i \in groups[g].requests : x = b[i]
      BY <1>5, Zenon
    <2>2. PICK j \in groups[k].requests : x = b[j]
      BY <1>5, Zenon
    <2>3. i = j
      BY <1>2, <1>3, <2>1, <2>2, ZenonT(30)
    <2> QED BY <2>1, <2>2, <2>3, Zenon DEF Grouped
  <1>6. \A x : x \in S <=> \E g \in 1..L : x \in Img(g)
    <2>1. ASSUME NEW x \in S PROVE \E g \in 1..L : x \in Img(g)
      <3>1. PICK i \in E : x = b[i]
        BY <2>1, ZenonT(30)
      <3>2. PICK g \in 1..L : i \in groups[g].requests
        BY <3>1, ZenonT(30) DEF Grouped
      <3> QED BY <3>1, <3>2, ZenonT(30)
    <2>2. ASSUME NEW g \in 1..L, NEW x \in Img(g) PROVE x \in S
      BY <1>2, <2>2, ZenonT(30)
    <2> QED BY <2>1, <2>2, ZenonT(30)
  <1> HIDE DEF Img
  <1>7. \A g \in 1..L : Closes(C(g), Img(g))
    BY <1>4, ClosedGroup, ZenonT(30)
  <1> HIDE DEF C, S
  <1>8. \A g \in 1..L : C(g) \in Seq(Entries)
    BY <1>7, ZenonT(30) DEF Closes
  <1> DEFINE V == Seq(Entries)
  <1>9. seqs \in Seq(V) /\ Len(seqs) = L /\ seqs # <<>> /\ \A g \in 1..L : seqs[g] = C(g)
    <2>1. \A g \in 1..L : C(g) \in V
      BY <1>8, Zenon
    <2> HIDE DEF V, L
    <2> QED BY <1>1, <2>1
  <1> HIDE DEF seqs
  <1>10. f \in Seq(Entries) /\ Flat(f, seqs, L)
    BY <1>9, JoinedProperties, ZenonT(30)
  <1> HIDE DEF f, L, V
  <1>11. \A g \in 1..L : /\ seqs[g] # <<>> /\ seqs[g][Len(seqs[g])] = Null /\ Distinct(seqs[g])
                         /\ \A x : Contains(seqs[g], x) <=> x \in Img(g) \/ x = Null
    BY <1>7, <1>9, ZenonT(30) DEF Closes
  <1>12. f # <<>> /\ f[Len(f)] = Null
    BY <1>10, <1>11, ZenonT(30) DEF Flat
  <1>13. Distinct(f)
    <2>1. \A k, l \in 1..L : \A x : Contains(seqs[k], x) /\ Contains(seqs[l], x) /\ x # Null => k = l
      BY <1>5, <1>11, ZenonT(30)
    <2>2. \A k \in 1..L : Distinct(seqs[k])
      BY <1>11, ZenonT(30)
    <2> QED BY <1>10, <2>1, <2>2, ZenonT(30) DEF Flat
  <1>14. \A x : Contains(f, x) <=> x \in S \/ x = Null
    <2>1. 1 \in 1..L
      BY <1>1
    <2>2. \A x : Contains(f, x) <=> \E k \in 1..L : Contains(seqs[k], x)
      BY <1>10, ZenonT(30) DEF Flat
    <2> QED BY <1>6, <1>11, <2>1, <2>2, ZenonT(30)
  <1>15. Closes(f, S)
    BY <1>10, <1>12, <1>13, <1>14, ZenonT(30) DEF Closes
  <1> QED BY <1>15 DEF f, seqs, S, C, Img, L

LEMMA Inserted ==
    ASSUME NEW q, NEW h, Queued(q, h),
           NEW b \in Seq(Requests), Distinct(b), Range(b) \cap Waits(q, h) = {},
           NEW n, n = Len(b), NEW B, NEW groups \in Seq(Group(n, B)),
           NEW E, NEW who, E \subseteq 1..n, Grouped(groups, E, who)
    PROVE  Adds(InsertFront(b, groups, q), h, q, h, {b[i] : i \in E})
  <1> DEFINE S == {b[i] : i \in E}
  <1>1. Fresh(S, q, h)
    <2>1. \A i \in 1..n : b[i] \in Requests /\ b[i] \in Range(b)
      <3>1. DOMAIN b = 1..n /\ \A i \in 1..n : b[i] \in Requests
        OBVIOUS
      <3> QED BY <3>1, Zenon DEF Range
    <2> QED BY <2>1, Zenon DEF Fresh
  <1>2. CASE groups = <<>>
    <2> DEFINE d == <<Null>>
    <2>1. E = {}
      BY <1>2 DEF Grouped
    <2>2. Closes(d, S)
      <3>1. S = {}
        BY <2>1, Zenon
      <3>2. d \in Seq(Entries) /\ d # <<>> /\ d[Len(d)] = Null
        BY DEF Entries
      <3>3. Distinct(d) /\ \A x : Contains(d, x) <=> x = Null
        BY DEF Distinct, Contains
      <3> HIDE DEF S, d
      <3> QED BY <3>1, <3>2, <3>3 DEF Closes
    <2>3. InsertFront(b, groups, q) = d \o q
      BY <1>2 DEF InsertFront
    <2> HIDE DEF d, S
    <2>4. Adds(d \o q, h, q, h, S)
      BY <1>1, <2>2, Prepended, ZenonT(30)
    <2> QED BY <2>3, <2>4, ZenonT(30) DEF S
  <1>3. CASE groups # <<>>
    <2> DEFINE f == Joined([g \in 1..Len(groups) |->
                       Listed({b[i] : i \in groups[g].requests}) \o <<Null>>])
    <2>1. Closes(f, S)
      BY <1>3, GroupsClosed, ZenonT(30)
    <2>2. InsertFront(b, groups, q) = f \o q
      BY <1>3 DEF InsertFront
    <2> HIDE DEF f, S
    <2>3. Adds(f \o q, h, q, h, S)
      BY <1>1, <2>1, Prepended, Zenon
    <2> QED BY <2>2, <2>3, Zenon DEF S
  <1> QED BY <1>2, <1>3

-----------------------------------------------------------------------------
(* Every request is in one of the sets and in no two of them.              *)
Divided(U, W, D, G) ==
    /\ U \cup W \cup D \cup G = Requests
    /\ U \cap W = {} /\ U \cap D = {} /\ U \cap G = {}
    /\ W \cap D = {} /\ W \cap G = {} /\ D \cap G = {}

(* The inductive invariant                                                 *)
RInv ==
    /\ state \in {"POST_COMMIT", "PRE_PREPARE", "POST_PREPARE", "HALTED"}
    /\ Queued(queue, handler)
    /\ state # "POST_COMMIT" => AtFront(batch.requests, queue)
    /\ Divided(unsent, Waits(queue, handler), DecidedRequests, given_up)
    /\ DecidedOnce

(* The steps keep the invariant                                            *)

(* A session begins with queue q and handler h, after the requests in lost *)
(* were given up; dropped are those the primary finds invalid.             *)
Begins(q, h, lost, dropped) ==
    /\ dropped \subseteq Waits(q, h)
    /\ given_up' = given_up \cup lost \cup dropped
    /\ Queued(queue', handler')
    /\ Waits(queue', handler') = Waits(q, h) \ dropped
    /\ state' \in {"POST_COMMIT", "PRE_PREPARE"}
    /\ state' = "PRE_PREPARE" => AtFront(batch'.requests, queue')

LEMMA Constructed ==
    ASSUME NEW q, NEW h, Queued(q, h), NEW seq, NEW lost, ConstructBatch(q, h, seq, lost)
    PROVE  \E dropped : Begins(q, h, lost, dropped)
  <1> DEFINE R == IF q = <<>> THEN MoveToTarget(q, h) ELSE q
             H == IF q = <<>> THEN <<>> ELSE h
             valid == Without(FirstGroup(R), setting.invalid[Primary])
             dropped == Range(FirstGroup(R)) \ Range(valid)
  <1>1. Queued(R, H) /\ R # <<>> /\ Waits(R, H) = Waits(q, h)
    <2>1. CASE q = <<>>
      BY <2>1, Refilled, Zenon
    <2>2. CASE q # <<>>
      BY <2>2, ZenonT(30)
    <2> QED BY <2>1, <2>2
  <1>2. /\ queue' = valid \o AfterGroup(R) /\ handler' = H
        /\ given_up' = given_up \cup lost \cup dropped
        /\ state' = "PRE_PREPARE" /\ batch'.requests = valid
    BY DEF ConstructBatch, SendPrePrepare
  <1> HIDE DEF R, H
  <1>3. Validates(R, H, valid, valid \o AfterGroup(R), dropped)
    BY <1>1, Validated, Zenon
  <1> HIDE DEF valid, dropped
  <1>4. Validates(R, H, valid, queue', dropped)
    BY <1>2, <1>3, ZenonT(30)
  <1>5. /\ Queued(queue', handler') /\ AtFront(batch'.requests, queue')
        /\ dropped \subseteq Waits(q, h)
        /\ Waits(queue', handler') = Waits(q, h) \ dropped
    <2>1. /\ Queued(queue', H) /\ AtFront(valid, queue')
          /\ dropped \subseteq Waits(R, H) /\ Waits(queue', H) = Waits(R, H) \ dropped
      BY <1>4, Zenon DEF Validates
    <2> QED BY <1>1, <1>2, <2>1, ZenonT(30)
  <1>6. Begins(q, h, lost, dropped)
    BY <1>2, <1>5, Zenon DEF Begins
  <1> QED BY <1>6, ZenonT(30)

LEMMA NextSessionBegins ==
    ASSUME NEW q, NEW h, Queued(q, h), NEW seq, NextSession(q, h, seq)
    PROVE  \E dropped : Begins(q, h, {}, dropped)
  <1>1. CASE ConstructBatch(q, h, seq, {})
    BY <1>1, Constructed, ZenonT(30)
  <1>2. CASE queue' = q /\ handler' = h /\ state' = "POST_COMMIT" /\ given_up' = given_up
    <2>1. Begins(q, h, {}, {})
      BY <1>2 DEF Begins
    <2> QED BY <2>1, ZenonT(30)
  <1>3. \/ ConstructBatch(q, h, seq, {})
        \/ queue' = q /\ handler' = h /\ state' = "POST_COMMIT" /\ given_up' = given_up
    BY Zenon DEF NextSession
  <1> QED BY <1>1, <1>2, <1>3

LEMMA BeginsKeeps ==
    ASSUME NEW q, NEW h, NEW lost, NEW dropped, Begins(q, h, lost, dropped),
           Divided(unsent', Waits(q, h), DecidedRequests', given_up \cup lost), DecidedOnce'
    PROVE  RInv'
  <1> DEFINE W == Waits(q, h)
             D == DecidedRequests'
             G == given_up \cup lost
  <1>1. dropped \subseteq W /\ given_up' = G \cup dropped /\ Waits(queue', handler') = W \ dropped
    BY Zenon DEF Begins
  <1>2. Divided(unsent', W, D, G)
    OBVIOUS
  <1> HIDE DEF W, D, G
  <1>3. Divided(unsent', W \ dropped, D, G \cup dropped)
    BY <1>1, <1>2 DEF Divided
  <1>4. Divided(unsent', Waits(queue', handler'), D, given_up')
    BY <1>1, <1>3, ZenonT(30)
  <1>5. /\ Queued(queue', handler') /\ state' \in {"POST_COMMIT", "PRE_PREPARE"}
        /\ state' = "PRE_PREPARE" => AtFront(batch'.requests, queue')
    BY Zenon DEF Begins
  <1>6. state' # "POST_COMMIT" => AtFront(batch'.requests, queue')
    BY <1>5
  <1>7. state' \in {"POST_COMMIT", "PRE_PREPARE", "POST_PREPARE", "HALTED"}
    BY <1>5
  <1> QED BY <1>4, <1>5, <1>6, <1>7, ZenonT(30) DEF RInv, D

LEMMA StutterKeeps ==
    ASSUME RInv, UNCHANGED <<queue, handler, batch, unsent, decided, given_up>>,
           state' = state \/ (state # "POST_COMMIT" /\ state' \in {"PRE_PREPARE", "POST_PREPARE", "HALTED"})
    PROVE  RInv'
  <1>1. /\ queue' = queue /\ handler' = handler /\ batch' = batch /\ unsent' = unsent
        /\ decided' = decided /\ given_up' = given_up
    OBVIOUS
  <1>2. DecidedRequests' = DecidedRequests /\ (DecidedOnce' <=> DecidedOnce)
    BY <1>1 DEF DecidedRequests, DecidedOnce
  <1>3. /\ state' \in {"POST_COMMIT", "PRE_PREPARE", "POST_PREPARE", "HALTED"}
        /\ state' # "POST_COMMIT" => state # "POST_COMMIT"
    BY DEF RInv
  <1>4. /\ Queued(queue', handler')
        /\ state' # "POST_COMMIT" => AtFront(batch'.requests, queue')
        /\ Divided(unsent', Waits(queue', handler'), DecidedRequests', given_up')
    BY <1>1, <1>2, <1>3, Zenon DEF RInv
  <1>5. DecidedOnce'
    BY <1>2, Zenon DEF RInv
  <1> QED BY <1>3, <1>4, <1>5, ZenonT(30) DEF RInv

LEMMA OnSendRequestKeeps ==
    ASSUME RInv, NEW S, OnSendRequest(S)
    PROVE  RInv'
  <1> DEFINE H == handler \o Listed(S)
  <1>1. /\ Queued(queue, handler)
        /\ state # "POST_COMMIT" => AtFront(batch.requests, queue)
        /\ Divided(unsent, Waits(queue, handler), DecidedRequests, given_up) /\ DecidedOnce
    BY Zenon DEF RInv
  <1>2. S \subseteq unsent /\ unsent' = unsent \ S /\ decided' = decided
    BY DEF OnSendRequest
  <1>3. DecidedRequests' = DecidedRequests /\ (DecidedOnce' <=> DecidedOnce)
    BY <1>2 DEF DecidedRequests, DecidedOnce
  <1>4. Fresh(S, queue, handler)
    BY <1>1, <1>2, ZenonT(30) DEF Divided, Fresh
  <1>5. Adds(queue, H, queue, handler, S)
    BY <1>1, <1>4, Submitted, ZenonT(30)
  <1>6. \/ NextSession(queue, H, sequence)
        \/ /\ state \in {"PRE_PREPARE", "POST_PREPARE"} /\ handler' = H
           /\ queue' = queue /\ batch' = batch /\ state' = state /\ given_up' = given_up
    BY Zenon DEF OnSendRequest, sessionVars
  <1> HIDE DEF H
  <1>7. Queued(queue, H) /\ Waits(queue, H) = Waits(queue, handler) \cup S
    BY <1>5, ZenonT(30) DEF Adds
  <1>8. Divided(unsent', Waits(queue, H), DecidedRequests', given_up)
    <2> DEFINE W == Waits(queue, handler)
               D == DecidedRequests
    <2>1. Divided(unsent, W, D, given_up)
      BY <1>1, Zenon
    <2> HIDE DEF W, D
    <2>2. Divided(unsent \ S, W \cup S, D, given_up)
      BY <1>2, <2>1 DEF Divided
    <2> QED BY <1>2, <1>3, <1>7, <2>2, ZenonT(30) DEF W, D
  <1>9. CASE NextSession(queue, H, sequence)
    <2>1. PICK dropped : Begins(queue, H, {}, dropped)
      BY <1>7, <1>9, NextSessionBegins, ZenonT(30)
    <2>2. given_up \cup {} = given_up
      OBVIOUS
    <2>3. Divided(unsent', Waits(queue, H), DecidedRequests', given_up \cup {}) /\ DecidedOnce'
      BY <1>1, <1>3, <1>8, <2>2, ZenonT(30)
    <2> QED BY <2>1, <2>3, BeginsKeeps, Zenon
  <1>10. CASE /\ state \in {"PRE_PREPARE", "POST_PREPARE"} /\ handler' = H
              /\ queue' = queue /\ batch' = batch /\ state' = state /\ given_up' = given_up
    <2>1. /\ state' \in {"POST_COMMIT", "PRE_PREPARE", "POST_PREPARE", "HALTED"}
          /\ AtFront(batch'.requests, queue')
      BY <1>1, <1>10
    <2>2. Queued(queue', handler') /\ Divided(unsent', Waits(queue', handler'), DecidedRequests', given_up')
      BY <1>7, <1>8, <1>10, ZenonT(30)
    <2> QED BY <1>1, <1>3, <2>1, <2>2, ZenonT(30) DEF RInv
  <1> QED BY <1>6, <1>9, <1>10

LEMMA BatchPops ==
    ASSUME RInv, state # "POST_COMMIT"
    PROVE  /\ Pops(queue, handler, batch.requests, WithoutBatch(batch.requests, queue))
           /\ CanPopFront(batch.requests, queue)
           /\ PopFront(batch.requests, queue) = Tail(WithoutBatch(batch.requests, queue))
  <1>1. Queued(queue, handler) /\ AtFront(batch.requests, queue)
    BY Zenon DEF RInv
  <1>2. Pops(queue, handler, batch.requests, WithoutBatch(batch.requests, queue))
    BY <1>1, Popped, ZenonT(30) DEF WithoutBatch
  <1> QED BY <1>2, Zenon DEF Pops, CanPopFront, PopFront

(* A batch is regrouped: its requests wait again or are given up.          *)
LEMMA RejectedKeeps ==
    ASSUME RInv, state = "PRE_PREPARE", NEW signers, NEW count, OnPrePrepareRejected(signers, count),
           UNCHANGED <<unsent, decided>>
    PROVE  RInv'
  <1> DEFINE b == batch.requests
             n == Len(b)
             enough == {i \in 1..n : Supported(signers, count[b[i]])}
             who == [i \in 1..n |-> {d \in Backups : count[b[i]][d] > 0}]
             found == Subsets(n, enough, who)
             lost == {b[i] : i \in (1..n) \ enough}
             S == {b[i] : i \in enough}
             Q == InsertFront(b, found.groups, PopFront(b, queue))
             q == PopFront(b, queue)
  <1>1. state # "POST_COMMIT" /\ state # "HALTED"
    OBVIOUS
  <1>2. /\ Queued(queue, handler) /\ DecidedOnce
        /\ Divided(unsent, Waits(queue, handler), DecidedRequests, given_up)
    BY Zenon DEF RInv
  <1>3. Pops(queue, handler, b, WithoutBatch(batch.requests, queue)) /\ q = Tail(WithoutBatch(batch.requests, queue))
    BY <1>1, BatchPops, ZenonT(30)
  <1>4. \/ ConstructBatch(Q, handler, sequence, lost)
        \/ Halt
    BY Zenon DEF OnPrePrepareRejected
  <1>5. CASE Halt
    <2>1. state' = "HALTED" /\ UNCHANGED <<queue, handler, batch, given_up>>
      BY <1>5 DEF Halt
    <2> QED BY <1>1, <2>1, StutterKeeps
  <1>6. CASE ConstructBatch(Q, handler, sequence, lost)
    <2>1. /\ Queued(q, handler) /\ b \in Seq(Requests) /\ Distinct(b)
          /\ Range(b) \subseteq Waits(queue, handler)
          /\ Waits(q, handler) = Waits(queue, handler) \ Range(b)
      BY <1>3, ZenonT(30) DEF Pops
    <2>2. n \in Nat
      BY <2>1
    <2>3. enough \subseteq 1..n /\ \A i \in 1..n : who[i] \in SUBSET Backups
      OBVIOUS
    <2> HIDE DEF enough, who
    <2>4. found.groups \in Seq(Group(n, Backups)) /\ Grouped(found.groups, enough, who)
      BY <2>2, <2>3, SubsetsGroups, ZenonT(30)
    <2> HIDE DEF found
    <2>5. Adds(Q, handler, q, handler, S)
      <3>1. Range(b) \cap Waits(q, handler) = {}
        BY <2>1, Zenon
      <3> HIDE DEF q
      <3>2. Adds(InsertFront(b, found.groups, q), handler, q, handler, S)
        BY <2>1, <2>3, <2>4, <3>1, Inserted, ZenonT(30)
      <3> QED BY <3>2, Zenon DEF q
    <2> HIDE DEF Q, q
    <2>6. /\ Queued(Q, handler)
          /\ Waits(Q, handler) = (Waits(queue, handler) \ Range(b)) \cup S
      BY <2>1, <2>5, ZenonT(30) DEF Adds
    <2>7. S \cup lost = Range(b) /\ S \cap lost = {}
      <3>1. DOMAIN b = 1..n /\ \A i \in 1..n : b[i] \in Requests
        BY <2>1
      <3>2. \A i, j \in 1..n : b[i] = b[j] => i = j
        BY <2>1, <3>1, RequestsAssumption, ZenonT(30) DEF Distinct
      <3>3. Range(b) = {b[i] : i \in 1..n}
        BY <3>1, ZenonT(30) DEF Range
      <3> HIDE DEF n, b
      <3> QED BY <2>3, <3>2, <3>3, ZenonT(30)
    <2> HIDE DEF S, lost
    <2>8. Divided(unsent', Waits(Q, handler), DecidedRequests', given_up \cup lost) /\ DecidedOnce'
      <3>1. unsent' = unsent /\ DecidedRequests' = DecidedRequests /\ (DecidedOnce' <=> DecidedOnce)
        BY DEF DecidedRequests, DecidedOnce
      <3> DEFINE W == Waits(queue, handler)
                 D == DecidedRequests
                 T == Range(b)
      <3>2. Divided(unsent, W, D, given_up) /\ T \subseteq W /\ S \cup lost = T /\ S \cap lost = {}
        BY <1>2, <2>1, <2>7, ZenonT(30)
      <3> HIDE DEF W, D, T
      <3>3. Divided(unsent, (W \ T) \cup S, D, given_up \cup lost)
        BY <3>2 DEF Divided
      <3> QED BY <1>2, <2>6, <3>1, <3>3, ZenonT(30) DEF W, D, T
    <2>9. PICK dropped : Begins(Q, handler, lost, dropped)
      BY <1>6, <2>6, Constructed, ZenonT(30)
    <2> QED BY <2>8, <2>9, BeginsKeeps, ZenonT(30)
  <1> QED BY <1>4, <1>5, <1>6

LEMMA OnPrepareKeeps ==
    ASSUME RInv, NEW m, OnPrepare(m)
    PROVE  RInv'
  <1> DEFINE signers == signatures \cup {m.from}
  <1>1. state = "PRE_PREPARE" /\ UNCHANGED <<unsent, decided>>
    BY DEF OnPrepare, Proceed
  <1>2. \/ state' = "POST_PREPARE" /\ UNCHANGED <<queue, handler, batch, given_up>>
        \/ OnPrePrepareRejected(signers, support)
        \/ UNCHANGED <<state, queue, handler, batch, given_up>>
    BY Zenon DEF OnPrepare
  <1>3. CASE OnPrePrepareRejected(signers, support)
    BY <1>1, <1>3, RejectedKeeps, ZenonT(30)
  <1>4. CASE state' = "POST_PREPARE" /\ UNCHANGED <<queue, handler, batch, given_up>>
    BY <1>1, <1>4, StutterKeeps
  <1>5. CASE UNCHANGED <<state, queue, handler, batch, given_up>>
    BY <1>1, <1>5, StutterKeeps, ZenonT(30)
  <1> QED BY <1>2, <1>3, <1>4, <1>5, ZenonT(30)

LEMMA OnRejectionKeeps ==
    ASSUME RInv, NEW m, OnRejection(m)
    PROVE  RInv'
  <1> DEFINE for == Counted(support, Range(batch.requests) \ m.invalid, m.from)
  <1>1. state = "PRE_PREPARE" /\ UNCHANGED <<unsent, decided>>
    BY DEF OnRejection, Proceed
  <1>2. \/ OnPrePrepareRejected(signatures, for)
        \/ UNCHANGED <<state, queue, handler, batch, given_up>>
    BY Zenon DEF OnRejection
  <1>3. CASE OnPrePrepareRejected(signatures, for)
    BY <1>1, <1>3, RejectedKeeps, ZenonT(30)
  <1>4. CASE UNCHANGED <<state, queue, handler, batch, given_up>>
    BY <1>1, <1>4, StutterKeeps
  <1> QED BY <1>2, <1>3, <1>4, ZenonT(30)

LEMMA OnConsensusReachedKeeps ==
    ASSUME RInv, OnConsensusReached
    PROVE  RInv'
  <1> DEFINE b == batch.requests
             q == PopFront(b, queue)
             T == Range(b)
  <1>1. state # "POST_COMMIT" /\ decided' = decided \cup {batch} /\ unsent' = unsent
    BY DEF OnConsensusReached
  <1>2. /\ DecidedOnce
        /\ Divided(unsent, Waits(queue, handler), DecidedRequests, given_up)
    BY Zenon DEF RInv
  <1>3. /\ Pops(queue, handler, b, WithoutBatch(batch.requests, queue)) /\ CanPopFront(batch.requests, queue)
        /\ q = Tail(WithoutBatch(batch.requests, queue))
    BY <1>1, BatchPops, ZenonT(30)
  <1>4. NextSession(q, handler, sequence + 1)
    BY <1>3, Zenon DEF OnConsensusReached, BeginNextRound
  <1>5. /\ Queued(q, handler) /\ T \subseteq Waits(queue, handler)
        /\ Waits(q, handler) = Waits(queue, handler) \ T
    BY <1>3, Zenon DEF Pops
  <1>6. DecidedRequests' = DecidedRequests \cup T
    BY <1>1, Zenon DEF DecidedRequests
  <1>7. Divided(unsent', Waits(q, handler), DecidedRequests', given_up \cup {})
    <2> DEFINE W == Waits(queue, handler)
               D == DecidedRequests
    <2>1. Divided(unsent, W, D, given_up) /\ T \subseteq W
      BY <1>2, <1>5, ZenonT(30)
    <2> HIDE DEF W, D, T
    <2>2. Divided(unsent, W \ T, D \cup T, given_up \cup {})
      BY <2>1 DEF Divided
    <2> QED BY <1>1, <1>5, <1>6, <2>2, ZenonT(30) DEF W, D
  <1>8. DecidedOnce'
    <2>1. \A c \in decided : Range(c.requests) \cap T = {}
      <3>1. \A c \in decided : Range(c.requests) \subseteq DecidedRequests
        BY Zenon DEF DecidedRequests
      <3>2. T \cap DecidedRequests = {}
        BY <1>2, <1>5, ZenonT(30) DEF Divided
      <3> QED BY <3>1, <3>2, ZenonT(30)
    <2> SUFFICES ASSUME NEW x \in decided', NEW y \in decided',
                        Range(x.requests) \cap Range(y.requests) # {}
                 PROVE  x = y
      BY Zenon DEF DecidedOnce
    <2>2. (x \in decided \/ x = batch) /\ (y \in decided \/ y = batch)
      BY <1>1, Zenon
    <2>3. CASE x \in decided /\ y \in decided
      BY <1>2, <2>3, Zenon DEF DecidedOnce
    <2>4. CASE x \in decided /\ y = batch
      BY <2>1, <2>4, Zenon
    <2>5. CASE x = batch /\ y \in decided
      BY <2>1, <2>5, ZenonT(30)
    <2> QED BY <2>2, <2>3, <2>4, <2>5, ZenonT(30)
  <1> HIDE DEF q
  <1>9. PICK dropped : Begins(q, handler, {}, dropped)
    BY <1>4, <1>5, NextSessionBegins, ZenonT(30)
  <1> QED BY <1>7, <1>8, <1>9, BeginsKeeps, ZenonT(30)

LEMMA OnTimeoutKeeps ==
    ASSUME RInv, OnTimeout
    PROVE  RInv'
  <1>1. state \in {"PRE_PREPARE", "POST_PREPARE"} /\ UNCHANGED <<unsent, decided>>
    BY DEF OnTimeout
  <1>2. \/ ConstructBatch(queue, handler, sequence, {})
        \/ state' = "PRE_PREPARE" /\ UNCHANGED <<queue, handler, batch, given_up>>
    BY DEF OnTimeout, SendPrePrepare
  <1>3. CASE ConstructBatch(queue, handler, sequence, {})
    <2>1. /\ Queued(queue, handler) /\ DecidedOnce
          /\ Divided(unsent, Waits(queue, handler), DecidedRequests, given_up)
      BY Zenon DEF RInv
    <2>2. DecidedRequests' = DecidedRequests /\ (DecidedOnce' <=> DecidedOnce) /\ unsent' = unsent
      BY <1>1 DEF DecidedRequests, DecidedOnce
    <2>3. given_up \cup {} = given_up
      OBVIOUS
    <2>4. Divided(unsent', Waits(queue, handler), DecidedRequests', given_up \cup {}) /\ DecidedOnce'
      BY <2>1, <2>2, <2>3, ZenonT(30)
    <2>5. PICK dropped : Begins(queue, handler, {}, dropped)
      BY <1>3, <2>1, Constructed, ZenonT(30)
    <2> QED BY <2>4, <2>5, BeginsKeeps, ZenonT(30)
  <1>4. CASE state' = "PRE_PREPARE" /\ UNCHANGED <<queue, handler, batch, given_up>>
    BY <1>1, <1>4, StutterKeeps
  <1> QED BY <1>2, <1>3, <1>4

LEMMA InitInvariant == Init => RInv
  <1> SUFFICES ASSUME Init PROVE RInv
    OBVIOUS
  <1> DEFINE e == <<>>
  <1>1. /\ state = "POST_COMMIT" /\ queue = e /\ handler = e /\ unsent = Requests
        /\ decided = {} /\ given_up = {}
    BY DEF Init
  <1>2. Queued(e, e)
    BY DEF Queued, Distinct, Contains
  <1>3. Waits(e, e) = {}
    BY DEF Waits, Contains
  <1>4. DecidedRequests = {} /\ DecidedOnce
    BY <1>1 DEF DecidedRequests, DecidedOnce
  <1>5. Divided(Requests, {}, {}, {})
    BY DEF Divided
  <1> HIDE DEF e
  <1> QED BY <1>1, <1>2, <1>3, <1>4, <1>5 DEF RInv

LEMMA NextInvariant == RInv /\ [Next]_vars => RInv'
  <1> SUFFICES ASSUME RInv, [Next]_vars PROVE RInv'
    OBVIOUS
  <1>1. ASSUME UNCHANGED <<state, queue, handler, batch, unsent, decided, given_up>> PROVE RInv'
    BY <1>1, StutterKeeps
  <1>2. ASSUME NEW S \in Submissions, OnSendRequest(S) PROVE RInv'
    BY <1>2, OnSendRequestKeeps, ZenonT(30)
  <1>3. ASSUME NEW m, OnPrepare(m) PROVE RInv'
    BY <1>3, OnPrepareKeeps, Zenon
  <1>4. ASSUME NEW m, OnRejection(m) PROVE RInv'
    BY <1>4, OnRejectionKeeps, Zenon
  <1>5. ASSUME NEW m, DisregardAnswer(m) PROVE RInv'
    BY <1>1, <1>5 DEF DisregardAnswer, sessionVars
  <1>6. ASSUME OnConsensusReached PROVE RInv'
    BY <1>6, OnConsensusReachedKeeps, Zenon
  <1>7. ASSUME OnTimeout PROVE RInv'
    BY <1>7, OnTimeoutKeeps, ZenonT(30)
  <1>8. ASSUME NEW d, NEW m, OnPrePrepare(d, m) PROVE RInv'
    BY <1>1, <1>8 DEF OnPrePrepare, sessionVars
  <1>9. ASSUME NEW d, OnPostCommit(d) PROVE RInv'
    BY <1>1, <1>9 DEF OnPostCommit, sessionVars
  <1>10. ASSUME UNCHANGED vars PROVE RInv'
    BY <1>1, <1>10 DEF vars, sessionVars
  <1> QED BY <1>2, <1>3, <1>4, <1>5, <1>6, <1>7, <1>8, <1>9, <1>10, ZenonT(30)
          DEF Next, PrimaryReceives, BackupReceives

LEMMA Invariant == Spec => []RInv
  BY InitInvariant, NextInvariant, PTL DEF Spec

(* However often a batch is regrouped, re-proposed after a timeout or      *)
(* refilled, it is the first group of the queue, closed by its delimiter,  *)
(* so that PopFront removes it and never halts the node.                   *)
THEOREM BatchStaysAtFront == Spec => []BatchAtFront
  <1>1. RInv => BatchAtFront
    <2> SUFFICES ASSUME RInv, state \in {"PRE_PREPARE", "POST_PREPARE"}
                 PROVE  CanPopFront(batch.requests, queue) /\ FirstGroup(queue) = batch.requests
      BY DEF BatchAtFront
    <2>1. state # "POST_COMMIT"
      OBVIOUS
    <2> QED BY <2>1, BatchPops, Zenon DEF Pops
  <1> QED BY <1>1, Invariant, PTL

(* A request that a client has sent waits, was decided or was given up,    *)
(* and only one of these: none is lost or decided after it was given up.   *)
THEOREM RequestsAccountedFor == Spec => []AccountedFor
  <1>1. RInv => AccountedFor
    <2> SUFFICES ASSUME RInv, NEW r \in Requests \ unsent
                 PROVE  Cardinality({w \in {"waits", "decided", "given up"} :
                            CASE w = "waits"    -> Contains(handler, r) \/ Contains(queue, r)
                              [] w = "decided"  -> r \in DecidedRequests
                              [] w = "given up" -> r \in given_up}) = 1
      BY Zenon DEF AccountedFor
    <2> DEFINE A == Contains(handler, r) \/ Contains(queue, r)
               B == r \in DecidedRequests
               C == r \in given_up
               P(w) == CASE w = "waits" -> A [] w = "decided" -> B [] w = "given up" -> C
               X == {w \in {"waits", "decided", "given up"} : P(w)}
    <2>1. /\ A \/ B \/ C
          /\ ~(A /\ B) /\ ~(A /\ C) /\ ~(B /\ C)
      <3>1. A <=> r \in Waits(queue, handler)
        BY Zenon DEF Waits
      <3>2. Divided(unsent, Waits(queue, handler), DecidedRequests, given_up)
        BY Zenon DEF RInv
      <3> HIDE DEF A
      <3> QED BY <3>1, <3>2, Zenon DEF Divided
    <2> HIDE DEF A, B, C
    <2>2. (P("waits") <=> A) /\ (P("decided") <=> B) /\ (P("given up") <=> C)
      OBVIOUS
    <2> HIDE DEF P
    <2>3. X = {"waits"} \/ X = {"decided"} \/ X = {"given up"}
      <3>1. CASE A
        BY <2>1, <2>2, <3>1, Zenon
      <3>2. CASE B
        BY <2>1, <2>2, <3>2, Zenon
      <3>3. CASE C
        BY <2>1, <2>2, <3>3, Zenon
      <3> QED BY <2>1, <3>1, <3>2, <3>3, ZenonT(30)
    <2> HIDE DEF X
    <2>4. Cardinality(X) = 1
      BY <2>3, FS_Singleton, ZenonT(30)
    <2> QED BY <2>4, Zenon DEF X, P, A, B, C
  <1> QED BY <1>1, Invariant, PTL

(* No request is decided in two batches.                                   *)
THEOREM RequestsDecidedOnce == Spec => []DecidedOnce
  <1>1. RInv => DecidedOnce
    BY Zenon DEF RInv
  <1> QED BY <1>1, Invariant, PTL
=============================================================================
