-------------------------- MODULE RequestRejection --------------------------
(***************************************************************************)
(* What the primary does with the requests it was given when backups       *)
(* reject some of them: the internal queue with its delimiters             *)
(* (RequestInternalQueue), the batch under way, the weights collected for  *)
(* and against every request, and the re-proposal of the groups that       *)
(* GenerateSubsets finds (RequestConsensusManager), against backups that   *)
(* disagree about the requests (RequestBackupDelegate).                    *)
(*                                                                         *)
(* The commit phase is modelled in DelegateConsensus; here a batch with a  *)
(* quorum of Prepares is decided or times out.  A batch stands for its     *)
(* hash: it is its requests, its sequence and a stamp for its timestamp.   *)
(***************************************************************************)
EXTENDS DelegateWeights, GenerateSubsets, RequestQueue

CONSTANTS Primary,
          Submissions,    \* sets of requests that clients send at once
          Settings,       \* what delegates and timers may do, see Setting
          Copies,         \* copies of an answer, over the socket and p2p
          MaxStamp        \* timestamps told apart

Backups == Delegates \ {Primary}

(* The requests each delegate finds invalid, and when the primary's timer  *)
(* may expire: it is a minute long, and "quiet" has it expire only when    *)
(* every message on its way has been handled.                              *)
Setting == [invalid : [Delegates -> SUBSET Requests], timeouts : {"never", "quiet"}]

ASSUME SettingsAssumption == Settings \subseteq Setting

VARIABLES
    setting,            \* a member of Settings, chosen once
    unsent,             \* requests no client has sent yet
    handler,            \* RequestMessageHandler's entries that are due
    queue,              \* _request_queue
    batch,              \* _current_batch
    stamp,              \* the last timestamp used
    state,              \* _state; "HALTED" after undefined behaviour or a halt
    hashes,             \* _hashes: requests of the batch still open
    repropose_subset,   \* _repropose_subset
    signatures,         \* _signatures: the backups that prepared the batch
    support,            \* _response_weights: answers for and
    reject,             \*   against each request, per backup
    sequence,           \* _sequence
    decided,            \* the batches decided
    given_up,           \* requests the primary has removed undecided
    pre_prepares,       \* PrePrepares on their way
    answers,            \* Prepares and Rejections on their way
    b_pre_prepare,      \* each backup's _pre_prepare; NoBatch in VOID
    b_sequence          \* each backup's _sequence_number

sessionVars == <<batch, stamp, state, hashes, repropose_subset, signatures, support, reject>>
vars == <<setting, unsent, handler, queue, sessionVars, sequence, decided, given_up,
          pre_prepares, answers, b_pre_prepare, b_sequence>>

NoBatch == [requests |-> <<>>, sequence |-> 0, stamp |-> 0]
NoAnswers == [r \in Requests |-> [d \in Backups |-> 0]]

Init ==
    /\ setting \in Settings
    /\ unsent = Requests
    /\ handler = <<>>
    /\ queue = <<>>
    /\ batch = NoBatch
    /\ stamp = 0
    /\ state = "POST_COMMIT"
    /\ hashes = {}
    /\ repropose_subset = FALSE
    /\ signatures = {}
    /\ support = NoAnswers
    /\ reject = NoAnswers
    /\ sequence = 0
    /\ decided = {}
    /\ given_up = {}
    /\ pre_prepares = {}
    /\ answers = {}
    /\ b_pre_prepare = [d \in Backups |-> NoBatch]
    /\ b_sequence = [d \in Backups |-> 0]

-----------------------------------------------------------------------------
(* Weights *)

Total(w, count) == MapThenSumSet(LAMBDA d : w[d] * count[d], Backups)

(* The batch with the answers counted for a single request *)
Supported(signers, count) ==
    /\ Weight(VoteWeight, signers \cup {Primary}) + Total(VoteWeight, count) >= Quorum(VoteTotal)
    /\ Weight(StakeWeight, signers \cup {Primary}) + Total(StakeWeight, count) >= Quorum(StakeTotal)

(* More weight than may fail is against the request.                       *)
Rejected(count) ==
    \/ Total(VoteWeight, count) > MaxFault(VoteTotal)
    \/ Total(StakeWeight, count) > MaxFault(StakeTotal)

-----------------------------------------------------------------------------
(* The primary *)

(* The new batch is sent and the answers to the last one are forgotten.    *)
SendPrePrepare(b) ==
    /\ batch' = b
    /\ state' = "PRE_PREPARE"
    /\ repropose_subset' = FALSE
    /\ signatures' = {}
    /\ support' = NoAnswers
    /\ reject' = NoAnswers
    /\ pre_prepares' = pre_prepares \cup {[to |-> d, batch |-> b] : d \in Backups}

(* InitiateConsensus with a batch constructed from queue q, refilled from  *)
(* handler h if it is empty.  The primary validates the requests again and *)
(* drops those it finds invalid.                                           *)
ConstructBatch(q, h, seq, lost) ==
    LET refilled == IF q = <<>> THEN MoveToTarget(q, h) ELSE q
        valid == Without(FirstGroup(refilled), setting.invalid[Primary])
        next == IF stamp < MaxStamp THEN stamp + 1 ELSE stamp
    IN  /\ queue' = valid \o AfterGroup(refilled)
        /\ handler' = IF q = <<>> THEN <<>> ELSE h
        /\ stamp' = next
        /\ hashes' = Range(valid)
        /\ given_up' = given_up \cup lost \cup (Range(FirstGroup(refilled)) \ Range(valid))
        /\ SendPrePrepare([requests |-> valid, sequence |-> seq, stamp |-> next])

(* OnMessageQueued, no session going on: one starts if requests wait.      *)
NextSession(q, h, seq) ==
    \/ /\ q # <<>> \/ h # <<>>
       /\ ConstructBatch(q, h, seq, {})
    \/ /\ q = <<>> /\ h = <<>>
       /\ queue' = q
       /\ handler' = h
       /\ batch' = NoBatch
       /\ state' = "POST_COMMIT"
       /\ signatures' = {}
       /\ support' = NoAnswers
       /\ reject' = NoAnswers
       /\ UNCHANGED <<stamp, hashes, repropose_subset, given_up, pre_prepares>>

(* A client sends requests; a session starts unless one is going on.       *)
OnSendRequest(S) ==
    /\ S # {} /\ S \subseteq unsent
    /\ unsent' = unsent \ S
    /\ \/ /\ state = "POST_COMMIT"
          /\ NextSession(queue, handler \o Listed(S), sequence)
       \/ /\ state \in {"PRE_PREPARE", "POST_PREPARE"}
          /\ handler' = handler \o Listed(S)
          /\ UNCHANGED <<queue, sessionVars, given_up, pre_prepares>>
    /\ UNCHANGED <<setting, sequence, decided, answers, b_pre_prepare, b_sequence>>

Halt == state' = "HALTED" /\ UNCHANGED <<queue, handler, batch, stamp, hashes, repropose_subset,
                                         signatures, support, reject, given_up, pre_prepares>>

(* Every request of the batch is decided one way or the other: those with  *)
(* enough support are grouped, queued again and the first group proposed.  *)
OnPrePrepareRejected(signers, count) ==
    LET n == Len(batch.requests)
        enough == {i \in 1..n : Supported(signers, count[batch.requests[i]])}
        who == [i \in 1..n |-> {d \in Backups : count[batch.requests[i]][d] > 0}]
        lost == {batch.requests[i] : i \in (1..n) \ enough}
    IN  \E found \in {Subsets(n, enough, who)} :
            IF found.defined /\ CanPopFront(batch.requests, queue)
            THEN ConstructBatch(InsertFront(batch.requests, found.groups, PopFront(batch.requests, queue)),
                                handler, sequence, lost)
            ELSE Halt

Proceed(m) == state = "PRE_PREPARE" /\ m.batch = batch

(* A Prepare counts once per backup.  The whole batch may have its quorum; *)
(* if not, and a rejection was seen, the requests that are now supported   *)
(* are no longer open.                                                     *)
OnPrepare(m) ==
    LET signers == signatures \cup {m.from}
        open == IF repropose_subset THEN {r \in hashes : ~Supported(signers, support[r])} ELSE hashes
        quorum == ReachedQuorum(signers \cup {Primary})
    IN  /\ m.type = "Prepare"
        /\ Proceed(m)
        /\ answers' = answers \ {m}
        /\ \/ /\ quorum
              /\ state' = "POST_PREPARE"
              /\ signatures' = {}
              /\ support' = NoAnswers
              /\ reject' = NoAnswers
              /\ hashes' = open
              /\ UNCHANGED <<queue, handler, batch, stamp, repropose_subset, given_up, pre_prepares>>
           \/ /\ ~quorum
              /\ open = {} /\ repropose_subset
              /\ OnPrePrepareRejected(signers, support)
           \/ /\ ~quorum
              /\ ~(open = {} /\ repropose_subset)
              /\ signatures' = signers
              /\ hashes' = open
              /\ UNCHANGED <<queue, handler, batch, stamp, state, repropose_subset, support,
                             reject, given_up, pre_prepares>>
        /\ UNCHANGED <<setting, unsent, sequence, decided, b_pre_prepare, b_sequence>>

Counted(count, S, d) == [r \in Requests |-> IF r \in S THEN [count[r] EXCEPT ![d] = @ + 1] ELSE count[r]]

(* Mutant of StillOpen: support is enough where a rejection is needed.     *)
MutantStillOpen(m, for, against) ==
    {r \in hashes : IF r \in m.invalid THEN FALSE ELSE ~Supported(signatures, for[r])}

(* The open requests after a rejection, with the answers for and against   *)
(* counted: a request is closed by enough support or enough rejections.    *)
StillOpen(m, for, against) ==
    {r \in hashes : IF r \in m.invalid THEN ~Rejected(against[r]) ELSE ~Supported(signatures, for[r])}

(* A rejection counts for the requests it does not name and against those  *)
(* it does, every time it is received.                                     *)
OnRejection(m) ==
    LET requests == Range(batch.requests)
        for == Counted(support, requests \ m.invalid, m.from)
        against == Counted(reject, m.invalid, m.from)
        open == StillOpen(m, for, against)
    IN  /\ m.type = "Rejection"
        /\ Proceed(m)
        /\ answers' = answers \ {m}
        /\ \/ /\ open = {}
              /\ OnPrePrepareRejected(signatures, for)
           \/ /\ open # {}
              /\ repropose_subset' = TRUE
              /\ support' = for
              /\ reject' = against
              /\ hashes' = open
              /\ UNCHANGED <<queue, handler, batch, stamp, state, signatures, given_up, pre_prepares>>
        /\ UNCHANGED <<setting, unsent, sequence, decided, b_pre_prepare, b_sequence>>

(* An answer to another batch or phase is disregarded.                     *)
DisregardAnswer(m) ==
    /\ ~Proceed(m)
    /\ answers' = answers \ {m}
    /\ UNCHANGED <<setting, unsent, handler, queue, sessionVars, sequence, decided, given_up,
                   pre_prepares, b_pre_prepare, b_sequence>>

(* Mutant of BeginNextRound: the decided batch is left in the queue.       *)
MutantBeginNextRound == NextSession(queue, handler, sequence + 1)

BeginNextRound ==
    IF CanPopFront(batch.requests, queue)
    THEN NextSession(PopFront(batch.requests, queue), handler, sequence + 1)
    ELSE Halt

(* A quorum of Commits decides the batch and the next round begins.        *)
OnConsensusReached ==
    /\ state = "POST_PREPARE"
    /\ sequence' = sequence + 1
    /\ decided' = decided \cup {batch}
    /\ BeginNextRound
    /\ UNCHANGED <<setting, unsent, answers, b_pre_prepare, b_sequence>>

(* OnTimeout, OnQuorumFailed.  Without a rejection the same batch is sent  *)
(* again, and _hashes, which PrePrepareGetNext has cleared, stays empty.   *)
OnTimeout ==
    /\ setting.timeouts = "quiet" /\ pre_prepares = {} /\ answers = {}
    /\ state \in {"PRE_PREPARE", "POST_PREPARE"}
    /\ \/ /\ repropose_subset
          /\ ConstructBatch(queue, handler, sequence, {})
       \/ /\ ~repropose_subset
          /\ hashes' = {}
          /\ SendPrePrepare(batch)
          /\ UNCHANGED <<queue, handler, stamp, given_up>>
    /\ UNCHANGED <<setting, unsent, sequence, decided, answers, b_pre_prepare, b_sequence>>

-----------------------------------------------------------------------------
(* The backups *)

Answer(type, b, d, invalid) ==
    [type : {type}, batch : {b}, from : {d}, invalid : {invalid}, copy : 1..Copies]

(* A PrePrepare: prepared again, ignored, accepted, or rejected with the   *)
(* map of the requests found invalid.  In PREPARE another batch is not     *)
(* looked at.                                                              *)
OnPrePrepare(d, m) ==
    LET b == m.batch
        bad == Range(b.requests) \cap setting.invalid[d]
        prepare == Answer("Prepare", b, d, {})
        rejection == Answer("Rejection", b, d, bad)
    IN  /\ m.to = d
        /\ pre_prepares' = pre_prepares \ {m}
        /\ \/ /\ b = b_pre_prepare[d]
              /\ answers' = answers \cup prepare
              /\ UNCHANGED b_pre_prepare
           \/ /\ b_pre_prepare[d] = NoBatch /\ b.sequence = b_sequence[d]
              /\ bad = {}
              /\ b_pre_prepare' = [b_pre_prepare EXCEPT ![d] = b]
              /\ answers' = answers \cup prepare
           \/ /\ b_pre_prepare[d] = NoBatch /\ b.sequence = b_sequence[d]
              /\ bad # {}
              /\ answers' = answers \cup rejection
              /\ UNCHANGED b_pre_prepare
           \/ /\ b # b_pre_prepare[d]
              /\ b_pre_prepare[d] # NoBatch \/ b.sequence # b_sequence[d]
              /\ UNCHANGED <<answers, b_pre_prepare>>
        /\ UNCHANGED <<setting, unsent, handler, queue, sessionVars, sequence, decided,
                       given_up, b_sequence>>

(* PostCommit, or the post-committed block over p2p                        *)
OnPostCommit(d) ==
    /\ b_sequence[d] < sequence
    /\ b_sequence' = [b_sequence EXCEPT ![d] = @ + 1]
    /\ b_pre_prepare' = [b_pre_prepare EXCEPT ![d] = NoBatch]
    /\ UNCHANGED <<setting, unsent, handler, queue, sessionVars, sequence, decided, given_up,
                   pre_prepares, answers>>

PrimaryReceives ==
    \/ \E m \in answers : OnPrepare(m)
    \/ \E m \in answers : OnRejection(m)
    \/ \E m \in answers : DisregardAnswer(m)

BackupReceives(d) == \E m \in pre_prepares : OnPrePrepare(d, m)

Next ==
    \/ \E S \in Submissions : OnSendRequest(S)
    \/ PrimaryReceives
    \/ OnConsensusReached
    \/ OnTimeout
    \/ \E d \in Backups : BackupReceives(d)
    \/ \E d \in Backups : OnPostCommit(d)

Spec == Init /\ [][Next]_vars

(* The io_service runs what is ready, timers expire, and messages arrive.  *)
(* With "quiet" timeouts no message is sent while another is on its way    *)
(* for ever, so it is enough that some message is handled.                 *)
Fairness ==
    /\ WF_vars(PrimaryReceives)
    /\ WF_vars(OnConsensusReached)
    /\ WF_vars(OnTimeout)
    /\ WF_vars(\E d \in Backups : BackupReceives(d))
    /\ WF_vars(\E d \in Backups : OnPostCommit(d))

FairSpec == Spec /\ Fairness

-----------------------------------------------------------------------------
(* Properties                                                              *)

DecidedRequests == UNION {Range(b.requests) : b \in decided}

(* During a session the batch is the first group of the queue, closed by   *)
(* its delimiter, however it was regrouped: PopFront finds what it expects *)
(* and does not halt the node.                                             *)
BatchAtFront ==
    state \in {"PRE_PREPARE", "POST_PREPARE"} =>
        /\ CanPopFront(batch.requests, queue)
        /\ FirstGroup(queue) = batch.requests

(* No request a client has sent gets lost between handler, queue and       *)
(* batches: it waits, is decided, or was given up, and only one of these.  *)
AccountedFor ==
    state # "HALTED" =>
        \A r \in Requests \ unsent :
            Cardinality({w \in {"waits", "decided", "given up"} :
                CASE w = "waits"    -> Contains(handler, r) \/ Contains(queue, r)
                  [] w = "decided"  -> r \in DecidedRequests
                  [] w = "given up" -> r \in given_up}) = 1

(* A request is decided in at most one batch although it is proposed in    *)
(* several.                                                                *)
DecidedOnce ==
    \A a, b \in decided : Range(a.requests) \cap Range(b.requests) # {} => a = b

(* Unless a timeout may have cleared _hashes, the primary gives a request  *)
(* up only if it finds it invalid or backups with more than the tolerated  *)
(* weight of faults do: all requests of a rejected batch "have been        *)
(* explicitly rejected or accepted" (IsPrePrepareRejected).                *)
GivenUpRejected ==
    setting.timeouts = "never" => \A r \in given_up :
        \/ r \in setting.invalid[Primary]
        \/ Rejected([d \in Backups |-> IF r \in setting.invalid[d] THEN 1 ELSE 0])

(* A session that was begun ends: what has enough support to be re-proposed*)
(* has "enough weight to get this request post-committed".                 *)
SessionsEnd == state = "PRE_PREPARE" ~> state \in {"POST_COMMIT", "HALTED"}
=============================================================================
