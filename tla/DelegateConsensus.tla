------------------------- MODULE DelegateConsensus -------------------------
(***************************************************************************)
(* One delegate's chain of request blocks within an epoch: the primary     *)
(* that proposes them (PrimaryDelegate, ConsensusManager,                  *)
(* RequestConsensusManager) and the backups that vote on them              *)
(* (BackupDelegate, RequestBackupDelegate).                                *)
(*                                                                         *)
(* Messages travel over the socket and over p2p at the same time and are   *)
(* sent again, so msgs only grows: a message may be handled late, more     *)
(* than once, out of order, or never.                                      *)
(*                                                                         *)
(* A block's hash covers its timestamp, so a newly built batch has a new   *)
(* hash; hashes are numbered in the order the batches are built.  The      *)
(* post-prepare hash covers the block's hash and the aggregate signature;  *)
(* it is represented by the set of signers together with the block hash.   *)
(* Nothing of a consensus session is persisted: a delegate that restarts   *)
(* continues from the blocks its write thread has stored.                  *)
(***************************************************************************)
EXTENDS DelegateWeights, Sequences

CONSTANTS Primary,        \* the delegate whose chain this is
          Crashable,      \* delegates that may crash and restart
          Doubters,       \* backups that may find a request invalid
          Stores,         \* delegates whose database is followed
          MaxBatches,     \* bound on the batches built
          MaxRestarts     \* bound on the restarts

ASSUME DelegatesAssumption ==
    /\ Primary \in Delegates
    /\ Stores \subseteq Delegates
    /\ Crashable \subseteq Stores
    /\ MaxBatches \in Nat
    /\ MaxRestarts \in Nat

Backups == Delegates \ {Primary}

VARIABLES
    built,              \* batches built so far; the last one's hash
    msgs,               \* every message sent
    (* the primary *)
    state,              \* _state
    init_timer,         \* "pending" until StartConsensus's timer has fired
    batch,              \* _current_batch
    signatures,         \* _signatures: the backups that answered in this phase
    post_prepare,       \* signers of _post_prepare_sig while in POST_PREPARE
    repropose_subset,   \* _repropose_subset
    prev,               \* _prev_pre_prepare_hash
    sequence,           \* _sequence
    (* the backups *)
    b_state,            \* _state
    b_pre_prepare,      \* _pre_prepare while _pre_prepare_hash is set
    b_post_prepare,     \* signers of _post_prepare_sig; {} when cleared
    b_prev,             \* _prev_pre_prepare_hash
    b_sequence,         \* _sequence_number
    (* every delegate's storage *)
    stored,             \* the blocks in the database
    tip,                \* the request tip in the database
    restarts

primaryVars == <<state, init_timer, batch, signatures, post_prepare, repropose_subset, prev, sequence>>
backupVars == <<b_state, b_pre_prepare, b_post_prepare, b_prev, b_sequence>>
storeVars == <<stored, tip>>
vars == <<built, msgs, primaryVars, backupVars, storeVars, restarts>>

Hash == 1..MaxBatches
Block == [hash : Hash, sequence : Nat, previous : Hash \cup {0}]
NoBlock == [hash |-> 0, sequence |-> 0, previous |-> 0]

PrePrepare(b) == [type |-> "PrePrepare", block |-> b]
Prepare(h, d) == [type |-> "Prepare", hash |-> h, from |-> d]
Rejection(h, d) == [type |-> "Rejection", hash |-> h, from |-> d]
PostPrepare(h, S) == [type |-> "PostPrepare", hash |-> h, signers |-> S]
Commit(h, S, d) == [type |-> "Commit", hash |-> h, post_prepare |-> S, from |-> d]
PostCommit(h, S, T) == [type |-> "PostCommit", hash |-> h, post_prepare |-> S, signers |-> T]
PostCommittedBlock(b) == [type |-> "PostCommittedBlock", block |-> b]

Message ==
    [type : {"PrePrepare", "PostCommittedBlock"}, block : Block]
    \cup [type : {"Prepare", "Rejection"}, hash : Hash, from : Backups]
    \cup [type : {"PostPrepare"}, hash : Hash, signers : SUBSET Delegates]
    \cup [type : {"Commit"}, hash : Hash, post_prepare : SUBSET Delegates, from : Backups]
    \cup [type : {"PostCommit"}, hash : Hash, post_prepare : SUBSET Delegates, signers : SUBSET Delegates]

Received(type) == {m \in msgs : m.type = type}

Init ==
    /\ built = 0
    /\ msgs = {}
    /\ state = "INITIALIZING"
    /\ init_timer = "pending"
    /\ batch = NoBlock
    /\ signatures = {}
    /\ post_prepare = {}
    /\ repropose_subset = FALSE
    /\ prev = 0
    /\ sequence = 0
    /\ b_state = [d \in Backups |-> "VOID"]
    /\ b_pre_prepare = [d \in Backups |-> NoBlock]
    /\ b_post_prepare = [d \in Backups |-> {}]
    /\ b_prev = [d \in Backups |-> 0]
    /\ b_sequence = [d \in Backups |-> 0]
    /\ stored = [d \in Stores |-> {}]
    /\ tip = [d \in Stores |-> NoBlock]
    /\ restarts = 0

-----------------------------------------------------------------------------
(* The primary *)

(* ConstructBatch: a batch of queued requests takes the sequence and the   *)
(* previous hash, and a fresh timestamp makes its hash new.                *)
ConstructBatch(seq, previous) == [hash |-> built + 1, sequence |-> seq, previous |-> previous]

(* A new phase starts without answers.                                     *)
AdvanceState(s) ==
    /\ state' = s
    /\ signatures' = {}

(* InitiateConsensus with a new batch, which is sent after sent.           *)
InitiateConsensus(seq, previous, sent) ==
    LET next == ConstructBatch(seq, previous) IN
    /\ built < MaxBatches
    /\ built' = built + 1
    /\ batch' = next
    /\ AdvanceState("PRE_PREPARE")
    /\ post_prepare' = {}
    /\ repropose_subset' = FALSE
    /\ msgs' = msgs \cup sent \cup {PrePrepare(next)}

(* _ongoing is false before the first session and between two sessions.    *)
NotOngoing == state \notin {"PRE_PREPARE", "POST_PREPARE"}

(* The start-up timer asks for an empty batch, whatever the state is.      *)
StartConsensus ==
    /\ init_timer = "pending"
    /\ init_timer' = "fired"
    /\ InitiateConsensus(sequence, prev, {})
    /\ UNCHANGED <<prev, sequence, backupVars, storeVars, restarts>>

(* OnMessageQueued with requests in the queue and no session going on.     *)
OnMessageQueued ==
    /\ NotOngoing
    /\ InitiateConsensus(sequence, prev, {})
    /\ UNCHANGED <<init_timer, prev, sequence, backupVars, storeVars, restarts>>

(* OnPrePrepareRejected: the requests that still have enough support are   *)
(* queued again and a batch of them is proposed under the same sequence.   *)
OnPrePrepareRejected ==
    /\ InitiateConsensus(sequence, prev, {})
    /\ UNCHANGED <<init_timer, prev, sequence>>

(* ProceedWithMessage: an answer counts in the phase it is for.            *)
ProceedWithMessage(m, expected) ==
    /\ state = expected
    /\ m.hash = batch.hash

(* The delegates that have answered when m is counted, each of them once.  *)
Tally(m) == signatures \cup {m.from}

(* A Prepare counts once per delegate.  With the primary's own signature   *)
(* the answers may form a quorum; if not, and some backup has rejected     *)
(* requests, every request may now be decided and the batch be rejected.   *)
OnPrepare(m) ==
    LET signers == Tally(m) IN
    /\ m.type = "Prepare"
    /\ ProceedWithMessage(m, "PRE_PREPARE")
    /\ \/ /\ ReachedQuorum(signers \cup {Primary})
          /\ post_prepare' = signers \cup {Primary}
          /\ AdvanceState("POST_PREPARE")
          /\ msgs' = msgs \cup {PostPrepare(batch.hash, signers \cup {Primary})}
          /\ UNCHANGED <<built, init_timer, batch, repropose_subset, prev, sequence>>
       \/ /\ ~ReachedQuorum(signers \cup {Primary})
          /\ signatures' = signers
          /\ UNCHANGED <<built, msgs, state, init_timer, batch, post_prepare,
                         repropose_subset, prev, sequence>>
       \/ /\ ~ReachedQuorum(signers \cup {Primary})
          /\ repropose_subset
          /\ OnPrePrepareRejected
    /\ UNCHANGED <<backupVars, storeVars, restarts>>

(* A rejection of some of the requests: remembered, and perhaps the one    *)
(* that decides the last open request of the batch.                        *)
OnRejection(m) ==
    /\ m.type = "Rejection"
    /\ ProceedWithMessage(m, "PRE_PREPARE")
    /\ \/ /\ repropose_subset' = TRUE
          /\ UNCHANGED <<built, msgs, state, init_timer, batch, signatures, post_prepare,
                         prev, sequence>>
       \/ OnPrePrepareRejected
    /\ UNCHANGED <<backupVars, storeVars, restarts>>

(* A Commit counts once per delegate and only for the current              *)
(* post-prepare.  At quorum the block is decided: the PostCommit is sent,  *)
(* the block is handed to the cache and broadcast, and the next round      *)
(* begins if requests are waiting.                                         *)
OnCommit(m) ==
    LET signers == Tally(m) IN
    /\ m.type = "Commit"
    /\ ProceedWithMessage(m, "POST_PREPARE")
    /\ m.post_prepare = post_prepare
    /\ \/ /\ ~ReachedQuorum(signers \cup {Primary})
          /\ signatures' = signers
          /\ UNCHANGED <<built, msgs, state, batch, post_prepare, repropose_subset, prev, sequence>>
       \/ /\ ReachedQuorum(signers \cup {Primary})
          /\ sequence' = sequence + 1
          /\ prev' = batch.hash
          /\ LET sent == {PostCommit(batch.hash, post_prepare, signers \cup {Primary}),
                          PostCommittedBlock(batch)}
             IN  \/ InitiateConsensus(sequence + 1, batch.hash, sent)
                 \/ /\ AdvanceState("POST_COMMIT")
                    /\ batch' = NoBlock
                    /\ post_prepare' = {}
                    /\ msgs' = msgs \cup sent
                    /\ UNCHANGED <<built, repropose_subset>>
    /\ UNCHANGED <<init_timer, backupVars, storeVars, restarts>>

(* OnTimeout, OnQuorumFailed: the batch is proposed again with the same    *)
(* hash, unless requests of it were rejected; then a new one is built.     *)
OnTimeout ==
    /\ state \in {"PRE_PREPARE", "POST_PREPARE"}
    /\ \/ /\ repropose_subset
          /\ InitiateConsensus(sequence, prev, {})
       \/ /\ ~repropose_subset
          /\ AdvanceState("PRE_PREPARE")
          /\ post_prepare' = {}
          /\ msgs' = msgs \cup {PrePrepare(batch)}
          /\ UNCHANGED <<built, batch, repropose_subset>>
    /\ UNCHANGED <<init_timer, prev, sequence, backupVars, storeVars, restarts>>

-----------------------------------------------------------------------------
(* The backups *)

(* Mutant of AcceptsPrePrepare: a re-proposal is taken in any state.       *)
MutantAcceptsPrePrepare(d, b) ==
    /\ b.previous = b_prev[d]
    /\ b.sequence = b_sequence[d]

(* ProceedWithMessage and Validate of a PrePrepare, but for the requests.  *)
AcceptsPrePrepare(d, b) ==
    /\ b_state[d] = "VOID"
    /\ b.previous = b_prev[d]
    /\ b.sequence = b_sequence[d]

IsOldBlock(d, b) == b.sequence < b_sequence[d]

(* A PrePrepare.  The backup answers again for the block it has prepared,  *)
(* ignores an old one, accepts the next one or rejects it because of some  *)
(* of its requests.  The other reasons for a rejection change nothing at   *)
(* the primary and are not recorded.                                       *)
OnPrePrepare(d, m) ==
    LET b == m.block IN
    /\ m.type = "PrePrepare"
    /\ \/ /\ b.hash = b_pre_prepare[d].hash
          /\ b_state[d] \in {"PREPARE", "COMMIT"}
          /\ msgs' = msgs \cup {Prepare(b.hash, d)}
          /\ UNCHANGED <<b_state, b_pre_prepare>>
       \/ /\ b.hash # b_pre_prepare[d].hash
          /\ ~IsOldBlock(d, b)
          /\ AcceptsPrePrepare(d, b)
          /\ \/ /\ b_state' = [b_state EXCEPT ![d] = "PREPARE"]
                /\ b_pre_prepare' = [b_pre_prepare EXCEPT ![d] = b]
                /\ msgs' = msgs \cup {Prepare(b.hash, d)}
             \/ /\ d \in Doubters
                /\ msgs' = msgs \cup {Rejection(b.hash, d)}
                /\ UNCHANGED <<b_state, b_pre_prepare>>
    /\ UNCHANGED <<built, primaryVars, b_post_prepare, b_prev, b_sequence, storeVars, restarts>>

(* ProceedWithMessage and Validate of a PostPrepare *)
AcceptsPostPrepare(d, m) ==
    /\ b_state[d] = "PREPARE"
    /\ m.hash = b_pre_prepare[d].hash
    /\ ReachedQuorum(m.signers)

(* A PostPrepare: the Commit is sent again, or for the first time.         *)
OnPostPrepare(d, m) ==
    /\ m.type = "PostPrepare"
    /\ \/ /\ m.hash = b_pre_prepare[d].hash
          /\ m.signers = b_post_prepare[d]
          /\ UNCHANGED <<b_state, b_post_prepare>>
       \/ /\ AcceptsPostPrepare(d, m)
          /\ b_post_prepare' = [b_post_prepare EXCEPT ![d] = m.signers]
          /\ b_state' = [b_state EXCEPT ![d] = "COMMIT"]
    /\ msgs' = msgs \cup {Commit(b_pre_prepare[d].hash, m.signers, d)}
    /\ UNCHANGED <<built, primaryVars, b_pre_prepare, b_prev, b_sequence, storeVars, restarts>>

(* Mutant of AdvanceCounter: the hashes of the session are not cleared.    *)
MutantSessionKept(d, b) ==
    /\ b_state' = [b_state EXCEPT ![d] = "VOID"]
    /\ b_prev' = [b_prev EXCEPT ![d] = b.hash]
    /\ b_sequence' = [b_sequence EXCEPT ![d] = b.sequence + 1]
    /\ msgs' = msgs \cup {PostCommittedBlock(b)}
    /\ UNCHANGED <<b_pre_prepare, b_post_prepare>>

(* Mutant of AdvanceCounter: the previous hash is not moved on.            *)
MutantPrevKept(d, b) ==
    /\ b_state' = [b_state EXCEPT ![d] = "VOID"]
    /\ b_pre_prepare' = [b_pre_prepare EXCEPT ![d] = NoBlock]
    /\ b_post_prepare' = [b_post_prepare EXCEPT ![d] = {}]
    /\ b_sequence' = [b_sequence EXCEPT ![d] = b.sequence + 1]
    /\ msgs' = msgs \cup {PostCommittedBlock(b)}
    /\ UNCHANGED b_prev

(* What a backup does when it learns that b is post-committed: it moves on *)
(* to the next sequence number and broadcasts the block.                   *)
AdvanceCounter(d, b) ==
    /\ b_state' = [b_state EXCEPT ![d] = "VOID"]
    /\ b_pre_prepare' = [b_pre_prepare EXCEPT ![d] = NoBlock]
    /\ b_post_prepare' = [b_post_prepare EXCEPT ![d] = {}]
    /\ b_prev' = [b_prev EXCEPT ![d] = b.hash]
    /\ b_sequence' = [b_sequence EXCEPT ![d] = b.sequence + 1]
    /\ msgs' = msgs \cup {PostCommittedBlock(b)}

(* ProceedWithMessage and Validate of a PostCommit *)
AcceptsPostCommit(d, m) ==
    /\ b_state[d] = "COMMIT"
    /\ m.hash = b_pre_prepare[d].hash
    /\ m.post_prepare = b_post_prepare[d]
    /\ ReachedQuorum(m.signers)

(* A PostCommit is taken only in COMMIT, for the post-prepare committed    *)
(* to; the block goes to the cache.                                        *)
OnPostCommit(d, m) ==
    /\ m.type = "PostCommit"
    /\ AcceptsPostCommit(d, m)
    /\ AdvanceCounter(d, b_pre_prepare[d])
    /\ UNCHANGED <<built, primaryVars, storeVars, restarts>>

(* Mutant of FollowsBlock: any post-committed block moves the backup on.   *)
MutantFollowsBlock(d, b) == b.sequence >= b_sequence[d]

(* The block of the session, or the next block of the chain *)
FollowsBlock(d, b) ==
    \/ b.hash = b_pre_prepare[d].hash
    \/ b.previous = b_prev[d]

(* A post-committed block heard over p2p moves the backup on even if it    *)
(* has not seen the PrePrepare.                                            *)
OnPostCommittedBlock(d, m) ==
    /\ m.type = "PostCommittedBlock"
    /\ FollowsBlock(d, m.block)
    /\ AdvanceCounter(d, m.block)
    /\ UNCHANGED <<built, primaryVars, storeVars, restarts>>

-----------------------------------------------------------------------------
(* Storage and restarts *)

(* Mutant of ExtendsTip: blocks are written as they come.                  *)
MutantExtendsTip(d, b) == b.sequence >= tip[d].sequence

(* A block leaves the block cache for the database when its predecessor is *)
(* the stored tip.                                                         *)
ExtendsTip(d, b) == b.previous = tip[d].hash

(* A post-committed block, kept in the block cache, is written with the    *)
(* new tip in one transaction.                                             *)
WriteBlock(d, m) ==
    /\ m.type = "PostCommittedBlock"
    /\ ExtendsTip(d, m.block)
    /\ stored' = [stored EXCEPT ![d] = @ \cup {m.block}]
    /\ tip' = [tip EXCEPT ![d] = m.block]
    /\ UNCHANGED <<built, msgs, primaryVars, backupVars, restarts>>

(* The sequence number after the tip, as both constructors compute it      *)
NextSequence(b) == IF b = NoBlock THEN 0 ELSE b.sequence + 1

(* A delegate restarts.  Sessions, votes and timers are gone;              *)
(* the constructors of RequestConsensusManager and RequestBackupDelegate   *)
(* read the tip.                                                           *)
Restart(d) ==
    /\ restarts < MaxRestarts
    /\ restarts' = restarts + 1
    /\ \/ /\ d = Primary
          /\ state' = "INITIALIZING"
          /\ init_timer' = "pending"
          /\ batch' = NoBlock
          /\ signatures' = {}
          /\ post_prepare' = {}
          /\ repropose_subset' = FALSE
          /\ prev' = tip[d].hash
          /\ sequence' = NextSequence(tip[d])
          /\ UNCHANGED backupVars
       \/ /\ d \in Backups
          /\ b_state' = [b_state EXCEPT ![d] = "VOID"]
          /\ b_pre_prepare' = [b_pre_prepare EXCEPT ![d] = NoBlock]
          /\ b_post_prepare' = [b_post_prepare EXCEPT ![d] = {}]
          /\ b_prev' = [b_prev EXCEPT ![d] = tip[d].hash]
          /\ b_sequence' = [b_sequence EXCEPT ![d] = NextSequence(tip[d])]
          /\ UNCHANGED primaryVars
    /\ UNCHANGED <<built, msgs, stored, tip>>

PrimaryStep ==
    \/ StartConsensus
    \/ OnMessageQueued
    \/ OnTimeout
    \/ \E m \in msgs : OnPrepare(m)
    \/ \E m \in msgs : OnRejection(m)
    \/ \E m \in msgs : OnCommit(m)

BackupStep(d) ==
    \/ \E m \in msgs : OnPrePrepare(d, m)
    \/ \E m \in msgs : OnPostPrepare(d, m)
    \/ \E m \in msgs : OnPostCommit(d, m)
    \/ \E m \in msgs : OnPostCommittedBlock(d, m)

Next ==
    \/ PrimaryStep
    \/ \E d \in Backups : BackupStep(d)
    \/ \E d \in Stores, m \in msgs : WriteBlock(d, m)
    \/ \E d \in Crashable : Restart(d)

Spec == Init /\ [][Next]_vars

-----------------------------------------------------------------------------
(* Properties *)

(* Every variable has its type.                                            *)
TypeOK ==
    /\ built \in 0..MaxBatches
    /\ msgs \subseteq Message
    /\ state \in {"INITIALIZING", "VOID", "PRE_PREPARE", "POST_PREPARE", "POST_COMMIT"}
    /\ init_timer \in {"pending", "fired"}
    /\ batch \in Block \cup {NoBlock}
    /\ signatures \subseteq Backups
    /\ post_prepare \subseteq Delegates
    /\ prev \in Hash \cup {0}
    /\ sequence \in Nat
    /\ b_state \in [Backups -> {"VOID", "PREPARE", "COMMIT"}]
    /\ b_pre_prepare \in [Backups -> Block \cup {NoBlock}]
    /\ b_post_prepare \in [Backups -> SUBSET Delegates]
    /\ b_prev \in [Backups -> Hash \cup {0}]
    /\ b_sequence \in [Backups -> Nat]
    /\ stored \in [Stores -> SUBSET Block]
    /\ tip \in [Stores -> Block \cup {NoBlock}]
    /\ restarts \in 0..MaxRestarts
    /\ repropose_subset \in BOOLEAN

Proposed == {m.block : m \in Received("PrePrepare")}
Decided == {m.block : m \in Received("PostCommittedBlock")}

(* Agreement: at most one block is post-committed per sequence number of   *)
(* the chain, although the primary may time out, re-propose a different    *)
(* batch under the same sequence, or restart without remembering what it   *)
(* had proposed.                                                           *)
Agreement == \A a, b \in Decided : a.sequence = b.sequence => a = b

(* A backup that has kept its memory never signs a Commit for two blocks   *)
(* with the same sequence number: the COMMIT state is its lock.            *)
VotesOnce ==
    \A m, n \in Received("Commit"), a, b \in Proposed :
        /\ m.from = n.from
        /\ m.from \notin Crashable
        /\ a.hash = m.hash
        /\ b.hash = n.hash
        /\ a.sequence = b.sequence
        => a = b

(* A backup never meets the PostPrepare it has already seen in a state     *)
(* other than COMMIT, which would halt the node.                           *)
NoHaltOnPostPrepare ==
    \A d \in Backups, m \in Received("PostPrepare") :
        m.hash = b_pre_prepare[d].hash /\ m.signers = b_post_prepare[d]
            => b_state[d] = "COMMIT"

(* A backup's idea of the chain is one the delegates have decided: the     *)
(* block it builds on is post-committed and carries the number before the  *)
(* one it expects, across re-proposals, p2p blocks and restarts.           *)
BackupFollowsChain ==
    \A d \in Backups :
        IF b_sequence[d] = 0 THEN b_prev[d] = 0
        ELSE \E b \in Decided : b.hash = b_prev[d] /\ b.sequence = b_sequence[d] - 1

(* A database holds exactly one decided block for every sequence number up *)
(* to its tip, each linked to the one before.                              *)
StoredChain ==
    \A d \in Stores :
        /\ stored[d] \subseteq Decided
        /\ \A s \in 0..(NextSequence(tip[d]) - 1) : \E b \in stored[d] : b.sequence = s
        /\ \A b \in stored[d] :
              /\ b.sequence < NextSequence(tip[d])
              /\ b.previous = 0 <=> b.sequence = 0
              /\ \A c \in stored[d] : b.sequence + 1 = c.sequence => c.previous = b.hash

(* Without a restart a backup's expected sequence number moves forward one *)
(* block at a time, whichever of PostCommit and p2p block comes first and  *)
(* however often they come.                                                *)
CounterAdvances ==
    [][restarts' = restarts =>
        \A d \in Backups : b_sequence'[d] \in {b_sequence[d], b_sequence[d] + 1}]_vars

-----------------------------------------------------------------------------
(* The inductive invariant behind Agreement *)

(* A block with this previous hash and sequence extends the decided chain. *)
Linked(previous, seq) ==
    IF previous = 0 THEN seq = 0
    ELSE \E c \in Decided : c.hash = previous /\ c.sequence + 1 = seq

HashesUnique == \A a, b \in Proposed : a.hash = b.hash => a = b

ProposalsLinked == \A b \in Proposed : b.hash <= built /\ Linked(b.previous, b.sequence)

HasCommitted(d, h) == \E m \in Received("Commit") : m.from = d /\ m.hash = h

(* A decided block was proposed and committed to by a quorum.              *)
DecisionsCertified ==
    /\ \A b \in Decided :
          /\ b \in Proposed
          /\ \E Q \in SUBSET Delegates :
                /\ Primary \in Q
                /\ ReachedQuorum(Q)
                /\ \A d \in Q \ {Primary} : HasCommitted(d, b.hash)
    /\ \A m \in Received("PostCommit") : \E b \in Decided : b.hash = m.hash

PrimaryConsistent ==
    /\ Linked(prev, sequence)
    /\ state \in {"PRE_PREPARE", "POST_PREPARE"} =>
          batch \in Proposed /\ batch.sequence = sequence /\ batch.previous = prev
    /\ state = "POST_PREPARE" => \A d \in signatures : HasCommitted(d, batch.hash)
    /\ Primary \notin Crashable => \A b \in Decided : b.sequence < sequence

BackupConsistent(d) ==
    /\ Linked(b_prev[d], b_sequence[d])
    /\ b_state[d] = "VOID" => b_pre_prepare[d] = NoBlock
    /\ b_state[d] # "VOID" => b_pre_prepare[d] \in Proposed /\ b_pre_prepare[d].sequence = b_sequence[d]
    /\ b_state[d] # "COMMIT" => b_post_prepare[d] = {}

(* Having sent a Commit for b, a backup with its memory is locked on b or  *)
(* has moved past b's sequence number.                                     *)
LockedOrPast(d, b) ==
    \/ b.sequence < b_sequence[d]
    \/ b_state[d] = "COMMIT" /\ b_pre_prepare[d] = b

CommitsLocked ==
    \A m \in Received("Commit") :
        \E b \in Proposed :
            /\ b.hash = m.hash
            /\ m.from \notin Crashable => LockedOrPast(m.from, b)

PrimarySigned == \A m \in Received("PostPrepare") : Primary \in m.signers

StoresDecided ==
    \A d \in Stores :
        /\ stored[d] \subseteq Decided
        /\ tip[d] \in stored[d] \cup {NoBlock}

Inv ==
    /\ HashesUnique
    /\ ProposalsLinked
    /\ DecisionsCertified
    /\ PrimaryConsistent
    /\ \A d \in Backups : BackupConsistent(d)
    /\ CommitsLocked
    /\ VotesOnce
    /\ PrimarySigned
    /\ StoresDecided
    /\ Agreement
=============================================================================
