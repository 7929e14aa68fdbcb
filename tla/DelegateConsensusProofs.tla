---------------------- MODULE DelegateConsensusProofs -----------------------
(* Type correctness, agreement and the other safety properties of          *)
(* DelegateConsensus, for any set of delegates, any weights and any number *)
(* of batches and restarts: what each message adds to the sets of          *)
(* proposals, decisions and votes, then the inductive invariant, action by *)
(* action, of the primary and of the backups.                              *)
EXTENDS DelegateConsensus, TLAPS

(* The provers a leaf is tried with, and their time in seconds *)
USE SMTT(30), ZenonT(30)

(* A sequence number not past another is below its successor.              *)
LEMMA BelowNext ==
    ASSUME NEW i \in Nat, NEW j \in Nat
    PROVE  /\ i < j => i < j + 1
           /\ i = j => i < j + 1
  OBVIOUS

(* How each message changes the sets the invariant is stated with *)
Unmoved ==
    /\ Received("Commit")' = Received("Commit")
    /\ Received("PostCommit")' = Received("PostCommit")
    /\ Received("PostPrepare")' = Received("PostPrepare")

(* A PrePrepare adds its block to the proposals and nothing else. *)
LEMMA SendPrePrepare ==
    ASSUME NEW b, msgs' = msgs \cup {PrePrepare(b)}
    PROVE  /\ Proposed' = Proposed \cup {b}
           /\ Decided' = Decided
           /\ Unmoved
  <1>1. Received("PrePrepare")' = Received("PrePrepare") \cup {PrePrepare(b)}
    BY DEF Received, PrePrepare
  <1>2. Received("PostCommittedBlock")' = Received("PostCommittedBlock")
    BY DEF Received, PrePrepare
  <1>3. Unmoved
    BY DEF Received, PrePrepare, Unmoved
  <1>4. PrePrepare(b).block = b
    BY Zenon DEF PrePrepare
  <1>5. Proposed' = Proposed \cup {b}
    BY <1>1, <1>4 DEF Proposed
  <1> QED BY <1>2, <1>3, <1>5, Zenon DEF Decided

(* A Prepare or a Rejection adds nothing. *)
LEMMA SendAnswer ==
    ASSUME NEW h, NEW d,
           \/ msgs' = msgs \cup {Prepare(h, d)}
           \/ msgs' = msgs \cup {Rejection(h, d)}
    PROVE  /\ Proposed' = Proposed
           /\ Decided' = Decided
           /\ Unmoved
  BY DEF Received, Prepare, Rejection, Unmoved, Proposed, Decided

(* A PostPrepare adds only itself. *)
LEMMA SendPostPrepare ==
    ASSUME NEW h, NEW S, msgs' = msgs \cup {PostPrepare(h, S)}
    PROVE  /\ Proposed' = Proposed
           /\ Decided' = Decided
           /\ Received("Commit")' = Received("Commit")
           /\ Received("PostCommit")' = Received("PostCommit")
           /\ Received("PostPrepare")' = Received("PostPrepare") \cup {PostPrepare(h, S)}
  BY DEF Received, PostPrepare, Proposed, Decided

(* A Commit adds only itself. *)
LEMMA SendCommit ==
    ASSUME NEW h, NEW S, NEW d, msgs' = msgs \cup {Commit(h, S, d)}
    PROVE  /\ Proposed' = Proposed
           /\ Decided' = Decided
           /\ Received("Commit")' = Received("Commit") \cup {Commit(h, S, d)}
           /\ Received("PostCommit")' = Received("PostCommit")
           /\ Received("PostPrepare")' = Received("PostPrepare")
  BY DEF Received, Commit, Proposed, Decided

(* A post-committed block is added to the decided blocks. *)
LEMMA SendBlock ==
    ASSUME NEW b, msgs' = msgs \cup {PostCommittedBlock(b)}
    PROVE  /\ Proposed' = Proposed
           /\ Decided' = Decided \cup {b}
           /\ Unmoved
  <1>1. Received("PostCommittedBlock")' = Received("PostCommittedBlock") \cup {PostCommittedBlock(b)}
    BY DEF Received, PostCommittedBlock
  <1>2. Received("PrePrepare")' = Received("PrePrepare")
    BY DEF Received, PostCommittedBlock
  <1>3. Unmoved
    BY DEF Received, PostCommittedBlock, Unmoved
  <1>4. PostCommittedBlock(b).block = b
    BY Zenon DEF PostCommittedBlock
  <1>5. Decided' = Decided \cup {b}
    BY <1>1, <1>4 DEF Decided
  <1> QED BY <1>2, <1>3, <1>5, Zenon DEF Proposed

(* The primary's decision sends the PostCommit with the block. *)
LEMMA SendDecision ==
    ASSUME NEW b, NEW h, NEW S, NEW T,
           msgs' = msgs \cup {PostCommit(h, S, T), PostCommittedBlock(b)}
    PROVE  /\ Proposed' = Proposed
           /\ Decided' = Decided \cup {b}
           /\ Received("Commit")' = Received("Commit")
           /\ Received("PostCommit")' = Received("PostCommit") \cup {PostCommit(h, S, T)}
           /\ Received("PostPrepare")' = Received("PostPrepare")
  <1>1. Received("PostCommittedBlock")' = Received("PostCommittedBlock") \cup {PostCommittedBlock(b)}
    BY DEF Received, PostCommittedBlock, PostCommit
  <1>2. Received("PrePrepare")' = Received("PrePrepare")
    BY DEF Received, PostCommittedBlock, PostCommit
  <1>3. /\ Received("Commit")' = Received("Commit")
        /\ Received("PostCommit")' = Received("PostCommit") \cup {PostCommit(h, S, T)}
        /\ Received("PostPrepare")' = Received("PostPrepare")
    BY DEF Received, PostCommittedBlock, PostCommit
  <1>4. PostCommittedBlock(b).block = b
    BY Zenon DEF PostCommittedBlock
  <1>5. Decided' = Decided \cup {b}
    BY <1>1, <1>4 DEF Decided
  <1> QED BY <1>2, <1>3, <1>5, Zenon DEF Proposed

(* The same, with the PrePrepare of the next round *)
LEMMA SendDecisionAndNext ==
    ASSUME NEW b, NEW h, NEW S, NEW T, NEW n,
           msgs' = (msgs \cup {PostCommit(h, S, T), PostCommittedBlock(b)}) \cup {PrePrepare(n)}
    PROVE  /\ Proposed' = Proposed \cup {n}
           /\ Decided' = Decided \cup {b}
           /\ Received("Commit")' = Received("Commit")
           /\ Received("PostCommit")' = Received("PostCommit") \cup {PostCommit(h, S, T)}
           /\ Received("PostPrepare")' = Received("PostPrepare")
  <1>1. Received("PostCommittedBlock")' = Received("PostCommittedBlock") \cup {PostCommittedBlock(b)}
    BY DEF Received, PostCommittedBlock, PostCommit, PrePrepare
  <1>2. Received("PrePrepare")' = Received("PrePrepare") \cup {PrePrepare(n)}
    BY DEF Received, PostCommittedBlock, PostCommit, PrePrepare
  <1>3. /\ Received("Commit")' = Received("Commit")
        /\ Received("PostCommit")' = Received("PostCommit") \cup {PostCommit(h, S, T)}
        /\ Received("PostPrepare")' = Received("PostPrepare")
    BY DEF Received, PostCommittedBlock, PostCommit, PrePrepare
  <1>4. PostCommittedBlock(b).block = b /\ PrePrepare(n).block = n
    BY Zenon DEF PostCommittedBlock, PrePrepare
  <1>5. Decided' = Decided \cup {b} /\ Proposed' = Proposed \cup {n}
    BY <1>1, <1>2, <1>4, Zenon DEF Decided, Proposed
  <1> QED BY <1>3, <1>5, Zenon

(* Nothing sent, nothing changed *)
LEMMA SendNothing ==
    ASSUME msgs' = msgs
    PROVE  /\ Proposed' = Proposed
           /\ Decided' = Decided
           /\ Unmoved
  BY Zenon DEF Received, Unmoved, Proposed, Decided

-----------------------------------------------------------------------------
(* Type correctness *)

(* The types of all variables but the flag, which the provers treat apart *)
TypeButFlag ==
    /\ built \in 0..MaxBatches
    /\ msgs \subseteq Message
    /\ state \in {"INITIALIZING", "VOID", "PRE_PREPARE", "POST_PREPARE", "POST_COMMIT"}
    /\ init_timer \in {"pending", "fired"}
    /\ batch \in Block \cup {NoBlock}
    /\ signatures \subseteq Backups
    /\ post_prepare \subseteq Delegates
    /\ prev \in Hash \cup {0}
    /\ sequence \in Nat
    /\ b_state \in [Backups -> {"VOID", "PREPARE", "COMMIT"}]
    /\ b_pre_prepare \in [Backups -> Block \cup {NoBlock}]
    /\ b_post_prepare \in [Backups -> SUBSET Delegates]
    /\ b_prev \in [Backups -> Hash \cup {0}]
    /\ b_sequence \in [Backups -> Nat]
    /\ stored \in [Stores -> SUBSET Block]
    /\ tip \in [Stores -> Block \cup {NoBlock}]
    /\ restarts \in 0..MaxRestarts

(* What a received message carries *)
LEMMA MessageFields ==
    ASSUME TypeButFlag, NEW m \in msgs
    PROVE  /\ m.type \in {"PrePrepare", "PostCommittedBlock"} => m.block \in Block
           /\ m.type \in {"Prepare", "Rejection", "Commit"} => m.hash \in Hash /\ m.from \in Backups
           /\ m.type \in {"PostPrepare", "PostCommit"} => m.hash \in Hash /\ m.signers \subseteq Delegates
           /\ m.type \in {"Commit", "PostCommit"} => m.post_prepare \subseteq Delegates
  BY Zenon DEF TypeButFlag, Message

(* The messages the delegates build are messages. *)
LEMMA MessageTypes ==
    /\ \A b \in Block : PrePrepare(b) \in Message /\ PostCommittedBlock(b) \in Message
    /\ \A h \in Hash, d \in Backups : Prepare(h, d) \in Message /\ Rejection(h, d) \in Message
    /\ \A h \in Hash, S \in SUBSET Delegates : PostPrepare(h, S) \in Message
    /\ \A h \in Hash, S \in SUBSET Delegates, d \in Backups : Commit(h, S, d) \in Message
    /\ \A h \in Hash, S, T \in SUBSET Delegates : PostCommit(h, S, T) \in Message
  BY Zenon DEF Message, PrePrepare, PostCommittedBlock, Prepare, Rejection, PostPrepare, Commit, PostCommit

(* A batch is a block while there is a session. *)
Session == state \in {"PRE_PREPARE", "POST_PREPARE"} => batch \in Block

(* InitiateConsensus proposes a block. *)
LEMMA InitiateTyped ==
    ASSUME TypeButFlag, NEW seq \in Nat, NEW previous \in Hash \cup {0},
           NEW sent \in SUBSET Message, InitiateConsensus(seq, previous, sent)
    PROVE  /\ built' \in 0..MaxBatches
           /\ msgs' \subseteq Message
           /\ state' = "PRE_PREPARE"
           /\ batch' \in Block
           /\ signatures' = {}
           /\ post_prepare' = {}
  <1> USE DEF ConstructBatch, AdvanceState
  <1> DEFINE next == [hash |-> built + 1, sequence |-> seq, previous |-> previous]
  <1>1. built + 1 \in Hash
    BY DelegatesAssumption DEF TypeButFlag, InitiateConsensus, Hash
  <1>2. next \in Block
    BY <1>1, Zenon DEF Block
  <1>3. PrePrepare(next) \in Message
    BY <1>2, MessageTypes, Zenon
  <1>4. batch' = next /\ msgs' = (msgs \cup sent) \cup {PrePrepare(next)}
    BY Zenon DEF InitiateConsensus
  <1>5. built' \in 0..MaxBatches
    BY DelegatesAssumption DEF TypeButFlag, InitiateConsensus
  <1> QED BY <1>2, <1>3, <1>4, <1>5, Zenon DEF TypeButFlag, InitiateConsensus

(* A hash of a message is the hash of a block. *)
LEMMA HashIsBlocks ==
    ASSUME NEW b \in Block \cup {NoBlock}, b.hash \in Hash
    PROVE  b \in Block
  BY DEF NoBlock, Hash

(* Each step of the primary keeps the types. *)
LEMMA PrimaryTyped ==
    ASSUME TypeButFlag, Session, PrimaryStep
    PROVE  TypeButFlag' /\ Session'
  <1> USE DEF AdvanceState, ProceedWithMessage, Tally
  <1> USE DelegatesAssumption
  <1> {} \in SUBSET Message
    BY Zenon
  <1>1. CASE StartConsensus
    <2>1. InitiateConsensus(sequence, prev, {})
      BY <1>1, Zenon DEF StartConsensus
    <2> QED BY <1>1, <2>1, InitiateTyped, Zenon DEF StartConsensus, TypeButFlag, Session, backupVars, storeVars
  <1>2. CASE OnMessageQueued
    <2>1. InitiateConsensus(sequence, prev, {})
      BY <1>2, Zenon DEF OnMessageQueued
    <2> QED BY <1>2, <2>1, InitiateTyped, Zenon DEF OnMessageQueued, TypeButFlag, Session, backupVars, storeVars
  <1>3. CASE OnTimeout
    <2>1. CASE InitiateConsensus(sequence, prev, {})
      BY <1>3, <2>1, InitiateTyped, Zenon DEF OnTimeout, TypeButFlag, Session, backupVars, storeVars
    <2>2. CASE /\ state' = "PRE_PREPARE"
               /\ signatures' = {}
               /\ post_prepare' = {}
               /\ msgs' = msgs \cup {PrePrepare(batch)}
               /\ UNCHANGED <<built, batch, repropose_subset>>
      <3>1. batch \in Block
        BY <1>3, Zenon DEF OnTimeout, Session
      <3> QED BY <1>3, <2>2, <3>1, MessageTypes, Zenon DEF OnTimeout, TypeButFlag, Session, backupVars, storeVars
    <2> QED BY <1>3, <2>1, <2>2, Zenon DEF OnTimeout
  <1>4. ASSUME NEW m \in msgs, OnPrepare(m)
        PROVE  TypeButFlag' /\ Session'
    <2> DEFINE signers == signatures \cup {m.from}
    <2>1. m.hash \in Hash /\ m.from \in Backups /\ m.hash = batch.hash
      BY <1>4, MessageFields, Zenon DEF OnPrepare
    <2>2. batch \in Block
      BY <2>1, HashIsBlocks, Zenon DEF TypeButFlag
    <2>3. signers \subseteq Backups /\ signers \cup {Primary} \subseteq Delegates
      BY <2>1, Zenon DEF TypeButFlag, Backups
    <2>4. PostPrepare(batch.hash, signers \cup {Primary}) \in Message
      BY <2>1, <2>3, MessageTypes, Zenon
    <2>5. CASE OnPrePrepareRejected
      BY <1>4, <2>5, InitiateTyped, Zenon DEF OnPrepare, OnPrePrepareRejected, TypeButFlag, Session, backupVars, storeVars
    <2>6. CASE ~OnPrePrepareRejected
      BY <1>4, <2>6, <2>2, <2>3, <2>4, Zenon DEF OnPrepare, TypeButFlag, Session, backupVars, storeVars
    <2> QED BY <2>5, <2>6, Zenon
  <1>5. ASSUME NEW m \in msgs, OnRejection(m)
        PROVE  TypeButFlag' /\ Session'
    <2>1. CASE OnPrePrepareRejected
      BY <1>5, <2>1, InitiateTyped, Zenon DEF OnRejection, OnPrePrepareRejected, TypeButFlag, Session, backupVars, storeVars
    <2>2. CASE ~OnPrePrepareRejected
      BY <1>5, <2>2, Zenon DEF OnRejection, TypeButFlag, Session, backupVars, storeVars
    <2> QED BY <2>1, <2>2
  <1>6. ASSUME NEW m \in msgs, OnCommit(m)
        PROVE  TypeButFlag' /\ Session'
    <2> DEFINE signers == signatures \cup {m.from}
               sent == {PostCommit(batch.hash, post_prepare, signers \cup {Primary}), PostCommittedBlock(batch)}
    <2>1. m.hash \in Hash /\ m.from \in Backups /\ m.hash = batch.hash
      BY <1>6, MessageFields, Zenon DEF OnCommit
    <2>2. batch \in Block
      BY <2>1, HashIsBlocks DEF TypeButFlag
    <2>3. signers \subseteq Backups /\ signers \cup {Primary} \subseteq Delegates
      BY <2>1 DEF TypeButFlag, Backups
    <2>4. sent \in SUBSET Message
      BY <2>1, <2>2, <2>3, MessageTypes DEF TypeButFlag
    <2>5. CASE InitiateConsensus(sequence + 1, batch.hash, sent)
      <3>1. sequence + 1 \in Nat /\ batch.hash \in Hash \cup {0}
        BY <2>1 DEF TypeButFlag
      <3>2. /\ built' \in 0..MaxBatches
            /\ msgs' \subseteq Message
            /\ state' = "PRE_PREPARE"
            /\ batch' \in Block
            /\ signatures' = {}
            /\ post_prepare' = {}
        BY <2>4, <2>5, <3>1, InitiateTyped, Zenon
      <3>3. (sequence' = sequence \/ sequence' = sequence + 1) /\ (prev' = prev \/ prev' = batch.hash)
        BY <1>6, Zenon DEF OnCommit
      <3> QED BY <1>6, <3>1, <3>2, <3>3, Zenon DEF OnCommit, TypeButFlag, Session, backupVars, storeVars
    <2>6. CASE ~ReachedQuorum(signers \cup {Primary})
      BY <1>6, <2>6, <2>2, <2>3, Zenon DEF OnCommit, TypeButFlag, Session, backupVars, storeVars
    <2>7. CASE /\ ReachedQuorum(signers \cup {Primary})
               /\ ~InitiateConsensus(sequence + 1, batch.hash, sent)
      <3>1. /\ state' = "POST_COMMIT"
            /\ batch' = NoBlock
            /\ signatures' = {}
            /\ post_prepare' = {}
            /\ msgs' = msgs \cup sent
            /\ built' = built
            /\ sequence' = sequence + 1
            /\ prev' = batch.hash
        BY <1>6, <2>7, Zenon DEF OnCommit
      <3>2. sequence' \in Nat /\ prev' \in Hash \cup {0}
        BY <3>1, <2>1 DEF TypeButFlag
      <3> HIDE DEF sent
      <3> QED BY <1>6, <2>4, <3>1, <3>2, Zenon DEF OnCommit, TypeButFlag, Session, backupVars, storeVars
    <2> QED BY <2>5, <2>6, <2>7, Zenon
  <1> QED BY <1>1, <1>2, <1>3, <1>4, <1>5, <1>6, Zenon DEF PrimaryStep

(* Each step of a backup keeps the types. *)
LEMMA BackupTyped ==
    ASSUME TypeButFlag, Session, NEW d \in Backups, BackupStep(d)
    PROVE  TypeButFlag' /\ Session'
  <1> USE DelegatesAssumption
  <1> b_pre_prepare[d] \in Block \cup {NoBlock}
    BY Zenon DEF TypeButFlag
  <1>1. ASSUME NEW m \in msgs, OnPrePrepare(d, m)
        PROVE  TypeButFlag' /\ Session'
    <2>1. m.block \in Block
      BY <1>1, MessageFields, Zenon DEF OnPrePrepare
    <2>2. m.block.hash \in Hash
      BY <2>1, Zenon DEF Block
    <2>3. Prepare(m.block.hash, d) \in Message /\ Rejection(m.block.hash, d) \in Message
      BY <2>2, MessageTypes, Zenon
    <2> QED BY <1>1, <2>1, <2>3, Zenon DEF OnPrePrepare, TypeButFlag, Session, primaryVars, storeVars
  <1>2. ASSUME NEW m \in msgs, OnPostPrepare(d, m)
        PROVE  TypeButFlag' /\ Session'
    <2>1. m.hash \in Hash /\ m.signers \in SUBSET Delegates /\ b_pre_prepare[d].hash = m.hash
      BY <1>2, MessageFields, Zenon DEF OnPostPrepare, AcceptsPostPrepare
    <2>2. Commit(b_pre_prepare[d].hash, m.signers, d) \in Message
      BY <2>1, MessageTypes, Zenon
    <2> QED BY <1>2, <2>1, <2>2, Zenon DEF OnPostPrepare, TypeButFlag, Session, primaryVars, storeVars
  <1>3. ASSUME NEW b \in Block, AdvanceCounter(d, b), UNCHANGED <<built, primaryVars, storeVars, restarts>>
        PROVE  TypeButFlag' /\ Session'
    <2>1. PostCommittedBlock(b) \in Message
      BY MessageTypes, Zenon
    <2>2. b.hash \in Hash \cup {0} /\ b.sequence + 1 \in Nat
      BY DEF Block
    <2> QED BY <1>3, <2>1, <2>2, Zenon DEF AdvanceCounter, TypeButFlag, Session, primaryVars, storeVars
  <1>4. ASSUME NEW m \in msgs, OnPostCommit(d, m)
        PROVE  TypeButFlag' /\ Session'
    <2>1. b_pre_prepare[d] \in Block
      BY <1>4, MessageFields, HashIsBlocks, Zenon DEF OnPostCommit, AcceptsPostCommit
    <2> QED BY <1>3, <1>4, <2>1, Zenon DEF OnPostCommit
  <1>5. ASSUME NEW m \in msgs, OnPostCommittedBlock(d, m)
        PROVE  TypeButFlag' /\ Session'
    <2>1. m.block \in Block
      BY <1>5, MessageFields, Zenon DEF OnPostCommittedBlock
    <2> QED BY <1>3, <1>5, <2>1, Zenon DEF OnPostCommittedBlock
  <1> QED BY <1>1, <1>2, <1>4, <1>5, Zenon DEF BackupStep

(* Writing a block and restarting keep the types. *)
LEMMA StoreTyped ==
    ASSUME TypeButFlag, Session,
           \/ \E d \in Stores, m \in msgs : WriteBlock(d, m)
           \/ \E d \in Crashable : Restart(d)
    PROVE  TypeButFlag' /\ Session'
  <1> USE DelegatesAssumption
  <1>1. ASSUME NEW d \in Stores, NEW m \in msgs, WriteBlock(d, m)
        PROVE  TypeButFlag' /\ Session'
    <2>1. m.block \in Block
      BY <1>1, MessageFields, Zenon DEF WriteBlock
    <2> QED BY <1>1, <2>1, Zenon DEF WriteBlock, TypeButFlag, Session, primaryVars, backupVars
  <1>2. ASSUME NEW d \in Crashable, Restart(d)
        PROVE  TypeButFlag' /\ Session'
    <2>1. tip[d] \in Block \cup {NoBlock}
      BY Zenon DEF TypeButFlag
    <2>2. tip[d].hash \in Hash \cup {0} /\ NextSequence(tip[d]) \in Nat
      BY <2>1 DEF Block, NoBlock, NextSequence
    <2>3. restarts' \in 0..MaxRestarts
      BY <1>2 DEF Restart, TypeButFlag
    <2> QED BY <1>2, <2>2, <2>3 DEF Restart, TypeButFlag, Session, primaryVars, backupVars
  <1> QED BY <1>1, <1>2, Zenon

(* The flag is only ever set to TRUE, FALSE or what it was. *)
LEMMA FlagTyped ==
    ASSUME repropose_subset \in BOOLEAN, [Next]_vars
    PROVE  repropose_subset' \in BOOLEAN
  <1>1. \/ repropose_subset' = repropose_subset
        \/ repropose_subset' = TRUE
        \/ repropose_subset' = FALSE
    BY Zenon DEF Next, PrimaryStep, BackupStep, StartConsensus, OnMessageQueued, OnTimeout, OnPrepare,
           OnRejection, OnCommit, OnPrePrepareRejected, InitiateConsensus, OnPrePrepare, OnPostPrepare,
           OnPostCommit, OnPostCommittedBlock, WriteBlock, Restart, primaryVars, vars
  <1> QED BY <1>1, Zenon

(* Every reachable state of the consensus is well typed.  The hard part is *)
(* that a re-proposal after a timeout always has a batch to send again.    *)
THEOREM ConsensusTypeCorrect == Spec => []TypeOK
  <1> DEFINE T == TypeButFlag /\ Session
             F == repropose_subset \in BOOLEAN
  <1>1. Init => T
    BY DelegatesAssumption DEF Init, TypeButFlag, Session, NoBlock
  <1>2. Init => F
    BY Zenon DEF Init
  <1>3. T /\ [Next]_vars => T'
    <2>1. T /\ UNCHANGED vars => T'
      BY Zenon DEF TypeButFlag, Session, vars, primaryVars, backupVars, storeVars
    <2> QED BY <2>1, PrimaryTyped, BackupTyped, StoreTyped, Zenon DEF Next
  <1>4. F /\ [Next]_vars => F'
    BY FlagTyped, Zenon
  <1>5. T /\ F => TypeOK
    BY Zenon DEF TypeOK, TypeButFlag
  <1> QED BY <1>1, <1>2, <1>3, <1>4, <1>5, PTL DEF Spec

-----------------------------------------------------------------------------
(* Any two quorums that contain the primary share a delegate that keeps    *)
(* its memory.                                                             *)
QuorumOverlap ==
    \A Q, R \in SUBSET Delegates :
        /\ Primary \in Q /\ ReachedQuorum(Q)
        /\ Primary \in R /\ ReachedQuorum(R)
        => \E d \in Q \cap R : d \notin Crashable

Typed == TypeButFlag /\ Session

(* What the sets of messages hold *)
LEMMA SetTypes ==
    ASSUME Typed
    PROVE  /\ Proposed \subseteq Block
           /\ Decided \subseteq Block
           /\ \A m \in Received("Commit") : m.hash \in Hash /\ m.from \in Backups
  BY MessageFields, Zenon DEF Typed, Proposed, Decided, Received

(* Each part of the invariant holds on if what it speaks of stays.         *)
LEMMA KeepProposals ==
    ASSUME HashesUnique, ProposalsLinked, Proposed' = Proposed, Decided' = Decided, built' = built
    PROVE  HashesUnique' /\ ProposalsLinked'
  <1>1. HashesUnique'
    BY Zenon DEF HashesUnique
  <1>2. ProposalsLinked'
    BY Zenon DEF ProposalsLinked, Linked
  <1> QED BY <1>1, <1>2, Zenon

(* A decision stays certified when proposals and Commits are only added.   *)
LEMMA KeepDecisions ==
    ASSUME DecisionsCertified, Proposed \subseteq Proposed', Decided' = Decided,
           Received("Commit") \subseteq Received("Commit")',
           Received("PostCommit")' = Received("PostCommit")
    PROVE  DecisionsCertified'
  <1>1. \A d, h : HasCommitted(d, h) => HasCommitted(d, h)'
    BY Zenon DEF HasCommitted
  <1> QED BY <1>1, Zenon DEF DecisionsCertified

(* The primary stays consistent while it and the messages it counts stay.  *)
LEMMA KeepPrimary ==
    ASSUME PrimaryConsistent, Proposed' = Proposed, Decided' = Decided,
           Received("Commit")' = Received("Commit"),
           UNCHANGED <<state, batch, signatures, prev, sequence>>
    PROVE  PrimaryConsistent'
  BY DEF PrimaryConsistent, HasCommitted, Linked

(* A backup stays consistent while it, the proposals and decisions stay.   *)
LEMMA KeepBackup ==
    ASSUME NEW d \in Backups, BackupConsistent(d), Proposed' = Proposed, Decided' = Decided,
           b_state'[d] = b_state[d], b_pre_prepare'[d] = b_pre_prepare[d],
           b_post_prepare'[d] = b_post_prepare[d], b_prev'[d] = b_prev[d],
           b_sequence'[d] = b_sequence[d]
    PROVE  BackupConsistent(d)'
  BY Zenon DEF BackupConsistent, Linked

(* The same for all of them at once.                                       *)
LEMMA KeepBackups ==
    ASSUME \A d \in Backups : BackupConsistent(d), Proposed' = Proposed, Decided' = Decided,
           UNCHANGED backupVars
    PROVE  (\A d \in Backups : BackupConsistent(d))'
  BY Zenon DEF BackupConsistent, Linked, backupVars

(* Commits stay locked while the backups and the Commits stay.             *)
LEMMA KeepCommits ==
    ASSUME CommitsLocked, Proposed' = Proposed, Received("Commit")' = Received("Commit"),
           UNCHANGED backupVars
    PROVE  CommitsLocked'
  BY Zenon DEF CommitsLocked, LockedOrPast, backupVars

(* Votes stay unique while proposals and Commits stay.                     *)
LEMMA KeepVotes ==
    ASSUME VotesOnce, Proposed' = Proposed, Received("Commit")' = Received("Commit")
    PROVE  VotesOnce'
  BY DEF VotesOnce

(* The primary has signed each PostPrepare while none is added.            *)
LEMMA KeepSigned ==
    ASSUME PrimarySigned, Received("PostPrepare")' = Received("PostPrepare")
    PROVE  PrimarySigned'
  BY Zenon DEF PrimarySigned

(* Databases hold decided blocks while neither changes.                    *)
LEMMA KeepStores ==
    ASSUME StoresDecided, Decided' = Decided, UNCHANGED storeVars
    PROVE  StoresDecided'
  BY Zenon DEF StoresDecided, storeVars

(* Agreement holds on while nothing is decided.                            *)
LEMMA KeepAgreement ==
    ASSUME Agreement, Decided' = Decided
    PROVE  Agreement'
  BY Zenon DEF Agreement

(* The primary proposes a new batch under its current sequence number. *)
LEMMA NewBatchKeepsInv ==
    ASSUME Typed, Inv, InitiateConsensus(sequence, prev, {}),
           UNCHANGED <<prev, sequence, backupVars, storeVars>>
    PROVE  Inv'
  <1> DEFINE next == [hash |-> built + 1, sequence |-> sequence, previous |-> prev]
  <1>1. /\ batch' = next
        /\ built' = built + 1
        /\ state' = "PRE_PREPARE"
        /\ msgs' = msgs \cup {PrePrepare(next)}
    BY Zenon DEF InitiateConsensus, ConstructBatch, AdvanceState
  <1>2. Proposed' = Proposed \cup {next} /\ Decided' = Decided /\ Unmoved
    BY <1>1, SendPrePrepare, Zenon
  <1>3. next.hash = built + 1 /\ next.sequence = sequence /\ next.previous = prev
    BY Zenon
  <1>4. \A b \in Proposed : b.hash \in Nat /\ b.hash <= built /\ b.hash # next.hash
    BY <1>3, SetTypes DEF Inv, ProposalsLinked, Typed, TypeButFlag, Block, Hash
  <1>5. built \in Nat /\ sequence \in Nat
    BY DelegatesAssumption DEF Typed, TypeButFlag
  <1> HIDE DEF next
  <1>6. HashesUnique'
    BY <1>2, <1>4, Zenon DEF Inv, HashesUnique
  <1>7. ProposalsLinked'
    BY <1>1, <1>2, <1>3, <1>4, <1>5 DEF Inv, ProposalsLinked, Linked, PrimaryConsistent
  <1>8. DecisionsCertified'
    BY <1>2, KeepDecisions, Zenon DEF Inv, Unmoved
  <1>9. PrimaryConsistent'
    <2>1. PrimaryConsistent
      BY Zenon DEF Inv
    <2> QED BY <1>1, <1>2, <1>3, <2>1, Zenon DEF PrimaryConsistent, Linked
  <1>10. (\A d \in Backups : BackupConsistent(d))'
    <2>1. \A d \in Backups : BackupConsistent(d)
      BY Zenon DEF Inv
    <2> QED BY <1>2, <2>1, Zenon DEF BackupConsistent, Linked, backupVars
  <1>11. CommitsLocked'
    <2>1. CommitsLocked
      BY Zenon DEF Inv
    <2> QED BY <1>2, <2>1, Zenon DEF CommitsLocked, LockedOrPast, backupVars, Unmoved
  <1>12. VotesOnce'
    <2>1. \A m \in Received("Commit") : \A b \in Proposed' : b.hash = m.hash => b \in Proposed
      BY <1>2, <1>4, Zenon DEF Inv, CommitsLocked
    <2>2. VotesOnce
      BY Zenon DEF Inv
    <2> QED BY <1>2, <2>1, <2>2 DEF VotesOnce, Unmoved
  <1>13. PrimarySigned' /\ StoresDecided' /\ Agreement'
    BY <1>2, KeepSigned, KeepStores, KeepAgreement, Zenon DEF Inv, Unmoved
  <1> QED BY <1>6, <1>7, <1>8, <1>9, <1>10, <1>11, <1>12, <1>13, Zenon DEF Inv

(* Steps that decide nothing, propose nothing and leave backups and        *)
(* databases alone keep what does not concern the primary.                 *)
LEMMA QuietKeepsInv ==
    ASSUME Typed, Inv,
           Proposed' = Proposed, Decided' = Decided,
           Received("Commit")' = Received("Commit"),
           Received("PostCommit")' = Received("PostCommit"),
           PrimarySigned', PrimaryConsistent',
           UNCHANGED <<built, backupVars, storeVars>>
    PROVE  Inv'
  BY KeepProposals, KeepDecisions, KeepBackups, KeepCommits, KeepVotes, KeepStores, KeepAgreement, Zenon DEF Inv

(* A timeout proposes the same batch again, or a new one.                  *)
LEMMA TimeoutKeepsInv ==
    ASSUME Typed, Inv, OnTimeout
    PROVE  Inv'
  <1>1. CASE InitiateConsensus(sequence, prev, {})
    BY <1>1, NewBatchKeepsInv, Zenon DEF OnTimeout
  <1>2. CASE ~InitiateConsensus(sequence, prev, {})
    <2>1. /\ state' = "PRE_PREPARE"
          /\ msgs' = msgs \cup {PrePrepare(batch)}
          /\ UNCHANGED <<built, batch, prev, sequence, backupVars, storeVars>>
      BY <1>2, Zenon DEF OnTimeout, AdvanceState
    <2>2. batch \in Proposed
      BY Zenon DEF OnTimeout, Inv, PrimaryConsistent
    <2>3. Proposed' = Proposed /\ Decided' = Decided /\ Unmoved
      BY <2>1, <2>2, SendPrePrepare
    <2>4. PrimaryConsistent'
      <3>1. PrimaryConsistent /\ state \in {"PRE_PREPARE", "POST_PREPARE"}
        BY Zenon DEF OnTimeout, Inv
      <3> QED BY <2>1, <2>3, <3>1, Zenon DEF PrimaryConsistent, Linked
    <2>5. PrimarySigned'
      BY <2>3, KeepSigned, Zenon DEF Inv, Unmoved
    <2> QED BY <2>1, <2>3, <2>4, <2>5, QuietKeepsInv, Zenon DEF Unmoved
  <1> QED BY <1>1, <1>2, Zenon

(* A Prepare is counted, completes the quorum, or settles the rejection.   *)
LEMMA PrepareKeepsInv ==
    ASSUME Typed, Inv, NEW m \in msgs, OnPrepare(m)
    PROVE  Inv'
  <1> DEFINE signers == signatures \cup {m.from}
  <1>1. CASE OnPrePrepareRejected
    BY <1>1, NewBatchKeepsInv, Zenon DEF OnPrepare, OnPrePrepareRejected
  <1>2. CASE /\ state' = "POST_PREPARE"
             /\ signatures' = {}
             /\ msgs' = msgs \cup {PostPrepare(batch.hash, signers \cup {Primary})}
             /\ UNCHANGED <<built, init_timer, batch, repropose_subset, prev, sequence>>
    <2>1. /\ Proposed' = Proposed
          /\ Decided' = Decided
          /\ Received("Commit")' = Received("Commit")
          /\ Received("PostCommit")' = Received("PostCommit")
          /\ Received("PostPrepare")' = Received("PostPrepare") \cup {PostPrepare(batch.hash, signers \cup {Primary})}
      BY <1>2, SendPostPrepare, Zenon
    <2>2. PrimarySigned'
      <3>1. PrimarySigned
        BY Zenon DEF Inv
      <3> QED BY <2>1, <3>1 DEF PrimarySigned, PostPrepare
    <2>3. PrimaryConsistent'
      <3>1. PrimaryConsistent /\ state = "PRE_PREPARE"
        BY Zenon DEF OnPrepare, ProceedWithMessage, Inv
      <3> QED BY <1>2, <2>1, <3>1, Zenon DEF PrimaryConsistent, Linked
    <2> QED BY <1>2, <2>1, <2>2, <2>3, QuietKeepsInv, Zenon DEF OnPrepare
  <1>3. CASE UNCHANGED <<built, msgs, state, init_timer, batch, post_prepare, repropose_subset, prev, sequence>>
    <2>1. Proposed' = Proposed /\ Decided' = Decided /\ Unmoved
      BY <1>3, SendNothing, Zenon
    <2>2. PrimaryConsistent'
      <3>1. PrimaryConsistent /\ state = "PRE_PREPARE"
        BY DEF OnPrepare, ProceedWithMessage, Inv
      <3> QED BY <1>3, <2>1, <3>1, Zenon DEF PrimaryConsistent, Linked
    <2>3. PrimarySigned'
      BY <2>1, KeepSigned, Zenon DEF Inv, Unmoved
    <2> QED BY <1>3, <2>1, <2>2, <2>3, QuietKeepsInv, Zenon DEF OnPrepare, Unmoved
  <1> QED BY <1>1, <1>2, <1>3, Zenon DEF OnPrepare, Tally, AdvanceState

(* A rejection is remembered or settles the batch.                         *)
LEMMA RejectionKeepsInv ==
    ASSUME Typed, Inv, NEW m \in msgs, OnRejection(m)
    PROVE  Inv'
  <1>1. CASE OnPrePrepareRejected
    BY <1>1, NewBatchKeepsInv, Zenon DEF OnRejection, OnPrePrepareRejected
  <1>2. CASE UNCHANGED <<built, msgs, state, init_timer, batch, signatures, post_prepare, prev, sequence>>
    <2>1. Proposed' = Proposed /\ Decided' = Decided /\ Unmoved
      BY <1>2, SendNothing
    <2>2. PrimaryConsistent'
      BY <1>2, <2>1, KeepPrimary, Zenon DEF Inv, Unmoved
    <2>3. PrimarySigned'
      BY <2>1, KeepSigned DEF Inv, Unmoved
    <2> QED BY <1>2, <2>1, <2>2, <2>3, QuietKeepsInv, Zenon DEF OnRejection, Unmoved
  <1> QED BY <1>1, <1>2, Zenon DEF OnRejection

(* The heart of agreement: a quorum for the current batch meets the quorum *)
(* of an earlier decision in a delegate that remembers.  If that is the    *)
(* primary it is past the earlier decision; if it is a backup it has       *)
(* committed to one block only.                                            *)
LEMMA DecisionUnique ==
    ASSUME QuorumOverlap, Typed, Inv, state = "POST_PREPARE",
           NEW Q \in SUBSET Delegates, Primary \in Q, ReachedQuorum(Q),
           \A d \in Q \ {Primary} : HasCommitted(d, batch.hash),
           NEW a \in Decided, a.sequence = batch.sequence
    PROVE  a = batch
  <1>1. /\ batch \in Proposed
        /\ batch.sequence = sequence
        /\ a \in Proposed
    BY Zenon DEF Inv, PrimaryConsistent, DecisionsCertified
  <1>2. PICK R \in SUBSET Delegates : /\ Primary \in R
                                     /\ ReachedQuorum(R)
                                     /\ \A d \in R \ {Primary} : HasCommitted(d, a.hash)
    BY Zenon DEF Inv, DecisionsCertified
  <1>3. PICK d \in Q \cap R : d \notin Crashable
    BY <1>2, Zenon DEF QuorumOverlap
  <1>4. CASE d = Primary
    <2>1. a.sequence < sequence
      BY <1>3, <1>4, Zenon DEF Inv, PrimaryConsistent
    <2> QED BY <2>1, <1>1 DEF Typed, TypeButFlag
  <1>5. CASE d # Primary
    <2>1. HasCommitted(d, batch.hash) /\ HasCommitted(d, a.hash)
      BY <1>2, <1>3, <1>5, Zenon
    <2>2. PICK m \in Received("Commit") : m.from = d /\ m.hash = batch.hash
      BY <2>1, Zenon DEF HasCommitted
    <2>3. PICK n \in Received("Commit") : n.from = d /\ n.hash = a.hash
      BY <2>1, Zenon DEF HasCommitted
    <2>4. VotesOnce
      BY Zenon DEF Inv
    <2> QED BY <1>1, <1>3, <2>2, <2>3, <2>4 DEF VotesOnce
  <1> QED BY <1>4, <1>5, Zenon

(* What the decision of the current batch does to the invariant, whether   *)
(* or not the next round begins at once                                    *)
LEMMA DecisionKeepsInv ==
    ASSUME QuorumOverlap, Typed, Inv, state = "POST_PREPARE",
           NEW Q \in SUBSET Delegates, Primary \in Q, ReachedQuorum(Q),
           \A d \in Q \ {Primary} : HasCommitted(d, batch.hash),
           NEW n, NEW S, NEW T,
           sequence' = sequence + 1, prev' = batch.hash,
           \/ /\ n = [hash |-> built + 1, sequence |-> sequence + 1, previous |-> batch.hash]
              /\ built' = built + 1 /\ batch' = n /\ state' = "PRE_PREPARE"
              /\ Proposed' = Proposed \cup {n}
           \/ Proposed' = Proposed /\ built' = built /\ state' = "POST_COMMIT",
           Decided' = Decided \cup {batch},
           Received("Commit")' = Received("Commit"),
           Received("PostCommit")' = Received("PostCommit") \cup {PostCommit(batch.hash, S, T)},
           Received("PostPrepare")' = Received("PostPrepare"),
           UNCHANGED <<backupVars, storeVars>>
    PROVE  Inv'
  <1>1. /\ batch \in Proposed
        /\ batch.sequence = sequence
        /\ batch.previous = prev
    BY ZenonT(30) DEF Inv, PrimaryConsistent
  <1>2. /\ Proposed \subseteq Block
        /\ batch \in Block
        /\ built \in Nat
        /\ sequence \in Nat
    BY <1>1, SetTypes, DelegatesAssumption DEF Typed, TypeButFlag
  <1>3. batch.hash # 0 /\ \A b \in Proposed : b.hash \in Nat /\ b.hash <= built
    BY <1>2 DEF Inv, ProposalsLinked, Block, Hash
  <1>4. \A a \in Decided : a.sequence = batch.sequence => a = batch
    BY DecisionUnique, Zenon
  <1>5. Linked(prev, sequence)'
    BY <1>1, <1>2, <1>3, Zenon DEF Linked
  <1>6. \/ Proposed' = Proposed
        \/ Proposed' = Proposed \cup {n} /\ n.hash = built + 1
    OBVIOUS
  <1>7. HashesUnique'
    <2>1. HashesUnique
      BY Zenon DEF Inv
    <2> QED BY <1>2, <1>3, <1>6, <2>1 DEF HashesUnique
  <1>8. ProposalsLinked'
    <2>1. ProposalsLinked
      BY Zenon DEF Inv
    <2> QED BY <1>1, <1>2, <1>3, <2>1 DEF ProposalsLinked, Linked
  <1>9. DecisionsCertified'
    <2>1. \A b \in Decided' : b \in Proposed'
      BY <1>1, Zenon DEF Inv, DecisionsCertified
    <2>2. \A b \in Decided' : \E R \in SUBSET Delegates :
             /\ Primary \in R
             /\ ReachedQuorum(R)
             /\ \A d \in R \ {Primary} : HasCommitted(d, b.hash)
      BY Zenon DEF Inv, DecisionsCertified
    <2>3. \A b \in Decided' : \E R \in SUBSET Delegates :
             /\ Primary \in R
             /\ ReachedQuorum(R)
             /\ \A d \in R \ {Primary} : HasCommitted(d, b.hash)'
      BY <2>2 DEF HasCommitted
    <2>4. \A m \in Received("PostCommit")' : \E b \in Decided' : b.hash = m.hash
      BY DEF Inv, DecisionsCertified, PostCommit
    <2> QED BY <2>1, <2>3, <2>4, Zenon DEF DecisionsCertified
  <1>10. PrimaryConsistent'
    <2>1. state' \in {"PRE_PREPARE", "POST_PREPARE"} =>
            batch' \in Proposed' /\ batch'.sequence = sequence' /\ batch'.previous = prev'
      OBVIOUS
    <2>2. Primary \notin Crashable => \A b \in Decided' : b.sequence < sequence'
      <3>1. PrimaryConsistent
        BY Zenon DEF Inv
      <3> QED BY <1>1, <1>2, <3>1, SetTypes DEF PrimaryConsistent, Block
    <2> QED BY <1>5, <2>1, <2>2, Zenon DEF PrimaryConsistent
  <1>11. (\A d \in Backups : BackupConsistent(d))'
    <2>1. \A d \in Backups : BackupConsistent(d)
      BY Zenon DEF Inv
    <2> QED BY <2>1, Zenon DEF BackupConsistent, Linked, backupVars
  <1>12. CommitsLocked'
    <2>1. CommitsLocked
      BY Zenon DEF Inv
    <2> QED BY <2>1, Zenon DEF CommitsLocked, LockedOrPast, backupVars
  <1>13. VotesOnce'
    <2>1. \A m \in Received("Commit") : \A b \in Proposed' : b.hash = m.hash => b \in Proposed
      BY <1>2, <1>3 DEF Inv, CommitsLocked
    <2>2. VotesOnce
      BY Zenon DEF Inv
    <2> QED BY <2>1, <2>2 DEF VotesOnce
  <1>14. PrimarySigned' /\ StoresDecided'
    <2>1. StoresDecided
      BY Zenon DEF Inv
    <2>2. StoresDecided'
      BY <2>1, Zenon DEF StoresDecided, storeVars
    <2> QED BY <2>2, KeepSigned, Zenon DEF Inv
  <1>15. Agreement'
    <2>1. Agreement
      BY Zenon DEF Inv
    <2> QED BY <1>4, <2>1, Zenon DEF Agreement
  <1> QED BY <1>7, <1>8, <1>9, <1>10, <1>11, <1>12, <1>13, <1>14, <1>15, Zenon DEF Inv

(* A Commit is counted or completes the quorum.                            *)
LEMMA CommitKeepsInv ==
    ASSUME QuorumOverlap, Typed, Inv, NEW m \in msgs, OnCommit(m)
    PROVE  Inv'
  <1> DEFINE signers == signatures \cup {m.from}
             Q == signers \cup {Primary}
             sent == {PostCommit(batch.hash, post_prepare, Q), PostCommittedBlock(batch)}
             n == [hash |-> built + 1, sequence |-> sequence + 1, previous |-> batch.hash]
  <1>1. /\ m \in Received("Commit")
        /\ m.hash = batch.hash
        /\ state = "POST_PREPARE"
    BY Zenon DEF OnCommit, ProceedWithMessage, Received
  <1>2. \A d \in signers : HasCommitted(d, batch.hash)
    BY <1>1, Zenon DEF HasCommitted, Inv, PrimaryConsistent
  <1>3. Q \in SUBSET Delegates /\ Primary \in Q /\ \A d \in Q \ {Primary} : HasCommitted(d, batch.hash)
    BY <1>1, <1>2, SetTypes, DelegatesAssumption, ZenonT(30) DEF Typed, TypeButFlag, Backups
  <1>4. CASE ~ReachedQuorum(Q)
    <2>1. /\ UNCHANGED <<built, msgs, state, batch, prev, sequence, backupVars, storeVars>>
          /\ signatures' = signers
      BY <1>4, Zenon DEF OnCommit, Tally
    <2>2. Proposed' = Proposed /\ Decided' = Decided /\ Unmoved
      BY <2>1, SendNothing, Zenon
    <2>3. \A d \in signers : HasCommitted(d, batch.hash)'
      BY <1>2, <2>1, <2>2, ZenonT(30) DEF HasCommitted, Unmoved
    <2>4. PrimaryConsistent'
      <3>1. PrimaryConsistent
        BY Zenon DEF Inv
      <3> QED BY <2>1, <2>2, <2>3, <3>1, Zenon DEF PrimaryConsistent, Linked
    <2>5. PrimarySigned'
      BY <2>2, KeepSigned, Zenon DEF Inv, Unmoved
    <2> QED BY <2>1, <2>2, <2>4, <2>5, QuietKeepsInv, Zenon DEF Unmoved
  <1>5. CASE ReachedQuorum(Q) /\ InitiateConsensus(sequence + 1, batch.hash, sent)
    <2>1. /\ sequence' = sequence + 1
          /\ prev' = batch.hash
          /\ UNCHANGED <<backupVars, storeVars>>
      BY <1>5, Zenon DEF OnCommit, Tally
    <2>2. /\ built' = built + 1
          /\ batch' = n
          /\ state' = "PRE_PREPARE"
          /\ msgs' = (msgs \cup sent) \cup {PrePrepare(n)}
      BY <1>5, Zenon DEF InitiateConsensus, ConstructBatch, AdvanceState
    <2>3. /\ Proposed' = Proposed \cup {n}
          /\ Decided' = Decided \cup {batch}
          /\ Received("Commit")' = Received("Commit")
          /\ Received("PostCommit")' = Received("PostCommit") \cup {PostCommit(batch.hash, post_prepare, Q)}
          /\ Received("PostPrepare")' = Received("PostPrepare")
      BY <2>2, SendDecisionAndNext, ZenonT(30)
    <2> HIDE DEF Q
    <2> QED BY <1>1, <1>3, <1>5, <2>1, <2>2, <2>3, DecisionKeepsInv, ZenonT(30)
  <1>6. CASE ReachedQuorum(Q) /\ ~InitiateConsensus(sequence + 1, batch.hash, sent)
    <2>1. /\ sequence' = sequence + 1
          /\ prev' = batch.hash
          /\ built' = built
          /\ state' = "POST_COMMIT"
          /\ msgs' = msgs \cup sent
          /\ UNCHANGED <<backupVars, storeVars>>
      BY <1>6, Zenon DEF OnCommit, Tally, AdvanceState
    <2>2. /\ Proposed' = Proposed
          /\ Decided' = Decided \cup {batch}
          /\ Received("Commit")' = Received("Commit")
          /\ Received("PostCommit")' = Received("PostCommit") \cup {PostCommit(batch.hash, post_prepare, Q)}
          /\ Received("PostPrepare")' = Received("PostPrepare")
      BY <2>1, SendDecision, Zenon
    <2> HIDE DEF Q
    <2> QED BY <1>1, <1>3, <1>6, <2>1, <2>2, DecisionKeepsInv, Zenon
  <1> QED BY <1>4, <1>5, <1>6, Zenon

(* A PrePrepare is answered again, accepted or rejected.                   *)
LEMMA PrePrepareKeepsInv ==
    ASSUME Typed, Inv, NEW d \in Backups, NEW m \in msgs, OnPrePrepare(d, m)
    PROVE  Inv'
  <1>1. /\ m.block \in Proposed
        /\ UNCHANGED <<built, primaryVars, storeVars, b_post_prepare, b_prev, b_sequence>>
    BY Zenon DEF OnPrePrepare, Proposed, Received
  <1>2. Proposed' = Proposed /\ Decided' = Decided /\ Unmoved
    BY SendAnswer, Zenon DEF OnPrePrepare
  <1>3. PrimaryConsistent' /\ PrimarySigned'
    BY <1>1, <1>2, KeepPrimary, KeepSigned, Zenon DEF Inv, primaryVars, Unmoved
  <1>4. CASE UNCHANGED <<b_state, b_pre_prepare>>
    BY <1>1, <1>2, <1>3, <1>4, QuietKeepsInv, Zenon DEF backupVars, Unmoved
  <1>5. CASE /\ AcceptsPrePrepare(d, m.block)
             /\ b_state' = [b_state EXCEPT ![d] = "PREPARE"]
             /\ b_pre_prepare' = [b_pre_prepare EXCEPT ![d] = m.block]
    <2>1. /\ b_state'[d] = "PREPARE"
          /\ b_pre_prepare'[d] = m.block
          /\ \A e \in Backups : e # d => b_state'[e] = b_state[e] /\ b_pre_prepare'[e] = b_pre_prepare[e]
      BY <1>5, Zenon DEF Typed, TypeButFlag
    <2>2. b_state[d] = "VOID" /\ m.block.sequence = b_sequence[d]
      BY <1>5, Zenon DEF AcceptsPrePrepare
    <2>3. HashesUnique' /\ ProposalsLinked' /\ Agreement' /\ StoresDecided'
      BY <1>1, <1>2, KeepProposals, KeepAgreement, KeepStores, Zenon DEF Inv
    <2>4. DecisionsCertified'
      BY <1>2, KeepDecisions, Zenon DEF Inv, Unmoved
    <2>5. ASSUME NEW e \in Backups
          PROVE  BackupConsistent(e)'
      <3>1. BackupConsistent(e)
        BY Zenon DEF Inv
      <3>2. CASE e = d
        BY <1>1, <1>2, <2>1, <2>2, <3>1, <3>2, Zenon DEF BackupConsistent, Linked
      <3>3. CASE e # d
        BY <1>1, <1>2, <2>1, <3>1, <3>3, KeepBackup, ZenonT(30)
      <3> QED BY <3>2, <3>3, Zenon
    <2>6. CommitsLocked'
      <3>1. \A e \in Backups : b_state[e] = "COMMIT" => b_state'[e] = "COMMIT" /\ b_pre_prepare'[e] = b_pre_prepare[e]
        BY <2>1, <2>2, Zenon
      <3>2. CommitsLocked
        BY Zenon DEF Inv
      <3> QED BY <1>1, <1>2, <3>1, <3>2, SetTypes DEF CommitsLocked, LockedOrPast, Unmoved
    <2>7. VotesOnce'
      BY <1>2, KeepVotes, Zenon DEF Inv, Unmoved
    <2> QED BY <1>3, <2>3, <2>4, <2>5, <2>6, <2>7, Zenon DEF Inv
  <1> QED BY <1>4, <1>5, Zenon DEF OnPrePrepare

(* A PostPrepare makes the backup commit, or commit again, to the block it *)
(* has prepared.                                                           *)
LEMMA PostPrepareKeepsInv ==
    ASSUME Typed, Inv, NEW d \in Backups, NEW m \in msgs, OnPostPrepare(d, m)
    PROVE  Inv'
  <1> DEFINE b == b_pre_prepare[d]
             c == Commit(b.hash, m.signers, d)
  <1>1. /\ m \in Received("PostPrepare")
        /\ msgs' = msgs \cup {c}
        /\ UNCHANGED <<built, primaryVars, storeVars, b_pre_prepare, b_prev, b_sequence>>
    BY Zenon DEF OnPostPrepare, Received
  <1>2. /\ Proposed' = Proposed
        /\ Decided' = Decided
        /\ Received("Commit")' = Received("Commit") \cup {c}
        /\ Received("PostCommit")' = Received("PostCommit")
        /\ Received("PostPrepare")' = Received("PostPrepare")
    BY <1>1, SendCommit, Zenon
  <1>3. c.from = d /\ c.hash = b.hash
    BY Zenon DEF Commit
  <1>4. b_post_prepare[d] = m.signers => b_state[d] = "COMMIT"
    BY <1>1, Zenon DEF Inv, PrimarySigned, BackupConsistent
  <1>5. /\ b_state[d] # "VOID"
        /\ b_state'[d] = "COMMIT"
        /\ \A e \in Backups : e # d => b_state'[e] = b_state[e] /\ b_post_prepare'[e] = b_post_prepare[e]
    BY <1>4, ZenonT(30) DEF OnPostPrepare, AcceptsPostPrepare, Typed, TypeButFlag
  <1>6. b \in Proposed /\ b.sequence = b_sequence[d]
    BY <1>5, Zenon DEF Inv, BackupConsistent
  <1> HIDE DEF c
  <1>7. HashesUnique' /\ ProposalsLinked' /\ Agreement' /\ StoresDecided' /\ PrimarySigned'
    BY <1>1, <1>2, KeepProposals, KeepAgreement, KeepStores, KeepSigned, Zenon DEF Inv
  <1>8. DecisionsCertified' /\ PrimaryConsistent'
    <2>2. DecisionsCertified'
      BY <1>2, KeepDecisions, Zenon DEF Inv
    <2>3. \A e \in signatures : HasCommitted(e, batch.hash) => HasCommitted(e, batch.hash)'
      BY <1>1, <1>2, ZenonT(30) DEF HasCommitted, primaryVars
    <2>4. PrimaryConsistent'
      <3>1. PrimaryConsistent
        BY Zenon DEF Inv
      <3> QED BY <1>1, <1>2, <2>3, <3>1, Zenon DEF PrimaryConsistent, Linked, primaryVars
    <2> QED BY <2>2, <2>4, Zenon
  <1>9. ASSUME NEW e \in Backups
        PROVE  BackupConsistent(e)'
    <2>1. BackupConsistent(e)
      BY Zenon DEF Inv
    <2>2. CASE e = d
      BY <1>1, <1>2, <1>5, <1>6, <2>1, <2>2, ZenonT(30) DEF BackupConsistent, Linked
    <2>3. CASE e # d
      BY <1>1, <1>2, <1>5, <2>1, <2>3, KeepBackup, ZenonT(30)
    <2> QED BY <2>2, <2>3
  <1>10. CommitsLocked'
    <2>1. ASSUME NEW n \in Received("Commit")
          PROVE  \E x \in Proposed : x.hash = n.hash /\ (n.from \notin Crashable => LockedOrPast(n.from, x)')
      <3>1. PICK x \in Proposed : x.hash = n.hash /\ (n.from \notin Crashable => LockedOrPast(n.from, x))
        BY Zenon DEF Inv, CommitsLocked
      <3>2. n.from \in Backups
        BY SetTypes, Zenon
      <3> QED BY <1>1, <1>5, <3>1, <3>2, Zenon DEF LockedOrPast
    <2>2. LockedOrPast(d, b)'
      BY <1>1, <1>5, Zenon DEF LockedOrPast
    <2>3. b' = b
      BY <1>1, Zenon
    <2> QED BY <1>2, <1>3, <1>6, <2>1, <2>2, <2>3, Zenon DEF CommitsLocked, LockedOrPast
  <1>11. VotesOnce'
    <2>1. ASSUME NEW n \in Received("Commit"), NEW y \in Proposed,
                 n.from = d, d \notin Crashable, y.hash = n.hash, y.sequence = b.sequence
          PROVE  y = b
      <3>1. PICK x \in Proposed : x.hash = n.hash /\ LockedOrPast(d, x)
        BY <2>1, Zenon DEF Inv, CommitsLocked
      <3>2. x = y
        BY <2>1, <3>1, Zenon DEF Inv, HashesUnique
      <3>3. ~(x.sequence < b_sequence[d])
        <4>1. x.sequence = b_sequence[d]
          BY <1>6, <2>1, <3>2, ZenonT(30)
        <4>2. b_sequence[d] \in Nat
          BY Zenon DEF Typed, TypeButFlag
        <4> QED BY <4>1, <4>2
      <3> QED BY <3>1, <3>2, <3>3, Zenon DEF LockedOrPast
    <2>2. \A y \in Proposed : y.hash = c.hash => y = b
      BY <1>3, <1>6, ZenonT(30) DEF Inv, HashesUnique
    <2> HIDE DEF b
    <2>3. VotesOnce
      BY Zenon DEF Inv
    <2> QED BY <1>2, <1>3, <2>1, <2>2, <2>3 DEF VotesOnce
  <1> QED BY <1>7, <1>8, <1>9, <1>10, <1>11, Zenon DEF Inv

(* A backup that learns of the decision of the block it waits for moves    *)
(* past it.                                                                *)
LEMMA AdvanceKeepsInv ==
    ASSUME Typed, Inv, NEW d \in Backups, NEW b \in Decided, b.sequence = b_sequence[d],
           AdvanceCounter(d, b), UNCHANGED <<built, primaryVars, storeVars>>
    PROVE  Inv'
  <1>1. Proposed' = Proposed /\ Decided' = Decided /\ Unmoved
    <2>1. msgs' = msgs \cup {PostCommittedBlock(b)}
      BY Zenon DEF AdvanceCounter
    <2>2. Proposed' = Proposed /\ Decided' = Decided \cup {b} /\ Unmoved
      BY <2>1, SendBlock, Zenon
    <2>3. Decided \cup {b} = Decided
      BY Zenon
    <2> QED BY <2>2, <2>3, Zenon
  <1>2. /\ b_state'[d] = "VOID"
        /\ b_pre_prepare'[d] = NoBlock
        /\ b_post_prepare'[d] = {}
        /\ b_prev'[d] = b.hash
        /\ b_sequence'[d] = b.sequence + 1
        /\ \A e \in Backups : e # d =>
              /\ b_state'[e] = b_state[e]
              /\ b_pre_prepare'[e] = b_pre_prepare[e]
              /\ b_post_prepare'[e] = b_post_prepare[e]
              /\ b_prev'[e] = b_prev[e]
              /\ b_sequence'[e] = b_sequence[e]
    BY Zenon DEF AdvanceCounter, Typed, TypeButFlag
  <1>3. b \in Block /\ b.hash # 0 /\ b_sequence[d] \in Nat
    BY SetTypes DEF Block, Hash, Typed, TypeButFlag
  <1>4. HashesUnique' /\ ProposalsLinked' /\ Agreement' /\ StoresDecided' /\ PrimarySigned'
    BY <1>1, KeepProposals, KeepAgreement, KeepStores, KeepSigned, ZenonT(30) DEF Inv, Unmoved
  <1>5. DecisionsCertified' /\ PrimaryConsistent'
    BY <1>1, KeepDecisions, KeepPrimary, Zenon DEF Inv, primaryVars, Unmoved
  <1>6. ASSUME NEW e \in Backups
        PROVE  BackupConsistent(e)'
    <2>1. CASE e = d
      BY <1>1, <1>2, <1>3, <2>1, Zenon DEF BackupConsistent, Linked
    <2>2. CASE e # d
      <3>1. BackupConsistent(e)
        BY Zenon DEF Inv
      <3> QED BY <1>1, <1>2, <2>2, <3>1, KeepBackup, ZenonT(30)
    <2> QED BY <2>1, <2>2, Zenon
  <1>7. CommitsLocked'
    <2>1. ASSUME NEW n \in Received("Commit")
          PROVE  \E x \in Proposed : x.hash = n.hash /\ (n.from \notin Crashable => LockedOrPast(n.from, x)')
      <3>1. PICK x \in Proposed : x.hash = n.hash /\ (n.from \notin Crashable => LockedOrPast(n.from, x))
        BY Zenon DEF Inv, CommitsLocked
      <3>2. n.from \in Backups /\ x \in Block
        BY SetTypes, Zenon
      <3>3. CASE n.from = d
        <4>1. BackupConsistent(d)
          BY Zenon DEF Inv
        <4>2. x.sequence \in Nat
          BY <3>2, Zenon DEF Block
        <4>3. b_state[d] = "COMMIT" /\ b_pre_prepare[d] = x => x.sequence = b_sequence[d]
          BY <4>1, ZenonT(30) DEF BackupConsistent
        <4>4. b_sequence'[d] = b_sequence[d] + 1
          BY <1>2, ZenonT(30)
        <4>5. /\ x.sequence < b_sequence[d] => x.sequence < b_sequence[d] + 1
              /\ x.sequence = b_sequence[d] => x.sequence < b_sequence[d] + 1
          BY <1>3, <4>2, BelowNext, ZenonT(30)
        <4>6. LockedOrPast(d, x) => x.sequence < b_sequence'[d]
          BY <4>3, <4>4, <4>5, ZenonT(30) DEF LockedOrPast
        <4> QED BY <3>1, <3>3, <4>6, Zenon DEF LockedOrPast
      <3>4. CASE n.from # d
        <4>1. /\ b_state'[n.from] = b_state[n.from]
              /\ b_pre_prepare'[n.from] = b_pre_prepare[n.from]
              /\ b_sequence'[n.from] = b_sequence[n.from]
          BY <1>2, <3>2, <3>4, ZenonT(30)
        <4> QED BY <3>1, <4>1, Zenon DEF LockedOrPast
      <3> QED BY <3>3, <3>4, Zenon
    <2> QED BY <1>1, <2>1, ZenonT(30) DEF CommitsLocked, LockedOrPast, Unmoved
  <1>8. VotesOnce'
    BY <1>1, KeepVotes, ZenonT(30) DEF Inv, Unmoved
  <1> QED BY <1>4, <1>5, <1>6, <1>7, <1>8, Zenon DEF Inv

(* The block that moves a backup on is decided and carries the sequence    *)
(* number the backup expects.                                              *)
LEMMA FollowedBlock ==
    ASSUME Typed, Inv, NEW d \in Backups, NEW b \in Decided, FollowsBlock(d, b)
    PROVE  b.sequence = b_sequence[d]
  <1>1. b \in Proposed /\ b \in Block
    BY SetTypes, Zenon DEF Inv, DecisionsCertified
  <1>2. b.hash # 0
    BY <1>1 DEF Block, Hash
  <1>3. CASE b.hash = b_pre_prepare[d].hash
    <2>1. BackupConsistent(d) /\ HashesUnique
      BY Zenon DEF Inv
    <2>2. b_state[d] # "VOID"
      BY <1>2, <1>3, <2>1 DEF BackupConsistent, NoBlock
    <2> QED BY <1>1, <1>3, <2>1, <2>2, Zenon DEF BackupConsistent, HashesUnique
  <1>4. CASE b.previous = b_prev[d]
    <2>1. Linked(b.previous, b.sequence) /\ Linked(b_prev[d], b_sequence[d])
      BY <1>1, Zenon DEF Inv, ProposalsLinked, BackupConsistent
    <2>2. \A x, y \in Decided : x.hash = y.hash => x = y
      BY Zenon DEF Inv, DecisionsCertified, HashesUnique
    <2>3. CASE b.previous = 0
      BY <1>4, <2>1, <2>3, Zenon DEF Linked
    <2>4. CASE b.previous # 0
      <3>1. PICK x \in Decided : x.hash = b.previous /\ x.sequence + 1 = b.sequence
        BY <2>1, <2>4, Zenon DEF Linked
      <3>2. PICK y \in Decided : y.hash = b.previous /\ y.sequence + 1 = b_sequence[d]
        BY <1>4, <2>1, <2>4, Zenon DEF Linked
      <3> QED BY <2>2, <3>1, <3>2, Zenon
    <2> QED BY <2>3, <2>4, Zenon
  <1> QED BY <1>3, <1>4, Zenon DEF FollowsBlock

(* Both ways of learning a decision move the backup on by one block.       *)
LEMMA LearnKeepsInv ==
    ASSUME Typed, Inv, NEW d \in Backups, NEW m \in msgs,
           OnPostCommit(d, m) \/ OnPostCommittedBlock(d, m)
    PROVE  Inv'
  <1>1. CASE OnPostCommit(d, m)
    <2>1. m \in Received("PostCommit") /\ m.hash = b_pre_prepare[d].hash /\ b_state[d] = "COMMIT"
      BY <1>1, Zenon DEF OnPostCommit, AcceptsPostCommit, Received
    <2>2. PICK b \in Decided : b.hash = m.hash
      BY <2>1, Zenon DEF Inv, DecisionsCertified
    <2>3. b = b_pre_prepare[d] /\ b.sequence = b_sequence[d]
      <3>1. BackupConsistent(d) /\ HashesUnique /\ DecisionsCertified
        BY Zenon DEF Inv
      <3>2. b \in Proposed
        BY <3>1, Zenon DEF DecisionsCertified
      <3>3. b_pre_prepare[d] \in Proposed /\ b_pre_prepare[d].sequence = b_sequence[d]
        BY <2>1, <3>1, ZenonT(30) DEF BackupConsistent
      <3> QED BY <2>1, <2>2, <3>1, <3>2, <3>3, Zenon DEF HashesUnique
    <2> QED BY <1>1, <2>2, <2>3, AdvanceKeepsInv, Zenon DEF OnPostCommit
  <1>2. CASE OnPostCommittedBlock(d, m)
    <2>1. m.block \in Decided
      BY <1>2, Zenon DEF OnPostCommittedBlock, Decided, Received
    <2>2. m.block.sequence = b_sequence[d]
      BY <1>2, <2>1, FollowedBlock, Zenon DEF OnPostCommittedBlock
    <2> QED BY <1>2, <2>1, <2>2, AdvanceKeepsInv, Zenon DEF OnPostCommittedBlock
  <1> QED BY <1>1, <1>2, Zenon

(* Writing a decided block *)
LEMMA WriteKeepsInv ==
    ASSUME Typed, Inv, NEW d \in Stores, NEW m \in msgs, WriteBlock(d, m)
    PROVE  Inv'
  <1>1. m.block \in Decided /\ UNCHANGED <<built, msgs, primaryVars, backupVars>>
    BY Zenon DEF WriteBlock, Decided, Received
  <1>2. Proposed' = Proposed /\ Decided' = Decided /\ Unmoved
    BY <1>1, SendNothing, Zenon
  <1>3. HashesUnique' /\ ProposalsLinked' /\ Agreement' /\ PrimarySigned'
    BY <1>1, <1>2, KeepProposals, KeepAgreement, KeepSigned, Zenon DEF Inv, Unmoved
  <1>4. DecisionsCertified' /\ PrimaryConsistent'
    BY <1>1, <1>2, KeepDecisions, KeepPrimary, Zenon DEF Inv, primaryVars, Unmoved
  <1>5. (\A e \in Backups : BackupConsistent(e))'
    BY <1>1, <1>2, KeepBackups, Zenon DEF Inv
  <1>6. CommitsLocked' /\ VotesOnce'
    BY <1>1, <1>2, KeepCommits, KeepVotes, Zenon DEF Inv, Unmoved
  <1>7. StoresDecided'
    <2>1. StoresDecided
      BY Zenon DEF Inv
    <2> QED BY <1>1, <1>2, <2>1, Zenon DEF StoresDecided, WriteBlock, Typed, TypeButFlag
  <1> QED BY <1>3, <1>4, <1>5, <1>6, <1>7, Zenon DEF Inv

(* A restart continues from the tip, which is a decided block.  What it    *)
(* forgets it may forget, because the delegate is in Crashable.            *)
LEMMA RestartKeepsInv ==
    ASSUME Typed, Inv, NEW d \in Crashable, Restart(d)
    PROVE  Inv'
  <1>1. UNCHANGED <<built, msgs, stored, tip>>
    BY Zenon DEF Restart
  <1>2. Proposed' = Proposed /\ Decided' = Decided /\ Unmoved
    BY <1>1, SendNothing, Zenon
  <1>3. Linked(tip[d].hash, NextSequence(tip[d]))
    <2>1. d \in Stores
      BY DelegatesAssumption, Zenon
    <2>2. tip[d] = NoBlock \/ tip[d] \in Decided
      BY <2>1, Zenon DEF Inv, StoresDecided
    <2>3. tip[d] \in Decided => tip[d] \in Block /\ tip[d] # NoBlock /\ tip[d].hash # 0
      BY SetTypes DEF Block, Hash, NoBlock
    <2> QED BY <2>2, <2>3 DEF Linked, NextSequence, NoBlock
  <1>4. HashesUnique' /\ ProposalsLinked' /\ Agreement' /\ PrimarySigned' /\ StoresDecided'
    BY <1>1, <1>2, KeepProposals, KeepAgreement, KeepSigned, KeepStores, Zenon DEF Inv, storeVars, Unmoved
  <1>5. DecisionsCertified' /\ VotesOnce'
    BY <1>1, <1>2, KeepDecisions, KeepVotes, Zenon DEF Inv, Unmoved
  <1>6. CASE d = Primary /\ UNCHANGED backupVars
    <2>1. state' = "INITIALIZING" /\ prev' = tip[d].hash /\ sequence' = NextSequence(tip[d])
      BY <1>6, Zenon DEF Restart, Backups
    <2>2. PrimaryConsistent'
      BY <1>2, <1>3, <1>6, <2>1, Zenon DEF PrimaryConsistent, Linked
    <2>3. (\A e \in Backups : BackupConsistent(e))'
      BY <1>2, <1>6, KeepBackups, Zenon DEF Inv
    <2>4. CommitsLocked'
      BY <1>2, <1>6, KeepCommits, Zenon DEF Inv, Unmoved
    <2> QED BY <1>4, <1>5, <2>2, <2>3, <2>4, Zenon DEF Inv
  <1>7. CASE d \in Backups /\ UNCHANGED primaryVars
    <2>1. /\ b_state'[d] = "VOID"
          /\ b_pre_prepare'[d] = NoBlock
          /\ b_post_prepare'[d] = {}
          /\ b_prev'[d] = tip[d].hash
          /\ b_sequence'[d] = NextSequence(tip[d])
          /\ \A e \in Backups : e # d =>
                /\ b_state'[e] = b_state[e]
                /\ b_pre_prepare'[e] = b_pre_prepare[e]
                /\ b_post_prepare'[e] = b_post_prepare[e]
                /\ b_prev'[e] = b_prev[e]
                /\ b_sequence'[e] = b_sequence[e]
      BY <1>7, Zenon DEF Restart, Backups, Typed, TypeButFlag
    <2>2. PrimaryConsistent'
      BY <1>2, <1>7, KeepPrimary, Zenon DEF Inv, primaryVars, Unmoved
    <2>3. ASSUME NEW e \in Backups
          PROVE  BackupConsistent(e)'
      <3>1. CASE e = d
        BY <1>2, <1>3, <2>1, <3>1, Zenon DEF BackupConsistent, Linked
      <3>2. CASE e # d
        <4>1. BackupConsistent(e)
          BY Zenon DEF Inv
        <4> QED BY <1>2, <2>1, <3>2, <4>1, KeepBackup, Zenon
      <3> QED BY <3>1, <3>2, Zenon
    <2>4. CommitsLocked'
      <3>1. ASSUME NEW n \in Received("Commit")
            PROVE  \E x \in Proposed : x.hash = n.hash /\ (n.from \notin Crashable => LockedOrPast(n.from, x)')
        <4>1. PICK x \in Proposed : x.hash = n.hash /\ (n.from \notin Crashable => LockedOrPast(n.from, x))
          BY Zenon DEF Inv, CommitsLocked
        <4>2. n.from \in Backups
          BY SetTypes, Zenon
        <4>3. n.from \notin Crashable =>
                 /\ b_state'[n.from] = b_state[n.from]
                 /\ b_pre_prepare'[n.from] = b_pre_prepare[n.from]
                 /\ b_sequence'[n.from] = b_sequence[n.from]
          BY <2>1, <4>2, Zenon
        <4> QED BY <4>1, <4>3, Zenon DEF LockedOrPast
      <3> QED BY <1>2, <3>1, Zenon DEF CommitsLocked, LockedOrPast, Unmoved
    <2> QED BY <1>4, <1>5, <2>2, <2>3, <2>4, Zenon DEF Inv
  <1> QED BY <1>6, <1>7, Zenon DEF Restart

(* Nothing is decided, proposed or committed at the start.                 *)
LEMMA InitInv ==
    ASSUME Init
    PROVE  Inv
  <1>1. \A t : Received(t) = {}
    BY Zenon DEF Init, Received
  <1>2. Proposed = {} /\ Decided = {}
    BY <1>1, Zenon DEF Proposed, Decided
  <1>3. HashesUnique /\ ProposalsLinked /\ DecisionsCertified /\ CommitsLocked /\ VotesOnce /\ PrimarySigned /\ Agreement
    BY <1>1, <1>2, Zenon DEF HashesUnique, ProposalsLinked, DecisionsCertified, CommitsLocked, VotesOnce, PrimarySigned, Agreement
  <1>4. PrimaryConsistent /\ \A d \in Backups : BackupConsistent(d)
    BY <1>2, Zenon DEF Init, PrimaryConsistent, BackupConsistent, Linked
  <1>5. StoresDecided
    BY Zenon DEF Init, StoresDecided
  <1> QED BY <1>3, <1>4, <1>5, Zenon DEF Inv

(* Every step keeps the inductive invariant.                               *)
LEMMA NextInv ==
    ASSUME QuorumOverlap, Typed, Inv, [Next]_vars
    PROVE  Inv'
  <1>1. CASE PrimaryStep
    <2>1. CASE StartConsensus
      BY <2>1, NewBatchKeepsInv, Zenon DEF StartConsensus
    <2>2. CASE OnMessageQueued
      BY <2>2, NewBatchKeepsInv, Zenon DEF OnMessageQueued
    <2> QED BY <1>1, <2>1, <2>2, TimeoutKeepsInv, PrepareKeepsInv, RejectionKeepsInv, CommitKeepsInv, Zenon DEF PrimaryStep
  <1>2. CASE \E d \in Backups : BackupStep(d)
    BY <1>2, PrePrepareKeepsInv, PostPrepareKeepsInv, LearnKeepsInv, Zenon DEF BackupStep
  <1>3. CASE \E d \in Stores, m \in msgs : WriteBlock(d, m)
    BY <1>3, WriteKeepsInv, Zenon
  <1>4. CASE \E d \in Crashable : Restart(d)
    BY <1>4, RestartKeepsInv, Zenon
  <1>5. CASE UNCHANGED vars
    <2>1. UNCHANGED <<built, msgs, primaryVars, backupVars, storeVars>>
      BY <1>5, Zenon DEF vars
    <2>2. Proposed' = Proposed /\ Decided' = Decided /\ Unmoved
      BY <2>1, SendNothing, Zenon
    <2>3. PrimaryConsistent' /\ PrimarySigned'
      BY <2>1, <2>2, KeepPrimary, KeepSigned, Zenon DEF Inv, primaryVars, Unmoved
    <2> QED BY <2>1, <2>2, <2>3, QuietKeepsInv, Zenon DEF Unmoved
  <1> QED BY <1>1, <1>2, <1>3, <1>4, <1>5, Zenon DEF Next

(* The invariant is inductive, and holds with the types in every state.    *)
THEOREM ConsensusInvariant ==
    ASSUME QuorumOverlap
    PROVE  Spec => [](Typed /\ Inv)
  <1>1. Init => Typed /\ Inv
    <2>1. Init => TypeButFlag /\ Session
      BY DelegatesAssumption DEF Init, TypeButFlag, Session, NoBlock
    <2> QED BY <2>1, InitInv, ZenonT(30) DEF Typed
  <1>2. Typed /\ Inv /\ [Next]_vars => (Typed /\ Inv)'
    <2>1. Typed /\ UNCHANGED vars => Typed'
      BY Zenon DEF Typed, TypeButFlag, Session, vars, primaryVars, backupVars, storeVars
    <2>2. Typed /\ Next => Typed'
      BY PrimaryTyped, BackupTyped, StoreTyped, Zenon DEF Next, Typed
    <2> QED BY <2>1, <2>2, NextInv, Zenon
  <1> QED BY <1>1, <1>2, PTL DEF Spec

(* At most one block is post-committed per sequence number of the chain,   *)
(* whatever is lost, repeated, reordered, re-proposed or forgotten by      *)
(* crashable delegates, provided that two quorums always share a delegate  *)
(* that keeps its memory.                                                  *)
THEOREM ConsensusAgreement ==
    ASSUME QuorumOverlap
    PROVE  Spec => []Agreement
  <1>1. Inv => Agreement
    BY Zenon DEF Inv
  <1> QED BY <1>1, ConsensusInvariant, PTL

(* A backup that keeps its memory commits to one block per sequence        *)
(* number.                                                                 *)
THEOREM ConsensusVotesOnce ==
    ASSUME QuorumOverlap
    PROVE  Spec => []VotesOnce
  <1>1. Inv => VotesOnce
    BY Zenon DEF Inv
  <1> QED BY <1>1, ConsensusInvariant, PTL

(* The node never halts on a PostPrepare it has seen before.               *)
THEOREM ConsensusNoHalt ==
    ASSUME QuorumOverlap
    PROVE  Spec => []NoHaltOnPostPrepare
  <1>1. Inv => NoHaltOnPostPrepare
    <2> SUFFICES ASSUME Inv, NEW d \in Backups, NEW m \in Received("PostPrepare"),
                        m.signers = b_post_prepare[d], b_state[d] # "COMMIT"
                 PROVE  FALSE
      BY Zenon DEF NoHaltOnPostPrepare
    <2>1. Primary \in m.signers
      BY Zenon DEF Inv, PrimarySigned
    <2>2. b_post_prepare[d] = {}
      BY Zenon DEF Inv, BackupConsistent
    <2> QED BY <2>1, <2>2, Zenon
  <1> QED BY <1>1, ConsensusInvariant, PTL

(* A backup always builds on the decided chain.                            *)
THEOREM ConsensusBackupFollows ==
    ASSUME QuorumOverlap
    PROVE  Spec => []BackupFollowsChain
  <1>1. Typed /\ Inv => BackupFollowsChain
    <2> SUFFICES ASSUME Typed, Inv, NEW d \in Backups
                 PROVE  IF b_sequence[d] = 0 THEN b_prev[d] = 0
                        ELSE \E b \in Decided : b.hash = b_prev[d] /\ b.sequence = b_sequence[d] - 1
      BY ZenonT(30) DEF BackupFollowsChain
    <2>1. Linked(b_prev[d], b_sequence[d]) /\ b_sequence[d] \in Nat
      BY Zenon DEF Inv, BackupConsistent, Typed, TypeButFlag
    <2>2. \A c \in Decided : c.sequence \in Nat
      BY SetTypes, Zenon DEF Block
    <2>3. CASE b_prev[d] = 0
      BY <2>1, <2>3, Zenon DEF Linked
    <2>4. CASE b_prev[d] # 0
      <3>1. PICK c \in Decided : c.hash = b_prev[d] /\ c.sequence + 1 = b_sequence[d]
        BY <2>1, <2>4, Zenon DEF Linked
      <3>2. b_sequence[d] # 0 /\ c.sequence = b_sequence[d] - 1
        BY <2>1, <2>2, <3>1
      <3> QED BY <3>1, <3>2, Zenon
    <2> QED BY <2>3, <2>4, Zenon
  <1> QED BY <1>1, ConsensusInvariant, PTL

(* Without a restart a backup's counter moves by at most one block.        *)
THEOREM ConsensusCounterAdvances ==
    ASSUME QuorumOverlap
    PROVE  Spec => CounterAdvances
  <1> DEFINE A == restarts' = restarts =>
                    \A d \in Backups : b_sequence'[d] \in {b_sequence[d], b_sequence[d] + 1}
  <1>1. Typed /\ Inv /\ [Next]_vars => [A]_vars
    <2> SUFFICES ASSUME Typed, Inv, Next, restarts' = restarts, NEW e \in Backups
                 PROVE  b_sequence'[e] \in {b_sequence[e], b_sequence[e] + 1}
      BY Zenon
    <2>1. CASE UNCHANGED b_sequence
      BY <2>1, Zenon
    <2>2. ASSUME NEW d \in Backups, NEW b \in Decided, b.sequence = b_sequence[d], AdvanceCounter(d, b)
          PROVE  b_sequence'[e] \in {b_sequence[e], b_sequence[e] + 1}
      BY <2>2, Zenon DEF AdvanceCounter, Typed, TypeButFlag
    <2>3. ASSUME NEW d \in Backups, NEW m \in msgs, OnPostCommit(d, m)
          PROVE  b_sequence'[e] \in {b_sequence[e], b_sequence[e] + 1}
      <3>1. m \in Received("PostCommit") /\ m.hash = b_pre_prepare[d].hash /\ b_state[d] = "COMMIT"
        BY <2>3, Zenon DEF OnPostCommit, AcceptsPostCommit, Received
      <3>2. b_pre_prepare[d].sequence = b_sequence[d]
        BY <3>1, Zenon DEF Inv, BackupConsistent
      <3> QED BY <2>3, <3>2, Zenon DEF OnPostCommit, AdvanceCounter, Typed, TypeButFlag
    <2>4. ASSUME NEW d \in Backups, NEW m \in msgs, OnPostCommittedBlock(d, m)
          PROVE  b_sequence'[e] \in {b_sequence[e], b_sequence[e] + 1}
      <3>1. m.block \in Decided
        BY <2>4, ZenonT(30) DEF OnPostCommittedBlock, Decided, Received
      <3> QED BY <2>2, <2>4, <3>1, FollowedBlock, ZenonT(30) DEF OnPostCommittedBlock
    <2>5. CASE \E d \in Crashable : Restart(d)
      BY <2>5 DEF Restart, Typed, TypeButFlag
    <2>6. PrimaryStep => UNCHANGED b_sequence
      BY Zenon DEF PrimaryStep, StartConsensus, OnMessageQueued, OnTimeout, OnPrepare, OnRejection, OnCommit, backupVars
    <2>7. (\E d \in Stores, m \in msgs : WriteBlock(d, m)) => UNCHANGED b_sequence
      BY Zenon DEF WriteBlock, backupVars
    <2>8. \A d \in Backups, m \in msgs : OnPrePrepare(d, m) \/ OnPostPrepare(d, m) => UNCHANGED b_sequence
      BY Zenon DEF OnPrePrepare, OnPostPrepare
    <2> QED BY <2>1, <2>3, <2>4, <2>5, <2>6, <2>7, <2>8, Zenon DEF Next, BackupStep
  <1> QED BY <1>1, ConsensusInvariant, PTL DEF Spec, CounterAdvances

(* The number of a decided block follows from its link: the blocks it is   *)
(* linked to have the number before.                                       *)
LEMMA DecidedLinks ==
    ASSUME Typed, Inv, NEW b \in Decided
    PROVE  /\ b.sequence \in Nat
           /\ b.previous = 0 <=> b.sequence = 0
           /\ \A a \in Decided : a.hash = b.previous <=> a.sequence + 1 = b.sequence
  <1>1. Decided \subseteq Block /\ Decided \subseteq Proposed
    BY SetTypes, Zenon DEF Inv, DecisionsCertified
  <1>2. \A a \in Decided : a.hash \in Hash /\ a.sequence \in Nat
    BY <1>1, Zenon DEF Block
  <1>3. Linked(b.previous, b.sequence)
    BY <1>1, Zenon DEF Inv, ProposalsLinked
  <1>4. 0 \notin Hash
    BY DelegatesAssumption DEF Hash
  <1>5. CASE b.previous = 0
    BY <1>2, <1>3, <1>4, <1>5 DEF Linked
  <1>6. CASE b.previous # 0
    <2>1. PICK c \in Decided : c.hash = b.previous /\ c.sequence + 1 = b.sequence
      BY <1>3, <1>6, Zenon DEF Linked
    <2>2. b.sequence # 0
      BY <1>2, <2>1
    <2>3. \A a \in Decided : a.hash = b.previous => a = c
      BY <1>1, <2>1, Zenon DEF Inv, HashesUnique
    <2>4. \A a \in Decided : a.sequence + 1 = b.sequence => a = c
      BY <1>2, <2>1 DEF Inv, Agreement
    <2> QED BY <1>2, <1>6, <2>1, <2>2, <2>3, <2>4, Zenon
  <1> QED BY <1>5, <1>6, Zenon

(* The write thread only ever extends the chain: a database holds one      *)
(* decided block for every sequence number up to its tip and each is       *)
(* linked to the one before.                                               *)
THEOREM ConsensusStoredChain ==
    ASSUME QuorumOverlap
    PROVE  Spec => []StoredChain
  <1> DEFINE Filled(d) == /\ \A s \in 0..(NextSequence(tip[d]) - 1) : \E b \in stored[d] : b.sequence = s
                          /\ \A b \in stored[d] : b.sequence < NextSequence(tip[d])
             Chain == \A d \in Stores : Filled(d)
  <1>1. Init => Chain
    BY DEF Init, NextSequence
  <1>2. Typed /\ Inv /\ Chain /\ [Next]_vars => Chain'
    <2> SUFFICES ASSUME Typed, Inv, Chain, [Next]_vars, NEW e \in Stores
                 PROVE  Filled(e)'
      BY Zenon
    <2>1. CASE UNCHANGED <<stored, tip>>
      BY <2>1, Zenon DEF NextSequence
    <2>2. ASSUME NEW d \in Stores, NEW m \in msgs, WriteBlock(d, m)
          PROVE  Filled(e)'
      <3> DEFINE b == m.block
      <3>1. /\ b \in Decided /\ b.previous = tip[d].hash
            /\ stored' = [stored EXCEPT ![d] = @ \cup {b}]
            /\ tip' = [tip EXCEPT ![d] = b]
        BY <2>2, Zenon DEF WriteBlock, ExtendsTip, Decided, Received
      <3>2. tip[d] = NoBlock \/ tip[d] \in Decided
        BY Zenon DEF Inv, StoresDecided
      <3>3. b.sequence \in Nat /\ b # NoBlock
        <4>1. b \in Block
          BY <3>1, SetTypes, Zenon
        <4> QED BY <4>1, DelegatesAssumption DEF Block, NoBlock, Hash
      <3>4. b.sequence = NextSequence(tip[d])
        BY <3>1, <3>2, <3>3, DecidedLinks DEF NextSequence, NoBlock
      <3>5. CASE e # d
        BY <3>1, <3>5, ZenonT(30) DEF Typed, TypeButFlag
      <3>6. CASE e = d
        <4>1. tip'[e] = b /\ stored'[e] = stored[e] \cup {b}
          BY <3>1, <3>6, ZenonT(30) DEF Typed, TypeButFlag
        <4>2. NextSequence(tip[e])' = b.sequence + 1
          BY <3>3, <4>1, Zenon DEF NextSequence
        <4>3. \A x \in stored[e] : x.sequence \in Nat
          <5>1. stored[e] \subseteq Block
            BY Zenon DEF Typed, TypeButFlag
          <5> QED BY <5>1, Zenon DEF Block
        <4>4. \A s \in 0..b.sequence : s = b.sequence \/ s \in 0..(NextSequence(tip[e]) - 1)
          BY <3>3, <3>4, <3>6
        <4>5. \A s \in 0..b.sequence : \E x \in stored'[e] : x.sequence = s
          BY <4>1, <4>4, ZenonT(30)
        <4>6. \A x \in stored'[e] : x.sequence < b.sequence + 1
          BY <3>3, <3>4, <3>6, <4>1, <4>3
        <4> QED BY <3>3, <4>2, <4>5, <4>6
      <3> QED BY <3>5, <3>6, ZenonT(30)
    <2>3. (PrimaryStep \/ \E d \in Backups : BackupStep(d)) => UNCHANGED <<stored, tip>>
      BY Zenon DEF PrimaryStep, StartConsensus, OnMessageQueued, OnTimeout, OnPrepare, OnRejection, OnCommit,
                   BackupStep, OnPrePrepare, OnPostPrepare, OnPostCommit, OnPostCommittedBlock, storeVars
    <2>4. (\E d \in Crashable : Restart(d)) \/ UNCHANGED vars => UNCHANGED <<stored, tip>>
      BY Zenon DEF Restart, vars, storeVars
    <2> QED BY <2>1, <2>2, <2>3, <2>4, Zenon DEF Next
  <1>3. Typed /\ Inv /\ Chain => StoredChain
    <2> SUFFICES ASSUME Typed, Inv, Chain, NEW d \in Stores
                 PROVE  /\ stored[d] \subseteq Decided
                        /\ \A b \in stored[d] :
                              /\ b.previous = 0 <=> b.sequence = 0
                              /\ \A c \in stored[d] : b.sequence + 1 = c.sequence => c.previous = b.hash
      BY Zenon DEF StoredChain
    <2>1. stored[d] \subseteq Decided
      BY Zenon DEF Inv, StoresDecided
    <2> QED BY <2>1, DecidedLinks, Zenon
  <1> QED BY <1>1, <1>2, <1>3, ConsensusInvariant, PTL DEF Spec
=============================================================================
