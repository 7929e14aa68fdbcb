------------------------- MODULE BlockCacheDelivery -------------------------
(***************************************************************************)
(* The block cache loses no block and writes each after its previous one.  *)
(*                                                                         *)
(* With one pool thread the periods do not change while it validates, so   *)
(* what it pops is the block it validated (Single).  Blocks that count     *)
(* others arrive after them (Arrived), so validation refuses none.  In the *)
(* write queue a block follows its previous one (Linked): with one thread  *)
(* because the lists and the delegate's counter go by the sequence, with   *)
(* several because a block that has a previous one is validated.           *)
(***************************************************************************)
EXTENDS BlockCacheProofs

(* The provers a leaf is tried with, and their time in seconds *)
USE SMTT(30), ZenonT(30)

-----------------------------------------------------------------------------
(* One pool thread                                                         *)

(* What the one thread knows of the block it validates: it is still in     *)
(* front of its list, an epoch block with no micro block left before it.   *)
(* A validated block is queued, leaves _cached_blocks, and only then its   *)
(* list; an epoch block is validated after the request blocks of its epoch *)
(* are stored.  So no cached block is dropped.                             *)
Single(t) ==
    LET pc == thread[t].pc
        b == thread[t].block
    IN  /\ Holds(t) => \E i \in 1..Len(epochs) : AtFront(epochs[i], b) /\ (Kind[b] = "E" => epochs[i].mbs = <<>>)
        /\ pc \in {"verify", "depend", "rely"} => ~thread[t].success
        /\ pc = "delete" => thread[t].success /\ b \in Range(queue) \cup db
        /\ Holds(t) /\ thread[t].success /\ Kind[b] = "E" => RequestBlocks(Epoch[b]) \subseteq db
        /\ pc = "next" /\ b # None /\ thread[t].success => b \notin cached
        /\ \A x \in cached : x \in Range(queue) \cup db => pc = "delete" /\ x = b
        /\ \A x \in cached : x \in PendingIn(epochs) \/ (pc = "insert" /\ x = b)

Serial == Alone => \A t \in setting.threads : Single(t)

(* The one thread.                                                         *)
LEMMA AloneThread ==
    ASSUME Typed, Alone
    PROVE  \E t \in Threads : setting.threads = {t}
  <1>1. IsFiniteSet(setting.threads) /\ setting.threads \subseteq Threads
    BY BlocksAssumption, Zenon DEF Typed
  <1>2. \E t : setting.threads = {t}
    BY <1>1, FS_Singleton DEF Alone
  <1> QED BY <1>1, <1>2

(* The task after EndTask and Continue.                                    *)
LEMMA TaskFields ==
    ASSUME Typed, NEW t \in Threads
    PROVE  /\ EndTask(t) => thread'[t].pc = "idle"
           /\ \A pc, b : Continue(t, pc, b) => thread'[t].pc = pc /\ thread'[t].block = b /\ thread'[t].success = FALSE
  <1>1. thread \in [Threads -> Task]
    BY DEF Typed
  <1>2. Idle.pc = "idle"
    BY DEF Idle
  <1>3. ASSUME EndTask(t)
        PROVE  thread'[t].pc = "idle"
    BY <1>1, <1>2, <1>3 DEF EndTask
  <1>4. ASSUME NEW pc, NEW b, Continue(t, pc, b)
        PROVE  thread'[t].pc = pc /\ thread'[t].block = b /\ thread'[t].success = FALSE
    <2> DEFINE k == [Idle EXCEPT !.pc = pc, !.block = b, !.store = thread[t].store]
    <2>1. k.pc = pc /\ k.block = b /\ k.success = FALSE
      BY DEF Idle
    <2>2. thread' = [thread EXCEPT ![t] = k]
      BY <1>4 DEF Continue
    <2> HIDE DEF k
    <2>3. thread'[t] = k
      BY <1>1, <2>2
    <2> QED BY <2>1, <2>3
  <1> QED BY <1>3, <1>4, Zenon

(* The block the thread has validated is popped, with an epoch block its   *)
(* period too, and no cached block goes with it.                           *)
LEMMA PopKeepsCached ==
    ASSUME Typed, NEW t \in Threads, Single(t), thread[t].pc = "next", thread[t].block # None
    PROVE  LET b == thread[t].block
               i == PeriodIndex(Epoch[b])
           IN  /\ HasPeriod(Epoch[b]) /\ i \in 1..Len(epochs)
               /\ epochs[i].epoch_num = Epoch[b]
               /\ AtFront(epochs[i], b)
               /\ ~PopsNothing(i, b, thread[t].success)
               /\ cached \subseteq PendingIn(PopFront(i, b, thread[t].success))
  <1> DEFINE b == thread[t].block
             success == thread[t].success
             i == PeriodIndex(Epoch[b])
             e == PopFront(i, b, success)
  <1>1. setting \in Settings /\ GoodPeriods(epochs) /\ success \in BOOLEAN /\ b \in setting.blocks
    BY DEF Typed, Task
  <1>2. Holds(t)
    BY DEF Holds
  <1>3. PICK j \in 1..Len(epochs) : AtFront(epochs[j], b) /\ (Kind[b] = "E" => epochs[j].mbs = <<>>)
    BY <1>2, Zenon DEF Single
  <1>4. i = j /\ epochs[j].epoch_num = Epoch[b]
    BY <1>1, <1>3, PeriodFound, Zenon DEF AtFront
  <1>5. HasPeriod(Epoch[b])
    <2>1. DOMAIN epochs = 1..Len(epochs)
      BY <1>1 DEF GoodPeriods
    <2> QED BY <1>3, <1>4, <2>1 DEF HasPeriod
  <1> HIDE DEF i
  <1>6. ~PopsNothing(i, b, success)
    BY <1>3, <1>4, Zenon DEF PopsNothing, AtFront
  <1>7. \A x \in cached : x \in PendingIn(epochs) /\ x \notin Range(queue) \cup db
    BY Zenon DEF Single
  <1>8. CASE ~success
    BY <1>3, <1>4, <1>5, <1>6, <1>7, <1>8 DEF PopFront, i
  <1>9. CASE success
    <2>1. b \notin cached
      BY <1>9, Zenon DEF Single
    <2>2. PendingIn(epochs) \subseteq PendingIn(e) \cup {b} \cup (IF Kind[b] = "E" THEN BlocksOf(epochs[i]) ELSE {})
      BY <1>1, <1>3, <1>4, <1>6, <1>9, PopGood, Zenon
    <2>3. ASSUME Kind[b] = "E", NEW x \in BlocksOf(epochs[i])
          PROVE  x \notin cached
      <3>1. GoodPeriod(epochs[i]) /\ epochs[i].mbs = <<>> /\ epochs[i].eb = b
        BY <1>1, <1>3, <1>4, <2>3, Zenon DEF GoodPeriods, AtFront
      <3>2. RequestBlocks(Epoch[b]) \subseteq db
        BY <1>2, <1>9, <2>3, Zenon DEF Single
      <3>3. x = b \/ \E c \in Chains : x \in Range(epochs[i].rbs[c])
        BY <2>3, <3>1 DEF BlocksOf, Range
      <3>4. ASSUME NEW c \in Chains, x \in Range(epochs[i].rbs[c])
            PROVE  x \in RequestBlocks(Epoch[b])
        <4>1. GoodList(epochs[i].rbs[c], "R", epochs[i].epoch_num)
          BY <3>1, Zenon DEF GoodPeriod
        <4> DEFINE w == epochs[i].rbs[c]
        <4> HIDE DEF w
        <4>2. PICK k \in 1..Len(w) : x = w[k]
          BY <3>4, <4>1 DEF GoodList, Range, w
        <4>3. w \in Seq(setting.blocks) /\ Kind[w[k]] = "R" /\ Epoch[w[k]] = epochs[i].epoch_num
          BY <4>1, <4>2, Zenon DEF GoodList, w
        <4>4. w[k] \in setting.blocks
          BY <4>2, <4>3
        <4> QED BY <1>4, <4>2, <4>3, <4>4, Zenon DEF RequestBlocks
      <3> QED BY <1>7, <2>1, <3>2, <3>3, <3>4, Zenon
    <2>4. cached \subseteq PendingIn(e)
      BY <1>7, <2>1, <2>2, <2>3, Zenon
    <2> QED BY <1>3, <1>4, <1>5, <1>6, <2>4, Zenon DEF i
  <1> QED BY <1>1, <1>8, <1>9, Zenon

(* The block GetNextBlock returns is in front of its list, an epoch block  *)
(* with no micro block before it: also right after the last micro block,   *)
(* when the code does not look.                                            *)
LEMMA ReturnsFront ==
    ASSUME Typed, NEW t \in Threads, Single(t), GetNextBlock(t), NEW x, Continue(t, "verify", x)
    PROVE  \E j \in 1..Len(epochs') : AtFront(epochs'[j], x) /\ (Kind[x] = "E" => epochs'[j].mbs = <<>>)
  <1> DEFINE b == thread[t].block
             success == thread[t].success
             i == PeriodIndex(Epoch[b])
             e == PopFront(i, b, success)
  <1>1. setting \in Settings /\ GoodPeriods(epochs) /\ success \in BOOLEAN /\ b \in setting.blocks \cup {None}
    BY Zenon DEF Typed, Task
  <1>2. thread[t].pc = "next"
    BY DEF GetNextBlock
  <1>3. thread'[t].block = x /\ thread'[t].pc = "verify"
    BY TaskFields, Zenon
  <1>4. ASSUME NEW y, Continue(t, "verify", y)
        PROVE  y = x
    BY <1>3, <1>4, TaskFields, Zenon
  <1>5. \/ Chosen(epochs', x, locked \ {b})
        \/ /\ b # None /\ HasPeriod(Epoch[b]) /\ AtFront(epochs'[i], x) /\ Kind[b] = "M"
           /\ epochs[i].mbs = <<>> \/ (success /\ b \in LastMicro)
           /\ epochs' = e
    <2>1. thread' # thread /\ ~EndTask(t)
      BY <1>2, <1>3, TaskFields, Zenon
    <2> HIDE DEF b, success, i
    <2> QED BY <1>4, <2>1, GetNextBlockCases, Zenon DEF b, success, i
  <1>6. CASE Chosen(epochs', x, locked \ {b})
    BY <1>6, Zenon DEF Chosen
  <1>7. CASE /\ b # None /\ HasPeriod(Epoch[b]) /\ AtFront(epochs'[i], x) /\ Kind[b] = "M"
             /\ epochs[i].mbs = <<>> \/ (success /\ b \in LastMicro)
             /\ epochs' = e
    <2>1. i \in 1..Len(epochs) /\ epochs[i].epoch_num = Epoch[b] /\ AtFront(epochs[i], b) /\ ~PopsNothing(i, b, success)
      BY <1>2, <1>7, PopKeepsCached, Zenon
    <2> HIDE DEF i, e
    <2>2. epochs[i].mbs # <<>> /\ b = Head(epochs[i].mbs) /\ success /\ b \in LastMicro
      BY <1>7, <2>1, Zenon DEF AtFront
    <2>3. Len(e) = Len(epochs) /\ e[i].mbs = Tail(epochs[i].mbs)
      BY <1>1, <1>7, <2>1, <2>2, PopGood, ZenonT(30) DEF e
    <2>4. GoodList(epochs[i].mbs, "M", Epoch[b])
      BY <1>1, <2>1, Zenon DEF GoodPeriods, GoodPeriod
    <2> DEFINE w == Tail(epochs[i].mbs)
    <2>5. GoodList(w, "M", Epoch[b]) /\ \A y \in Range(w) : Sequence[b] < Sequence[y]
      BY <2>2, <2>4, TailGood, Zenon
    <2> HIDE DEF w
    <2>6. w = <<>>
      <3> SUFFICES ASSUME w # <<>>
                   PROVE  FALSE
        OBVIOUS
      <3>1. w \in Seq(setting.blocks) /\ 1 \in 1..Len(w) /\ w[1] \in setting.blocks
        BY <2>5 DEF GoodList
      <3>2. Kind[w[1]] = "M" /\ Epoch[w[1]] = Epoch[b] /\ w[1] \in Range(w)
        <4>1. DOMAIN w = 1..Len(w)
          BY <3>1
        <4> QED BY <2>5, <3>1, <4>1, Zenon DEF GoodList, Range
      <3>3. b \in setting.blocks
        BY <1>1, <1>7, Zenon
      <3>4. Sequence[w[1]] <= Sequence[b]
        BY <1>1, <1>7, <2>2, <3>1, <3>2, <3>3, NetworkAssumption, ZenonT(30)
      <3>5. Sequence[b] \in Nat /\ Sequence[w[1]] \in Nat
        BY <1>1, <3>1, <3>3, BlocksAssumption, Zenon
      <3> QED BY <2>5, <3>2, <3>4, <3>5
    <2> QED BY <1>7, <2>1, <2>3, <2>6, Zenon DEF w
  <1> QED BY <1>5, <1>6, <1>7, Zenon

(* A step after which the thread has no block in validation.               *)
LEMMA SingleQuiet ==
    ASSUME NEW t, Single(t), thread[t].pc \notin {"delete", "insert"}, ~Holds(t)',
           epochs' = epochs, cached' = cached, queue' = queue, db' = db,
           thread'[t].pc # "next" \/ thread'[t].block = None, thread'[t].pc # "insert"
    PROVE  Single(t)'
  <1>1. thread'[t].pc \notin Validating
    BY DEF Holds
  <1>2. \A x \in cached : x \notin Range(queue) \cup db /\ x \in PendingIn(epochs)
    BY Zenon DEF Single
  <1> QED BY <1>1, <1>2, Zenon DEF Single, Validating

(* A step that leaves the block in validation where it is.                 *)
LEMMA SingleHolds ==
    ASSUME NEW t, Single(t), Holds(t), setting' = setting, epochs' = epochs, cached' \subseteq cached, db' = db,
           thread'[t].block = thread[t].block, thread'[t].pc # "insert",
           thread'[t].pc \in {"verify", "depend", "rely"} => ~thread'[t].success,
           thread'[t].pc = "delete" => thread'[t].success /\ thread[t].block \in Range(queue') \cup db,
           thread'[t].success /\ Kind[thread[t].block] = "E" => RequestBlocks(Epoch[thread[t].block]) \subseteq db,
           thread'[t].pc = "next" /\ thread'[t].success => thread[t].block \notin cached',
           \A x \in cached' : x \in Range(queue') \cup db => thread'[t].pc = "delete" /\ x = thread[t].block
    PROVE  Single(t)'
  <1>1. thread[t].pc # "insert"
    BY Zenon DEF Holds, Validating
  <1>2. \A x \in cached' : x \in PendingIn(epochs)
    BY <1>1, Zenon DEF Single
  <1>3. \E i \in 1..Len(epochs) : AtFront(epochs[i], thread[t].block) /\ (Kind[thread[t].block] = "E" => epochs[i].mbs = <<>>)
    BY Zenon DEF Single
  <1>4. \A n : RequestBlocks(n)' = RequestBlocks(n)
    BY Zenon DEF RequestBlocks
  <1>5. /\ Holds(t)' => \E i \in 1..Len(epochs') : AtFront(epochs'[i], thread'[t].block)
                                                   /\ (Kind[thread'[t].block] = "E" => epochs'[i].mbs = <<>>)
        /\ (Holds(t) /\ thread[t].success /\ Kind[thread[t].block] = "E" => RequestBlocks(Epoch[thread[t].block]) \subseteq db)'
        /\ \A x \in cached' : x \in Range(queue') \cup db' => thread'[t].pc = "delete" /\ x = thread'[t].block
        /\ \A x \in cached' : x \in PendingIn(epochs')
        /\ thread'[t].pc = "delete" => thread'[t].block \in Range(queue') \cup db'
    BY <1>2, <1>3, <1>4, Zenon
  <1> QED BY <1>5, Zenon DEF Single

(* A step of the one thread, or of the others, which do not touch what it  *)
(* works on.                                                               *)
LEMMA SerialStep == Typed /\ Verified /\ Serial /\ [Next]_vars => Serial'
  <1> SUFFICES ASSUME Typed, Verified, Serial, [Next]_vars
               PROVE  Serial'
    OBVIOUS
  <1>0. setting' = setting
    BY ThreadStep, Zenon
  <1> SUFFICES ASSUME Alone
               PROVE  \A t \in setting.threads : Single(t)'
    BY <1>0 DEF Serial, Alone
  <1>1. PICK t \in Threads : setting.threads = {t}
    BY AloneThread
  <1>2. Single(t) /\ setting' = setting /\ setting \in Settings /\ thread \in [Threads -> Task] /\ thread[t] \in Task
    BY <1>0, <1>1, Zenon DEF Serial, Typed
  <1> SUFFICES Single(t)'
    BY <1>1
  <1>3. ASSUME UNCHANGED <<thread, epochs, cached>>, Range(queue') \cup db' = Range(queue) \cup db, db \subseteq db'
        PROVE  Single(t)'
    <2>1. \A n : RequestBlocks(n)' = RequestBlocks(n)
      BY <1>2 DEF RequestBlocks
    <2>2. /\ Holds(t)' <=> Holds(t)
          /\ Holds(t) /\ thread[t].success /\ Kind[thread[t].block] = "E" => RequestBlocks(Epoch[thread[t].block])' \subseteq db'
          /\ \A x \in cached' : x \in Range(queue') \cup db' => thread[t].pc = "delete" /\ x = thread[t].block
      BY <1>2, <1>3, <2>1, Zenon DEF Single, Holds
    <2> QED BY <1>2, <1>3, <2>2, Zenon DEF Single
  <1>4. CASE UNCHANGED vars \/ \E b \in setting.blocks : OnPostCommittedBlock(b)
    BY <1>3, <1>4, Zenon DEF vars, OnPostCommittedBlock
  <1>5. CASE WriteThread
    <2>1. queue # <<>> => Range(queue) = Range(Tail(queue)) \cup {Head(queue)}
      BY QueueRange, Zenon DEF Typed
    <2>2. UNCHANGED <<thread, epochs, cached>> /\ queue # <<>>
          /\ (UNCHANGED <<db, queue>> \/ (db' = db \cup {Head(queue)} /\ queue' = Tail(queue)))
      BY <1>5 DEF WriteThread
    <2> QED BY <1>3, <2>1, <2>2, Zenon
  <1>6. ASSUME NEW b \in setting.blocks, Receive(t, b) \/ OnPostCommit(t, b) \/ ProcessDependencies(t, b)
        PROVE  Single(t)'
    <2>1. thread[t].pc = "idle" /\ UNCHANGED <<epochs, cached, queue, db>>
      BY <1>6 DEF Receive, OnPostCommit, ProcessDependencies
    <2>2. thread'[t].pc \in {"admit", "clear"}
      <3>1. CASE Receive(t, b)
        BY <3>1, TaskFields, Zenon DEF Receive
      <3>2. CASE OnPostCommit(t, b)
        <4> DEFINE k == [Idle EXCEPT !.pc = "admit", !.block = b, !.store = b]
        <4>1. k.pc = "admit"
          BY DEF Idle
        <4>2. thread' = [thread EXCEPT ![t] = k]
          BY <3>2 DEF OnPostCommit
        <4> HIDE DEF k
        <4> QED BY <1>2, <4>1, <4>2
      <3>3. CASE ProcessDependencies(t, b)
        <4> DEFINE k == [Idle EXCEPT !.pc = "clear", !.todo = <<b>> \o Content[b]]
        <4>1. k.pc = "clear"
          BY DEF Idle
        <4>2. thread' = [thread EXCEPT ![t] = k]
          BY <3>3 DEF ProcessDependencies
        <4> HIDE DEF k
        <4> QED BY <1>2, <4>1, <4>2
      <3> QED BY <1>6, <3>1, <3>2, <3>3
    <2> QED BY <1>2, <2>1, <2>2, SingleQuiet DEF Holds, Validating
  <1>7. CASE Admit(t)
    <2>1. thread[t].pc = "admit" /\ UNCHANGED <<epochs, queue, db>>
      BY <1>7 DEF Admit
    <2>2. CASE EndTask(t) /\ UNCHANGED cached
      <3>1. thread'[t].pc = "idle"
        BY <2>2, TaskFields, Zenon
      <3> QED BY <1>2, <2>1, <2>2, <3>1, SingleQuiet DEF Holds, Validating
    <2>3. CASE Continue(t, "insert", thread[t].block) /\ cached' = cached \cup {thread[t].block} /\ ~BlockExists(thread[t].block)
      <3>1. thread'[t].pc = "insert" /\ thread'[t].block = thread[t].block
        BY <2>3, TaskFields, Zenon
      <3>2. \A x \in cached' : x = thread[t].block \/ x \in PendingIn(epochs)
        BY <1>2, <2>1, <2>3, Zenon DEF Single
      <3>3. \A x \in cached' : x \notin Range(queue) \cup db
        BY <1>2, <2>1, <2>3, Zenon DEF Single, BlockExists
      <3> QED BY <2>1, <3>1, <3>2, <3>3, Zenon DEF Single, Holds, Validating
    <2> QED BY <1>7, <2>2, <2>3 DEF Admit
  <1>8. CASE Insert(t)
    <2>1. thread[t].pc = "insert" /\ UNCHANGED <<cached, queue, db>>
      BY <1>8, Zenon DEF Insert
    <2>2. thread'[t].pc = "idle" \/ (thread'[t].pc = "next" /\ thread'[t].block = None)
      <3>1. EndTask(t) \/ Continue(t, "next", None)
        BY <1>8, Zenon DEF Insert
      <3> QED BY <3>1, TaskFields, Zenon
    <2>3. PendingIn(epochs') = PendingIn(epochs) \cup {thread[t].block}
      BY <1>8, InsertGood
    <2>4. \A x \in cached : x \notin Range(queue) \cup db /\ x \in PendingIn(epochs')
      BY <1>2, <2>1, <2>3, Zenon DEF Single
    <2> QED BY <2>1, <2>2, <2>4, Zenon DEF Single, Holds, Validating

  <1>9. CASE GetNextBlock(t)
    <2> DEFINE b == thread[t].block
               success == thread[t].success
               i == PeriodIndex(Epoch[b])
    <2>1. thread[t].pc = "next" /\ UNCHANGED <<cached, queue, db>>
      BY <1>9 DEF GetNextBlock
    <2>2. \A x \in cached : x \notin Range(queue) \cup db /\ x \in PendingIn(epochs)
      BY <1>2, <2>1, Zenon DEF Single
    <2>3. \/ UNCHANGED <<epochs, thread>>
          \/ /\ IF b = None \/ ~HasPeriod(Epoch[b]) THEN epochs' = epochs ELSE epochs' = PopFront(i, b, success)
             /\ EndTask(t) \/ \E x \in setting.blocks : Continue(t, "verify", x)
      BY <1>9, GetNextBlockCases, Zenon
    <2>4. CASE UNCHANGED <<epochs, thread>>
      BY <1>3, <2>1, <2>4, ZenonT(30)
    <2>5. ASSUME IF b = None \/ ~HasPeriod(Epoch[b]) THEN epochs' = epochs ELSE epochs' = PopFront(i, b, success)
          PROVE  cached \subseteq PendingIn(epochs')
      BY <1>2, <2>1, <2>2, <2>5, PopKeepsCached
    <2>6. ASSUME EndTask(t), cached \subseteq PendingIn(epochs')
          PROVE  Single(t)'
      <3>1. thread'[t].pc = "idle"
        BY <2>6, TaskFields, ZenonT(30)
      <3> QED BY <2>1, <2>2, <2>6, <3>1 DEF Single, Holds, Validating
    <2>7. ASSUME NEW x \in setting.blocks, Continue(t, "verify", x), cached \subseteq PendingIn(epochs')
          PROVE  Single(t)'
      <3>1. thread'[t].pc = "verify" /\ thread'[t].block = x /\ thread'[t].success = FALSE
        BY <2>7, TaskFields, Zenon
      <3>2. \E j \in 1..Len(epochs') : AtFront(epochs'[j], x) /\ (Kind[x] = "E" => epochs'[j].mbs = <<>>)
        BY <1>2, <1>9, <2>7, ReturnsFront, Zenon
      <3> QED BY <2>1, <2>2, <2>7, <3>1, <3>2 DEF Single, Holds, Validating
    <2> HIDE DEF b, success, i
    <2> QED BY <2>3, <2>4, <2>5, <2>6, <2>7, ZenonT(30)
  <1>10. CASE Verify(t)
    <2> DEFINE b == thread[t].block
    <2>1. /\ thread[t].pc = "verify" /\ UNCHANGED <<epochs, cached, db>>
          /\ \/ UNCHANGED <<queue, thread>>
             \/ /\ b \in direct \/ (Missing(b) = {} /\ ~Refused(b))
                /\ queue' = Append(queue, b)
                /\ thread' = [thread EXCEPT ![t].pc = "delete", ![t].success = TRUE, ![t].todo = <<>>]
             \/ /\ UNCHANGED queue
                /\ \E todo : thread' = [thread EXCEPT ![t].pc = "depend", ![t].success = FALSE, ![t].todo = todo]
      BY <1>10 DEF Verify
    <2>2. Holds(t) /\ b \in setting.blocks
      BY <1>2, <2>1 DEF Holds, Validating, Typed, Task
    <2>3. \A x \in cached : x \notin Range(queue) \cup db
      BY <1>2, <2>1 DEF Single
    <2>4. CASE UNCHANGED <<queue, thread>>
      BY <1>3, <2>1, <2>4
    <2>5. ASSUME b \in direct \/ (Missing(b) = {} /\ ~Refused(b)), queue' = Append(queue, b),
                 thread' = [thread EXCEPT ![t].pc = "delete", ![t].success = TRUE, ![t].todo = <<>>]
          PROVE  Single(t)'
      <3>1. thread'[t].pc = "delete" /\ thread'[t].success /\ thread'[t].block = b
        BY <1>2, <2>5 DEF Task
      <3>2. Range(queue') = Range(queue) \cup {b}
        BY <2>2, <2>5, QueueRange DEF Typed
      <3>3. Kind[b] = "E" => RequestBlocks(Epoch[b]) \subseteq db
        <4>1. CASE b \in direct
          <5>1. b # None
            BY <1>2, <2>2, BlocksAssumption
          <5> QED BY <4>1, <5>1 DEF Verified, Accepted, Backed
        <4>2. CASE Missing(b) = {} /\ ~Refused(b)
          BY <4>2 DEF Missing, Refused
        <4> QED BY <2>5, <4>1, <4>2
      <3>4. \A x \in cached' : x \in Range(queue') \cup db => x = b
        BY <2>1, <2>3, <3>2
      <3>5. b \in Range(queue')
        BY <3>2
      <3> QED BY <1>2, <2>1, <2>2, <3>1, <3>3, <3>4, <3>5, SingleHolds, ZenonT(30)
    <2>6. ASSUME UNCHANGED queue, NEW todo,
                 thread' = [thread EXCEPT ![t].pc = "depend", ![t].success = FALSE, ![t].todo = todo]
          PROVE  Single(t)'
      <3>1. thread'[t].pc = "depend" /\ thread'[t].success = FALSE /\ thread'[t].block = b
        BY <1>2, <2>6 DEF Task
      <3> QED BY <1>2, <2>1, <2>2, <2>3, <2>6, <3>1, SingleHolds, ZenonT(30)
    <2> QED BY <2>1, <2>4, <2>5, <2>6, ZenonT(30)
  <1>11. CASE BlockDelete(t)
    <2>1. /\ thread[t].pc = "delete" /\ cached' = cached \ {thread[t].block} /\ UNCHANGED <<epochs, queue, db>>
          /\ thread' = [thread EXCEPT ![t].pc = "next"]
      BY <1>11 DEF BlockDelete
    <2>2. thread'[t].pc = "next" /\ thread'[t].block = thread[t].block /\ thread'[t].success = thread[t].success
      BY <1>2, <2>1 DEF Task
    <2>3. Holds(t) /\ thread[t].success
      BY <1>2, <2>1 DEF Holds, Validating, Single
    <2>4. Kind[thread[t].block] = "E" => RequestBlocks(Epoch[thread[t].block]) \subseteq db
      BY <1>2, <2>3 DEF Single
    <2>5. \A x \in cached' : x \notin Range(queue') \cup db
      BY <1>2, <2>1 DEF Single
    <2> QED BY <1>2, <2>1, <2>2, <2>3, <2>4, <2>5, SingleHolds, ZenonT(30)
  <1>12. CASE AddHashDependency(t) \/ AddReliance(t)
    <2>1. thread[t].pc \in {"depend", "rely"} /\ UNCHANGED <<epochs, cached, queue, db>>
      BY <1>12 DEF AddHashDependency, AddReliance
    <2>2. \/ \E pc \in {"rely"} : thread' = [thread EXCEPT ![t].pc = pc]
          \/ \E pc \in {"next", "depend"} : \E todo : thread' = [thread EXCEPT ![t].todo = todo, ![t].pc = pc]
      BY <1>2, <1>12, Zenon DEF AddHashDependency, AddReliance, NextDependency
    <2>3. /\ thread'[t].pc \in {"rely", "next", "depend"}
          /\ thread'[t].block = thread[t].block /\ thread'[t].success = thread[t].success
      <3>1. CASE \E pc \in {"rely"} : thread' = [thread EXCEPT ![t].pc = pc]
        BY <1>2, <3>1 DEF Task
      <3>2. CASE \E pc \in {"next", "depend"} : \E todo : thread' = [thread EXCEPT ![t].todo = todo, ![t].pc = pc]
        BY <1>2, <3>2 DEF Task
      <3> QED BY <2>2, <3>1, <3>2, Zenon
    <2>4. Holds(t) /\ ~thread[t].success /\ \A x \in cached : x \notin Range(queue) \cup db
      BY <1>2, <2>1 DEF Holds, Validating, Single
    <2> QED BY <1>2, <2>1, <2>3, <2>4, SingleHolds
  <1>13. CASE DeleteHashDependencies(t) \/ MarkForRevalidation(t)
    <2>1. thread[t].pc \in {"clear", "mark"} /\ UNCHANGED <<epochs, cached, queue, db>>
      BY <1>13, Zenon DEF DeleteHashDependencies, MarkForRevalidation
    <2>2. (\E found : NextHash(t, found)) \/ \E waiters : thread' = [thread EXCEPT ![t].pc = "mark", ![t].waiters = waiters]
      BY <1>13, Zenon DEF DeleteHashDependencies, MarkForRevalidation
    <2>3. ASSUME NEW found, NextHash(t, found)
          PROVE  thread'[t].pc \in {"idle", "clear"} \/ (thread'[t].pc = "next" /\ thread'[t].block = None)
      <3>1. \/ EndTask(t) \/ Continue(t, "next", None)
            \/ \E todo : thread' = [thread EXCEPT ![t].pc = "clear", ![t].todo = todo, ![t].found = found, ![t].waiters = {}]
        BY <1>2, <2>3, Zenon DEF NextHash
      <3>2. ASSUME NEW todo,
                   thread' = [thread EXCEPT ![t].pc = "clear", ![t].todo = todo, ![t].found = found, ![t].waiters = {}]
            PROVE  thread'[t].pc = "clear"
        BY <1>2, <3>2 DEF Task
      <3> QED BY <3>1, <3>2, TaskFields, Zenon
    <2>4. ASSUME NEW waiters, thread' = [thread EXCEPT ![t].pc = "mark", ![t].waiters = waiters]
          PROVE  thread'[t].pc = "mark"
      BY <1>2, <2>4 DEF Task
    <2>5. thread'[t].pc \in {"idle", "clear", "mark"} \/ (thread'[t].pc = "next" /\ thread'[t].block = None)
      BY <2>2, <2>3, <2>4
    <2> QED BY <1>2, <2>1, <2>5, SingleQuiet DEF Holds, Validating
  <1> QED BY <1>1, <1>4, <1>5, <1>6, <1>7, <1>8, <1>9, <1>10, <1>11, <1>12, <1>13, ZenonT(30) DEF Next, Running, Step

(* What is pending, as BlockCache has it.                                  *)
LEMMA PendingIs ==
    ASSUME GoodPeriods(epochs)
    PROVE  Pending = PendingIn(epochs) \ {None}
  <1>1. DOMAIN epochs = 1..Len(epochs)
    BY DEF GoodPeriods
  <1>2. Range(epochs) = {epochs[i] : i \in 1..Len(epochs)}
    BY <1>1 DEF Range
  <1>3. \A x : x \in PendingIn(epochs) => \E p \in Range(epochs) : x \in BlocksOf(p)
    BY <1>2 DEF PendingIn
  <1>4. \A x : (\E p \in Range(epochs) : x \in BlocksOf(p)) => x \in PendingIn(epochs)
    BY <1>2 DEF PendingIn
  <1>5. \A x : x # None => (x \in Pending <=> \E p \in Range(epochs) : x \in BlocksOf(p))
    BY DEF Pending, BlocksOf
  <1>6. None \notin Pending
    BY DEF Pending
  <1>7. \A x : x \in Pending <=> x \in PendingIn(epochs) \ {None}
    BY <1>3, <1>4, <1>5, <1>6
  <1> QED BY <1>7

(* With one pool thread a cached block is never lost, whatever blocks come *)
(* and in whatever order.                                                  *)
THEOREM CacheNothingLost == Spec => []NothingLost
  <1> DEFINE Inv == Typed /\ Verified /\ Serial
  <1>1. Init => Inv
    <2> SUFFICES ASSUME Init
                 PROVE  Serial
      BY InitGood
    <2>1. Typed /\ cached = {}
      BY InitGood DEF Init
    <2>2. setting.threads \subseteq Threads /\ Idle.pc = "idle"
      BY <2>1, BlocksAssumption DEF Typed, Idle
    <2>3. \A t \in setting.threads : thread[t].pc = "idle"
      BY <2>2 DEF Init
    <2> QED BY <2>1, <2>3 DEF Serial, Single, Holds, Validating
  <1>2. Inv /\ [Next]_vars => Inv'
    BY TypedStep, VerifiedStep, SerialStep
  <1>3. Inv => NothingLost
    <2> SUFFICES ASSUME Inv, Alone, NEW b \in cached
                 PROVE  b \in Pending \/ \E t \in Threads : thread[t].block = b
      BY DEF NothingLost
    <2>1. b # None
      BY BlocksAssumption DEF Typed
    <2>2. PICK t \in Threads : setting.threads = {t}
      BY AloneThread
    <2>3. b \in PendingIn(epochs) \/ b = thread[t].block
      BY <2>2 DEF Serial, Single
    <2> QED BY <2>1, <2>3, PendingIs DEF Typed
  <1> QED BY <1>1, <1>2, <1>3, PTL DEF Spec

-----------------------------------------------------------------------------
(* The node keeps running                                                  *)

(* An epoch block reaches a node after the request blocks of its epoch are *)
(* stored there, a micro block after the epoch block before its epoch.     *)
ArrivalOrder ==
    \A s \in Settings : \A a, b \in s.blocks :
        \/ Kind[a] = "R" /\ Kind[b] = "E" /\ Epoch[a] = Epoch[b]
        \/ Kind[a] = "E" /\ Kind[b] = "M" /\ Epoch[a] + 1 = Epoch[b]
        => a \in ArrivesAfter[b]

(* A delegate with several pool threads agrees on no block but the first   *)
(* of a chain.  A node that is not a delegate agrees on none.              *)
AgreesAloneOrFirst == \A s \in Settings : Cardinality(s.threads) = 1 \/ \A b \in s.consensus : Previous[b] = None

(* Validation will not refuse b.                                           *)
Timely(b) ==
    /\ Kind[b] = "E" => RequestBlocks(Epoch[b]) \subseteq db
    /\ Kind[b] = "M" => \A x \in setting.blocks : Kind[x] = "E" /\ Epoch[x] + 1 = Epoch[b] => x \in db

Arrived == \A b \in (PendingIn(epochs) \cup {thread[t].block : t \in Threads}) \ {None} : Timely(b)

Known == db \cup Range(queue) \cup cached

Agreed == (direct \cup {thread[t].store : t \in Threads}) \ {None}

(* The one thread has taken in what the backup delegates have advanced     *)
(* past, and the previous block of what was agreed on.                     *)
Follows(t) ==
    /\ \A x \in (passed \cup sink \cup {thread[t].store}) \ {None} :
          x \in Known \/ (thread[t].pc = "admit" /\ x = thread[t].block)
    /\ \A b \in Agreed : Previous[b] \in Known \cup {None}

(* The block at position k of the queue finds its previous block stored    *)
(* when it is written.                                                     *)
LinkedAt(k) ==
    \/ Previous[queue[k]] = None
    \/ Previous[queue[k]] \in db
    \/ \E j \in 1..(k - 1) : queue[j] = Previous[queue[k]]

Linked ==
    /\ \A b \in Agreed : b \in setting.consensus /\ (Kind[b] # "R" => ~MissingPrevious(b))
    /\ Alone => \A t \in setting.threads : Follows(t)
    /\ \A k \in 1..Len(queue) : LinkedAt(k)

(* What is in front is pending.                                            *)
LEMMA FrontPending ==
    ASSUME setting \in Settings, NEW e, GoodPeriods(e), NEW j \in 1..Len(e), NEW x \in setting.blocks, AtFront(e[j], x)
    PROVE  x \in PendingIn(e)
  <1>1. GoodPeriod(e[j]) /\ x # None /\ Kind[x] \in {"R", "M", "E"} /\ (Kind[x] = "R" => Chain[x] \in Chains)
    BY BlocksAssumption DEF GoodPeriods
  <1>2. \A s, k, n : GoodList(s, k, n) /\ s # <<>> => Head(s) \in Range(s)
    BY TailGood, Zenon
  <1>3. x \in BlocksOf(e[j])
    BY <1>1, <1>2 DEF AtFront, BlocksOf, GoodPeriod
  <1> QED BY <1>3 DEF PendingIn

(* What is pending was in the hands of a thread, and the block of a task   *)
(* was pending or has just arrived.                                        *)
LEMMA BlockStep ==
    ASSUME Typed, [Next]_vars
    PROVE  /\ PendingIn(epochs') \subseteq PendingIn(epochs) \cup {thread[t].block : t \in Threads}
           /\ \A u \in Threads : \/ thread'[u].block \in {thread[u].block, None} \cup PendingIn(epochs)
                                 \/ \E b \in setting.blocks : (Receive(u, b) \/ OnPostCommit(u, b)) /\ thread'[u].block = b
  <1> DEFINE Goal == /\ PendingIn(epochs') \subseteq PendingIn(epochs) \cup {thread[t].block : t \in Threads}
                     /\ \A u \in Threads : \/ thread'[u].block \in {thread[u].block, None} \cup PendingIn(epochs)
                                           \/ \E b \in setting.blocks : (Receive(u, b) \/ OnPostCommit(u, b)) /\ thread'[u].block = b
  <1>1. /\ setting \in Settings /\ GoodPeriods(epochs)
        /\ setting.threads \subseteq Threads /\ thread \in [Threads -> Task]
    BY BlocksAssumption DEF Typed
  <1>2. CASE UNCHANGED <<epochs, thread>>
    BY <1>2
  <1>3. ASSUME NEW t \in setting.threads, epochs' = epochs,
               \A u \in Threads : u # t => thread'[u] = thread[u],
               thread'[t].block \in {thread[t].block, None}
        PROVE  Goal
    BY <1>3
  <1>4. ASSUME NEW t \in Threads, NEW k, thread' = [thread EXCEPT ![t] = k]
        PROVE  \A u \in Threads : u # t => thread'[u] = thread[u]
    BY <1>1, <1>4
  <1>5. \A t \in Threads : EndTask(t) => thread'[t].block = None /\ \A u \in Threads : u # t => thread'[u] = thread[u]
    <2>1. Idle.block = None
      BY DEF Idle
    <2> QED BY <1>1, <2>1 DEF EndTask
  <1>6. ASSUME NEW t \in Threads, NEW pc, NEW b, Continue(t, pc, b)
        PROVE  thread'[t].block = b /\ \A u \in Threads : u # t => thread'[u] = thread[u]
    <2>1. thread'[t].block = b
      BY <1>6, TaskFields, Zenon
    <2> QED BY <1>4, <1>6, <2>1 DEF Continue
  <1>7. ASSUME NEW t \in setting.threads, Admit(t)
        PROVE  Goal
    <2>1. epochs' = epochs /\ (EndTask(t) \/ Continue(t, "insert", thread[t].block))
      BY <1>7 DEF Admit
    <2> QED BY <1>1, <1>3, <1>5, <1>6, <2>1, ZenonT(30)
  <1>8. ASSUME NEW t \in setting.threads, Insert(t)
        PROVE  Goal
    <2>1. EndTask(t) \/ Continue(t, "next", None)
      BY <1>8 DEF Insert
    <2>2. PendingIn(epochs') = PendingIn(epochs) \cup {thread[t].block}
      BY <1>1, <1>8, InsertGood
    <2>3. thread'[t].block = None /\ \A u \in Threads : u # t => thread'[u] = thread[u]
      BY <1>1, <1>5, <1>6, <2>1
    <2> QED BY <1>1, <2>2, <2>3, ZenonT(30)
  <1>9. ASSUME NEW t \in setting.threads, GetNextBlock(t)
        PROVE  Goal
    <2> DEFINE b == thread[t].block
               success == thread[t].success
               i == PeriodIndex(Epoch[b])
    <2>1. t \in Threads /\ b \in setting.blocks \cup {None} /\ success \in BOOLEAN
      BY <1>1 DEF Task
    <2>2. \/ UNCHANGED <<epochs, thread>>
          \/ /\ GoodPeriods(epochs')
             /\ IF b = None \/ ~HasPeriod(Epoch[b]) THEN epochs' = epochs
                ELSE ~PopsNothing(i, b, success) /\ epochs' = PopFront(i, b, success)
             /\ \/ EndTask(t)
                \/ \E x \in setting.blocks :
                      /\ Continue(t, "verify", x)
                      /\ \/ Chosen(epochs', x, locked \ {b})
                         \/ b # None /\ HasPeriod(Epoch[b]) /\ AtFront(epochs'[i], x) /\ Kind[b] = "M"
      BY <1>9, <2>1, GetNextBlockCases, Zenon
    <2>3. ASSUME b # None, HasPeriod(Epoch[b])
          PROVE  i \in 1..Len(epochs) /\ epochs[i].epoch_num = Epoch[b]
      <3>1. DOMAIN epochs = 1..Len(epochs)
        BY <1>1 DEF GoodPeriods
      <3>2. PICK j \in 1..Len(epochs) : epochs[j].epoch_num = Epoch[b]
        BY <2>3, <3>1 DEF HasPeriod
      <3> QED BY <1>1, <3>2, PeriodFound
    <2> HIDE DEF i
    <2>4. ASSUME b # None, HasPeriod(Epoch[b]), ~PopsNothing(i, b, success), epochs' = PopFront(i, b, success)
          PROVE  PendingIn(epochs') \subseteq PendingIn(epochs) /\ (Kind[b] = "M" => i \in 1..Len(epochs'))
      BY <1>1, <2>1, <2>3, <2>4, PopGood
    <2>5. CASE UNCHANGED <<epochs, thread>>
      BY <1>2, <2>5
    <2>6. ASSUME IF b = None \/ ~HasPeriod(Epoch[b]) THEN epochs' = epochs
                 ELSE ~PopsNothing(i, b, success) /\ epochs' = PopFront(i, b, success)
          PROVE  PendingIn(epochs') \subseteq PendingIn(epochs)
      BY <2>4, <2>6, Zenon
    <2>7. ASSUME GoodPeriods(epochs'), NEW x \in setting.blocks, Continue(t, "verify", x),
                 IF b = None \/ ~HasPeriod(Epoch[b]) THEN epochs' = epochs
                 ELSE ~PopsNothing(i, b, success) /\ epochs' = PopFront(i, b, success),
                 \/ Chosen(epochs', x, locked \ {b})
                 \/ b # None /\ HasPeriod(Epoch[b]) /\ AtFront(epochs'[i], x) /\ Kind[b] = "M"
          PROVE  x \in PendingIn(epochs')
      <3>1. \E j \in 1..Len(epochs') : AtFront(epochs'[j], x)
        BY <2>4, <2>7, Zenon DEF Chosen
      <3> QED BY <1>1, <2>7, <3>1, FrontPending, Zenon
    <2>8. CASE /\ PendingIn(epochs') \subseteq PendingIn(epochs)
               /\ EndTask(t) \/ \E x \in PendingIn(epochs') : Continue(t, "verify", x)
      <3>1. /\ \A u \in Threads : u # t => thread'[u] = thread[u]
            /\ thread'[t].block = None \/ thread'[t].block \in PendingIn(epochs)
        BY <1>5, <1>6, <2>1, <2>8, Zenon
      <3> QED BY <2>8, <3>1
    <2> QED BY <2>2, <2>5, <2>6, <2>7, <2>8, Zenon

  <1>10. ASSUME NEW t \in setting.threads, Verify(t) \/ BlockDelete(t) \/ AddHashDependency(t) \/ AddReliance(t)
         PROVE  Goal
    <2>1. t \in Threads /\ thread[t] \in Task /\ epochs' = epochs
      BY <1>1, <1>10 DEF Verify, BlockDelete, AddHashDependency, AddReliance
    <2>2. \/ UNCHANGED thread
          \/ \E pc, success, todo : thread' = [thread EXCEPT ![t].pc = pc, ![t].success = success, ![t].todo = todo]
          \/ \E pc : thread' = [thread EXCEPT ![t].pc = pc]
          \/ \E pc, todo : thread' = [thread EXCEPT ![t].todo = todo, ![t].pc = pc]
      <3>1. ASSUME Verify(t)
            PROVE  UNCHANGED thread
                   \/ \E pc, success, todo : thread' = [thread EXCEPT ![t].pc = pc, ![t].success = success, ![t].todo = todo]
        BY <3>1, Zenon DEF Verify
      <3>2. CASE BlockDelete(t) \/ AddHashDependency(t) \/ AddReliance(t)
        BY <1>1, <2>1, <3>2, Zenon DEF BlockDelete, AddHashDependency, AddReliance, NextDependency
      <3> QED BY <1>10, <3>1, <3>2, Zenon
    <2>3. \A u \in Threads : u # t => thread'[u] = thread[u]
      BY <1>1, <2>1, <2>2, Zenon
    <2>4. ASSUME NEW pc, NEW success, NEW todo,
                 thread' = [thread EXCEPT ![t].pc = pc, ![t].success = success, ![t].todo = todo]
          PROVE  thread'[t].block = thread[t].block
      BY <1>1, <2>1, <2>4 DEF Task
    <2>5. ASSUME NEW pc, thread' = [thread EXCEPT ![t].pc = pc]
          PROVE  thread'[t].block = thread[t].block
      BY <1>1, <2>1, <2>5 DEF Task
    <2>6. ASSUME NEW pc, NEW todo, thread' = [thread EXCEPT ![t].todo = todo, ![t].pc = pc]
          PROVE  thread'[t].block = thread[t].block
      BY <1>1, <2>1, <2>6 DEF Task
    <2>7. ASSUME UNCHANGED thread
          PROVE  thread'[t].block = thread[t].block
      BY <2>7
    <2>8. thread'[t].block = thread[t].block
      BY <2>2, <2>4, <2>5, <2>6, <2>7, Zenon
    <2> QED BY <1>3, <2>1, <2>3, <2>8, ZenonT(30)
  <1>11. ASSUME NEW t \in setting.threads, DeleteHashDependencies(t) \/ MarkForRevalidation(t)
         PROVE  Goal
    <2>1. t \in Threads /\ thread[t] \in Task /\ epochs' = epochs
      BY <1>1, <1>11, Zenon DEF DeleteHashDependencies, MarkForRevalidation
    <2>2. (\E found : NextHash(t, found)) \/ \E waiters : thread' = [thread EXCEPT ![t].pc = "mark", ![t].waiters = waiters]
      BY <1>11, Zenon DEF DeleteHashDependencies, MarkForRevalidation
    <2>3. ASSUME NEW found, NextHash(t, found)
          PROVE  \/ EndTask(t) \/ Continue(t, "next", None)
                 \/ \E todo : thread' = [thread EXCEPT ![t].pc = "clear", ![t].todo = todo, ![t].found = found, ![t].waiters = {}]
      BY <1>1, <2>1, <2>3, Zenon DEF NextHash
    <2>4. ASSUME NEW todo, NEW found,
                 thread' = [thread EXCEPT ![t].pc = "clear", ![t].todo = todo, ![t].found = found, ![t].waiters = {}]
          PROVE  thread'[t].block = thread[t].block /\ \A u \in Threads : u # t => thread'[u] = thread[u]
      BY <1>1, <2>1, <2>4 DEF Task
    <2>5. ASSUME NEW waiters, thread' = [thread EXCEPT ![t].pc = "mark", ![t].waiters = waiters]
          PROVE  thread'[t].block = thread[t].block /\ \A u \in Threads : u # t => thread'[u] = thread[u]
      BY <1>1, <2>1, <2>5 DEF Task
    <2> HIDE DEF Goal
    <2>6. CASE EndTask(t)
      BY <1>3, <1>5, <2>1, <2>6, Zenon
    <2>7. CASE Continue(t, "next", None)
      <3>1. thread'[t].block = None /\ \A u \in Threads : u # t => thread'[u] = thread[u]
        BY <1>6, <2>1, <2>7
      <3> QED BY <1>3, <2>1, <3>1
    <2>8. CASE thread'[t].block = thread[t].block /\ \A u \in Threads : u # t => thread'[u] = thread[u]
      BY <1>3, <2>1, <2>8, ZenonT(30)
    <2> QED BY <2>2, <2>3, <2>4, <2>5, <2>6, <2>7, <2>8, ZenonT(30)
  <1>12. ASSUME NEW t \in setting.threads, NEW b \in setting.blocks,
                Receive(t, b) \/ OnPostCommit(t, b) \/ ProcessDependencies(t, b)
         PROVE  Goal
    <2>1. t \in Threads /\ epochs' = epochs
      BY <1>1, <1>12 DEF Receive, OnPostCommit, ProcessDependencies
    <2>2. CASE Receive(t, b)
      <3>1. Continue(t, "admit", b)
        BY <2>2 DEF Receive
      <3>2. thread'[t].block = b /\ \A u \in Threads : u # t => thread'[u] = thread[u]
        BY <1>6, <2>1, <3>1, Zenon
      <3> QED BY <2>1, <2>2, <3>2, Zenon
    <2>3. CASE OnPostCommit(t, b)
      <3> DEFINE k == [Idle EXCEPT !.pc = "admit", !.block = b, !.store = b]
      <3>1. k.block = b
        BY DEF Idle
      <3>2. thread' = [thread EXCEPT ![t] = k]
        BY <2>3 DEF OnPostCommit
      <3> HIDE DEF k
      <3>3. thread'[t].block = b /\ \A u \in Threads : u # t => thread'[u] = thread[u]
        BY <1>1, <2>1, <3>1, <3>2, Zenon
      <3> QED BY <2>1, <2>3, <3>3
    <2>4. CASE ProcessDependencies(t, b)
      <3> DEFINE k == [Idle EXCEPT !.pc = "clear", !.todo = <<b>> \o Content[b]]
      <3>1. k.block = None
        BY DEF Idle
      <3>2. thread' = [thread EXCEPT ![t] = k]
        BY <2>4 DEF ProcessDependencies
      <3> HIDE DEF k
      <3>3. thread'[t].block = None /\ \A u \in Threads : u # t => thread'[u] = thread[u]
        BY <1>1, <2>1, <3>1, <3>2, Zenon
      <3> QED BY <2>1, <3>3
    <2> QED BY <1>12, <2>2, <2>3, <2>4
  <1>13. ASSUME UNCHANGED vars \/ WriteThread \/ \E b \in setting.blocks : OnPostCommittedBlock(b)
         PROVE  Goal
    BY <1>2, <1>13, Zenon DEF vars, WriteThread, OnPostCommittedBlock
  <1> HIDE DEF Goal
  <1>14. ASSUME NEW t \in setting.threads, Step(t)
         PROVE  Goal
    BY <1>7, <1>8, <1>9, <1>10, <1>11, <1>14, ZenonT(30) DEF Step
  <1>15. Goal
    BY <1>12, <1>13, <1>14 DEF Next, Running
  <1> QED BY <1>15 DEF Goal

(* No block in the node's hands will be refused.                           *)
LEMMA ArrivedStep ==
    ASSUME ArrivalOrder, Typed, Arrived, [Next]_vars
    PROVE  Arrived'
  <1>1. setting' = setting /\ setting \in Settings /\ db \subseteq db'
    BY ThreadStep, QueueStep DEF Typed
  <1>2. \A b : Timely(b) => Timely(b)'
    <2>1. \A n : RequestBlocks(n)' = RequestBlocks(n)
      BY <1>1 DEF RequestBlocks
    <2> QED BY <1>1, <2>1 DEF Timely
  <1>3. \A t \in Threads : thread[t].block # None => Timely(thread[t].block)
    BY DEF Arrived
  <1>4. \A b \in PendingIn(epochs) : b # None => Timely(b)
    BY DEF Arrived
  <1>5. ASSUME NEW t \in Threads, NEW b \in setting.blocks, Receive(t, b)
        PROVE  Timely(b)
    <2>1. ArrivesAfter[b] \subseteq db
      BY <1>5 DEF Receive
    <2> QED BY <1>1, <2>1 DEF ArrivalOrder, Timely, RequestBlocks
  <1>6. ASSUME NEW t \in Threads, NEW b \in setting.blocks, OnPostCommit(t, b)
        PROVE  Timely(b)
    BY <1>6 DEF OnPostCommit, Refused, Timely
  <1>7. \A b \in PendingIn(epochs') : b # None => Timely(b)
    BY <1>3, <1>4, BlockStep, Zenon
  <1>8. \A t \in Threads : thread'[t].block # None => Timely(thread'[t].block)
    BY <1>3, <1>4, <1>5, <1>6, BlockStep, ZenonT(30)
  <1> QED BY <1>2, <1>7, <1>8, ZenonT(30) DEF Arrived

(* No block waits in the lists behind a block that needs it to be linked.  *)
LEMMA PreviousNotBehind ==
    ASSUME Typed, NEW j \in 1..Len(epochs), NEW b \in setting.blocks, AtFront(epochs[j], b),
           Kind[b] = "R", Previous[b] # None
    PROVE  Previous[b] \notin PendingIn(epochs)
  <1> DEFINE p == Previous[b]
  <1> SUFFICES ASSUME NEW k \in 1..Len(epochs), p \in BlocksOf(epochs[k])
               PROVE  FALSE
    BY DEF PendingIn
  <1>1. setting \in Settings /\ GoodPeriods(epochs) /\ GoodPeriod(epochs[k]) /\ GoodPeriod(epochs[j])
    BY Zenon DEF Typed, GoodPeriods
  <1>2. /\ p \in setting.blocks /\ Kind[p] = "R" /\ Chain[p] = Chain[b] /\ Epoch[p] = Epoch[b]
        /\ Sequence[p] < Sequence[b] /\ p # None
    BY <1>1, LinksAssumption, Zenon
  <1>3. Sequence[p] \in Nat /\ Sequence[b] \in Nat
    BY <1>1, <1>2, BlocksAssumption, Zenon
  <1> HIDE DEF p
  <1>4. PICK c \in Chains : p \in Range(epochs[k].rbs[c])
    <2>1. p # epochs[k].eb
      BY <1>1, <1>2, ZenonT(30) DEF GoodPeriod
    <2>2. p \notin Range(epochs[k].mbs)
      <3>1. GoodList(epochs[k].mbs, "M", epochs[k].epoch_num)
        BY <1>1, ZenonT(30) DEF GoodPeriod
      <3> QED BY <1>2, <3>1 DEF GoodList, Range
    <2> QED BY <2>1, <2>2, Zenon DEF BlocksOf
  <1>5. PICK m \in 1..Len(epochs[k].rbs[c]) : p = epochs[k].rbs[c][m]
    <2>1. GoodList(epochs[k].rbs[c], "R", epochs[k].epoch_num)
      BY <1>1, Zenon DEF GoodPeriod
    <2> QED BY <1>4, <2>1 DEF GoodList, Range
  <1>6. c = Chain[b] /\ epochs[k].epoch_num = epochs[j].epoch_num
    <2>1. GoodList(epochs[k].rbs[c], "R", epochs[k].epoch_num) /\ Chain[epochs[k].rbs[c][m]] = c
      BY <1>1, Zenon DEF GoodPeriod
    <2>2. Epoch[p] = epochs[k].epoch_num
      BY <1>5, <2>1, Zenon DEF GoodList
    <2> QED BY <1>2, <1>5, <2>1, <2>2, Zenon DEF AtFront
  <1>7. k = j
    BY <1>1, <1>6, PeriodFound, Zenon
  <1> DEFINE s == epochs[j].rbs[c]
  <1>8. GoodList(s, "R", epochs[j].epoch_num) /\ s # <<>> /\ b = Head(s) /\ m \in 1..Len(s) /\ p = s[m]
    BY <1>1, <1>5, <1>6, <1>7, ZenonT(30) DEF GoodPeriod, AtFront
  <1> HIDE DEF s
  <1>9. 1 \in 1..Len(s) /\ b = s[1] /\ (m = 1 \/ 1 < m)
    BY <1>8 DEF GoodList
  <1>10. m = 1 \/ Sequence[b] < Sequence[p]
    BY <1>8, <1>9, Zenon DEF GoodList
  <1> QED BY <1>2, <1>3, <1>8, <1>9, <1>10

(* The counters of the backup delegates advance past what was on their     *)
(* sink or was stored as agreed; a p2p block is put on the sink first.     *)
LEMMA PassedStep ==
    ASSUME Typed, [Next]_vars
    PROVE  /\ passed' \subseteq passed \cup sink \cup ({thread[t].store : t \in setting.threads} \ {None})
           /\ \A x \in sink' : x \in sink \/ \E t \in setting.threads : x \in setting.blocks /\ Receive(t, x)
  <1>1. setting.threads \subseteq Threads
    BY BlocksAssumption DEF Typed
  <1>2. ASSUME NEW t \in setting.threads, NEW pc, NEW b, EndTask(t) \/ Continue(t, pc, b)
        PROVE  passed' \subseteq passed \cup ({thread[u].store : u \in setting.threads} \ {None})
    BY <1>2 DEF EndTask, Continue
  <1>3. ASSUME NEW t \in setting.threads, Step(t)
        PROVE  passed' \subseteq passed \cup ({thread[u].store : u \in setting.threads} \ {None}) /\ sink' = sink
    <2>1. sink' = sink
      BY <1>3, Zenon DEF Step, Admit, Insert, GetNextBlock, Verify, BlockDelete, AddHashDependency, AddReliance,
                  DeleteHashDependencies, MarkForRevalidation
    <2>2. CASE Verify(t) \/ BlockDelete(t) \/ AddHashDependency(t) \/ AddReliance(t)
      BY <2>1, <2>2 DEF Verify, BlockDelete, AddHashDependency, AddReliance
    <2>3. CASE Admit(t) \/ Insert(t)
      BY <1>2, <2>1, <2>3, Zenon DEF Admit, Insert
    <2>4. CASE GetNextBlock(t)
      <3>1. UNCHANGED passed \/ EndTask(t) \/ \E x : Continue(t, "verify", x)
        BY <1>1, <2>4, GetNextBlockCases, Zenon
      <3> QED BY <1>2, <2>1, <3>1
    <2>5. CASE DeleteHashDependencies(t) \/ MarkForRevalidation(t)
      <3>1. UNCHANGED passed \/ EndTask(t) \/ Continue(t, "next", None)
        BY <2>5 DEF DeleteHashDependencies, MarkForRevalidation, NextHash
      <3> QED BY <1>2, <2>1, <3>1, ZenonT(30)
    <2> QED BY <1>3, <2>2, <2>3, <2>4, <2>5 DEF Step
  <1>4. ASSUME NEW t \in setting.threads, NEW b \in setting.blocks,
               Receive(t, b) \/ OnPostCommit(t, b) \/ ProcessDependencies(t, b)
        PROVE  passed' = passed /\ (sink' = sink \/ (Receive(t, b) /\ sink' = sink \cup {b}))
    BY <1>4 DEF Receive, OnPostCommit, ProcessDependencies, Continue
  <1>5. ASSUME NEW b, OnPostCommittedBlock(b)
        PROVE  passed' \subseteq passed \cup sink /\ sink' \subseteq sink
    BY <1>5 DEF OnPostCommittedBlock
  <1>6. CASE UNCHANGED vars \/ WriteThread
    BY <1>6 DEF vars, WriteThread
  <1> QED BY <1>3, <1>4, <1>5, <1>6, ZenonT(30) DEF Next, Running

(* Nothing that is known is forgotten, and what the thread is about to     *)
(* admit it admits.                                                        *)
LEMMA KnownStep ==
    ASSUME Typed, [Next]_vars, NEW t \in Threads, setting.threads = {t}, Single(t)
    PROVE  /\ Known \subseteq Known'
           /\ thread[t].pc = "admit" => thread'[t] = thread[t] \/ thread[t].block \in Known'
  <1>1. Range(queue) \cup db \subseteq Range(queue') \cup db'
    <2>1. \A u \in setting.threads : Verify(u) => thread[u].block \in setting.blocks
      BY BlocksAssumption DEF Typed, Task, Verify, Validating
    <2>2. queue # <<>> => Range(queue) = Range(Tail(queue)) \cup {Head(queue)}
      BY QueueRange DEF Typed
    <2>3. \A x \in setting.blocks : Range(Append(queue, x)) = Range(queue) \cup {x}
      BY QueueRange DEF Typed
    <2>4. CASE UNCHANGED <<db, queue>>
      BY <2>4
    <2>5. CASE queue # <<>> /\ db' = db \cup {Head(queue)} /\ queue' = Tail(queue)
      BY <2>2, <2>5, Zenon
    <2>6. CASE db' = db /\ \E u \in setting.threads : Verify(u) /\ queue' = Append(queue, thread[u].block)
      BY <2>1, <2>3, <2>6, ZenonT(30)
    <2> QED BY <2>4, <2>5, <2>6, QueueStep, ZenonT(30)
  <1>2. Admit(t) \/ BlockDelete(t) \/ cached' = cached
    BY ZenonT(30) DEF Next, Running, Step, vars, WriteThread, OnPostCommittedBlock, Receive, OnPostCommit, ProcessDependencies,
           Insert, GetNextBlock, Verify, AddHashDependency, AddReliance, DeleteHashDependencies, MarkForRevalidation
  <1>3. \A x \in cached : x \in Known'
    <2>1. CASE Admit(t)
      BY <2>1 DEF Admit, Known
    <2>2. CASE BlockDelete(t)
      <3>1. thread[t].block \in Range(queue) \cup db /\ cached' = cached \ {thread[t].block}
        BY <2>2 DEF BlockDelete, Single
      <3> QED BY <1>1, <3>1 DEF Known
    <2> QED BY <1>2, <2>1, <2>2 DEF Known
  <1>4. ASSUME thread[t].pc = "admit"
        PROVE  thread'[t] = thread[t] \/ Admit(t)
    BY <1>4, ZenonT(30) DEF Next, Running, Step, vars, WriteThread, OnPostCommittedBlock, Receive, OnPostCommit, ProcessDependencies,
           Insert, GetNextBlock, Verify, BlockDelete, AddHashDependency, AddReliance, DeleteHashDependencies, MarkForRevalidation
  <1>5. Admit(t) => thread[t].block \in Known'
    <2>1. Admit(t) => thread[t].block \in cached' \cup Range(queue) \cup db
      BY DEF Admit, BlockExists
    <2> QED BY <1>1, <2>1 DEF Known
  <1>6. Known \subseteq Known'
    <2>1. \A x \in Range(queue) \cup db : x \in Known'
      BY <1>1, Zenon DEF Known
    <2> QED BY <1>3, <2>1, Zenon DEF Known
  <1> QED BY <1>4, <1>5, <1>6, Zenon

(* The block that was verified can be linked when its turn comes.          *)
LEMMA VerifiedLinks ==
    ASSUME AgreesAloneOrFirst, Typed, Serial, Linked, NEW t \in setting.threads, Verify(t),
           thread[t].block \in direct \/ (Missing(thread[t].block) = {} /\ ~Refused(thread[t].block))
    PROVE  Previous[thread[t].block] \in {None} \cup db \cup Range(queue)
  <1> DEFINE b == thread[t].block
  <1>1. setting \in Settings /\ t \in Threads /\ thread[t].pc = "verify" /\ b \in setting.blocks /\ None \notin setting.blocks
    BY BlocksAssumption DEF Typed, Task, Verify, Validating
  <1>2. CASE ~MissingPrevious(b)
    BY <1>2 DEF MissingPrevious
  <1>3. CASE MissingPrevious(b)
    <2>1. b \in direct
      BY <1>3 DEF Missing
    <2>2. b \in Agreed
      BY <1>1, <2>1, Zenon DEF Agreed
    <2>3. b \in setting.consensus /\ Kind[b] = "R" /\ Previous[b] # None
      BY <1>1, <1>3, <2>2, BlocksAssumption, ZenonT(30) DEF Linked, MissingPrevious
    <2>4. Alone
      BY <1>1, <2>3 DEF AgreesAloneOrFirst, Alone
    <2>5. Single(t) /\ Previous[b] \in Known
      BY <2>2, <2>3, <2>4 DEF Serial, Linked, Follows
    <2>6. PICK j \in 1..Len(epochs) : AtFront(epochs[j], b)
      BY <1>1, <2>5, Zenon DEF Single, Holds, Validating
    <2>7. Previous[b] \notin PendingIn(epochs)
      BY <1>1, <2>3, <2>6, PreviousNotBehind, Zenon
    <2>8. Previous[b] \notin cached
      BY <1>1, <2>5, <2>7, Zenon DEF Single
    <2> QED BY <2>5, <2>8 DEF Known
  <1> QED BY <1>2, <1>3, Zenon

(* What is agreed on was validated when it was prepared, and follows what  *)
(* the node has taken in.                                                  *)
LEMMA AgreedStep ==
    ASSUME Typed, [Next]_vars
    PROVE  \A x \in Agreed' : x \in Agreed \/ \E t \in setting.threads : x \in setting.blocks /\ OnPostCommit(t, x)
  <1>1. \A x \in direct' : x # None => x \in Agreed
    BY QueueStep DEF Agreed
  <1>2. \A u \in Threads : thread'[u].store # None =>
            thread'[u].store \in Agreed \/ \E t \in setting.threads : thread'[u].store \in setting.blocks /\ OnPostCommit(t, thread'[u].store)
    <2> SUFFICES ASSUME NEW u \in Threads, thread'[u].store # None
                 PROVE  thread'[u].store \in Agreed \/ \E t \in setting.threads : thread'[u].store \in setting.blocks /\ OnPostCommit(t, thread'[u].store)
      OBVIOUS
    <2>1. CASE u \notin setting.threads
      BY <2>1, ThreadStep, ZenonT(30) DEF Agreed
    <2>2. CASE u \in setting.threads
      BY <2>2, ThreadStep DEF Agreed
    <2> QED BY <2>1, <2>2
  <1> QED BY <1>1, <1>2 DEF Agreed

(* What is queued can be linked to its previous block.                     *)
LEMMA LinkedStep ==
    ASSUME AgreesAloneOrFirst, Typed, Serial, Linked, [Next]_vars
    PROVE  Linked'
  <1>1. setting' = setting /\ setting \in Settings /\ setting.threads \subseteq Threads /\ db \subseteq db'
    BY ThreadStep, QueueStep, BlocksAssumption, Zenon DEF Typed
  <1>2. \A b \in Agreed' : b \in setting'.consensus /\ (Kind[b] # "R" => ~MissingPrevious(b)')
    <2>1. \A b \in Agreed' : b \in setting.consensus /\ (Kind[b] # "R" => ~MissingPrevious(b))
      <3>1. \A t, b : OnPostCommit(t, b) => b \in setting.consensus /\ (Kind[b] # "R" => ~MissingPrevious(b))
        BY DEF OnPostCommit
      <3> QED BY <3>1, AgreedStep, Zenon DEF Linked
    <2> QED BY <1>1, <2>1 DEF MissingPrevious
  <1>3. ASSUME Alone, NEW t \in setting.threads
        PROVE  Follows(t)'
    <2>1. t \in Threads /\ setting.threads = {t} /\ Single(t) /\ Follows(t)
      BY <1>1, <1>3, AloneThread, Zenon DEF Serial, Linked
    <2>2. Known \subseteq Known' /\ (thread[t].pc = "admit" => thread'[t] = thread[t] \/ thread[t].block \in Known')
      BY <2>1, KnownStep
    <2>3. \A x \in (passed \cup sink \cup {thread[t].store}) \ {None} :
             x \in Known' \/ (thread'[t].pc = "admit" /\ x = thread'[t].block)
      BY <2>1, <2>2 DEF Follows
    <2>4. ASSUME NEW b \in setting.blocks, Receive(t, b) \/ OnPostCommit(t, b)
          PROVE  thread'[t].pc = "admit" /\ thread'[t].block = b
      <3>1. CASE Receive(t, b)
        BY <2>1, <3>1, TaskFields, ZenonT(30) DEF Receive
      <3>2. CASE OnPostCommit(t, b)
        <4> DEFINE k == [Idle EXCEPT !.pc = "admit", !.block = b, !.store = b]
        <4>1. k.pc = "admit" /\ k.block = b
          BY DEF Idle
        <4>2. thread' = [thread EXCEPT ![t] = k]
          BY <3>2, Zenon DEF OnPostCommit
        <4> HIDE DEF k
        <4> QED BY <2>1, <4>1, <4>2 DEF Typed
      <3> QED BY <2>4, <3>1, <3>2
    <2>5. \A x \in (passed' \cup sink' \cup {thread'[t].store}) \ {None} :
             x \in Known' \/ (thread'[t].pc = "admit" /\ x = thread'[t].block)
      <3>1. \A x \in passed' : x \in passed \cup sink \cup ({thread[t].store} \ {None})
        BY <2>1, PassedStep
      <3>2. \A x \in sink' : x \in sink \/ (x \in setting.blocks /\ Receive(t, x))
        BY <2>1, PassedStep, Zenon
      <3>3. thread'[t].store \in {thread[t].store, None} \/ (thread'[t].store \in setting.blocks /\ OnPostCommit(t, thread'[t].store))
        BY <2>1, ThreadStep, Zenon
      <3> QED BY <2>3, <2>4, <3>1, <3>2, <3>3, ZenonT(30)
    <2>6. \A b \in Agreed' : Previous[b] \in Known' \cup {None}
      <3>1. ASSUME NEW b, OnPostCommit(t, b)
            PROVE  Previous[b] \in Known \cup {None}
        <4>1. thread[t].pc = "idle" /\ Previous[b] \in passed \cup {None}
          BY <3>1 DEF OnPostCommit
        <4> QED BY <2>1, <4>1 DEF Follows
      <3>2. \A b \in Agreed : Previous[b] \in Known \cup {None}
        BY <2>1, Zenon DEF Follows
      <3> QED BY <2>1, <2>2, <3>1, <3>2, AgreedStep, ZenonT(30)
    <2> QED BY <2>5, <2>6 DEF Follows
  <1>4. \A k \in 1..Len(queue') : LinkedAt(k)'
    <2>1. queue \in Seq(setting.blocks) /\ Len(queue) \in Nat /\ DOMAIN queue = 1..Len(queue)
      BY DEF Typed
    <2>2. ASSUME db' = db, queue' = queue
          PROVE  \A k \in 1..Len(queue') : LinkedAt(k)'
      BY <2>2 DEF Linked, LinkedAt
    <2>3. ASSUME NEW b \in setting.blocks, db' = db, queue' = Append(queue, b), Previous[b] \in {None} \cup db \cup Range(queue)
          PROVE  \A k \in 1..Len(queue') : LinkedAt(k)'
      <3>1. Len(queue') = Len(queue) + 1 /\ \A k \in 1..(Len(queue) + 1) : queue'[k] = IF k = Len(queue) + 1 THEN b ELSE queue[k]
        BY <2>1, <2>3
      <3>2. ASSUME NEW k \in 1..Len(queue)
            PROVE  LinkedAt(k)'
        <4>1. LinkedAt(k)
          BY DEF Linked
        <4>2. queue'[k] = queue[k] /\ \A j \in 1..(k - 1) : queue'[j] = queue[j]
          BY <2>1, <3>1
        <4> QED BY <2>3, <4>1, <4>2, ZenonT(30) DEF LinkedAt
      <3>3. ASSUME NEW k, k = Len(queue) + 1
            PROVE  LinkedAt(k)'
        <4>1. queue'[k] = b /\ k - 1 = Len(queue)
          BY <2>1, <3>1, <3>3
        <4>2. ASSUME Previous[b] \in Range(queue)
              PROVE  \E j \in 1..Len(queue) : queue'[j] = Previous[b]
          <5>1. PICK j \in 1..Len(queue) : queue[j] = Previous[b]
            BY <2>1, <4>2 DEF Range
          <5>2. queue'[j] = queue[j]
            BY <2>1, <3>1
          <5> QED BY <5>1, <5>2
        <4> QED BY <2>3, <4>1, <4>2, ZenonT(30) DEF LinkedAt
      <3>4. \A k \in 1..Len(queue') : k \in 1..Len(queue) \/ k = Len(queue) + 1
        BY <2>1, <3>1
      <3> QED BY <3>2, <3>3, <3>4, ZenonT(30)
    <2>4. ASSUME queue # <<>>, db' = db \cup {Head(queue)}, queue' = Tail(queue)
          PROVE  \A k \in 1..Len(queue') : LinkedAt(k)'
      <3>1. /\ Len(queue') = Len(queue) - 1 /\ Head(queue) = queue[1]
            /\ \A k \in 1..(Len(queue) - 1) : queue'[k] = queue[k + 1]
        BY <2>1, <2>4
      <3> SUFFICES ASSUME NEW k \in 1..Len(queue')
                   PROVE  LinkedAt(k)'
        OBVIOUS
      <3>2. k + 1 \in 1..Len(queue) /\ queue'[k] = queue[k + 1] /\ (k + 1) - 1 = k
        BY <2>1, <3>1
      <3>3. LinkedAt(k + 1)
        BY <3>2 DEF Linked
      <3>4. ASSUME NEW j \in 1..k, queue[j] = Previous[queue[k + 1]]
            PROVE  LinkedAt(k)'
        <4>1. CASE j = 1
          BY <2>4, <3>1, <3>2, <3>4, <4>1, ZenonT(30) DEF LinkedAt
        <4>2. CASE j # 1
          <5>1. j - 1 \in 1..(k - 1) /\ j - 1 \in 1..(Len(queue) - 1) /\ (j - 1) + 1 = j
            BY <2>1, <3>1, <4>2
          <5>2. queue'[j - 1] = Previous[queue'[k]]
            BY <3>1, <3>2, <3>4, <5>1, ZenonT(30)
          <5> QED BY <5>1, <5>2 DEF LinkedAt
        <4> QED BY <4>1, <4>2, Zenon
      <3> QED BY <2>4, <3>2, <3>3, <3>4, ZenonT(30) DEF LinkedAt
    <2>5. \A t \in setting.threads : Verify(t) => thread[t].block \in setting.blocks
      BY <1>1 DEF Typed, Task, Verify, Validating
    <2> QED BY <2>2, <2>3, <2>4, <2>5, QueueStep, VerifiedLinks, ZenonT(30)
  <1> QED BY <1>1, <1>2, <1>3, <1>4 DEF Linked, Alone

(* What can kill the node: the write thread on a block it cannot link,     *)
(* validation on a block it refuses, or popping an empty list.             *)
LEMMA WhatHalts ==
    ASSUME Typed, [Next]_vars, ~halted, halted'
    PROVE  \/ queue # <<>> /\ MissingPrevious(Head(queue))
           \/ \E t \in setting.threads : thread[t].pc = "verify" /\ Refused(thread[t].block)
           \/ \E t \in setting.threads :
                 LET b == thread[t].block
                 IN  thread[t].pc = "next" /\ b # None /\ PopsNothing(PeriodIndex(Epoch[b]), b, thread[t].success)
  <1>1. setting.threads \subseteq Threads
    BY BlocksAssumption DEF Typed
  <1>2. Running
    BY Zenon DEF Next, vars
  <1>3. CASE WriteThread
    BY <1>3, Zenon DEF WriteThread
  <1>4. ASSUME NEW t \in setting.threads, Step(t), ~Verify(t), ~GetNextBlock(t)
        PROVE  halted' = halted
    BY <1>4, Zenon DEF Step, Admit, Insert, BlockDelete, AddHashDependency, AddReliance,
                DeleteHashDependencies, MarkForRevalidation
  <1>5. ASSUME NEW t \in setting.threads, Verify(t)
        PROVE  thread[t].pc = "verify" /\ Refused(thread[t].block)
    BY <1>5, Zenon DEF Verify
  <1>6. ASSUME NEW t \in setting.threads, GetNextBlock(t)
        PROVE  LET b == thread[t].block
               IN  thread[t].pc = "next" /\ b # None /\ PopsNothing(PeriodIndex(Epoch[b]), b, thread[t].success)
    <2>1. thread[t].pc = "next"
      BY <1>6 DEF GetNextBlock
    <2> QED BY <1>1, <1>6, <2>1, GetNextBlockCases, Zenon
  <1>7. ASSUME NEW b, OnPostCommittedBlock(b) \/ \E t \in setting.threads : Receive(t, b) \/ OnPostCommit(t, b) \/ ProcessDependencies(t, b)
        PROVE  halted' = halted
    BY <1>7, Zenon DEF OnPostCommittedBlock, Receive, OnPostCommit, ProcessDependencies
  <1> QED BY <1>2, <1>3, <1>4, <1>5, <1>6, <1>7, ZenonT(30) DEF Running

(* The write thread finds the previous block of the one it takes next.     *)
LEMMA HeadLinked ==
    ASSUME Typed, Linked, queue # <<>>
    PROVE  ~MissingPrevious(Head(queue))
  <1>1. 1 \in 1..Len(queue) /\ Head(queue) = queue[1]
    BY DEF Typed
  <1>2. LinkedAt(1)
    BY <1>1 DEF Linked
  <1>3. \A j \in 1..(1 - 1) : FALSE
    OBVIOUS
  <1> QED BY <1>1, <1>2, <1>3, Zenon DEF LinkedAt, MissingPrevious

(* A node whose micro and epoch blocks come in the order of ArrivalOrder   *)
(* keeps running: the write thread finds every previous block, however     *)
(* many threads validate what came over p2p, and also what a delegate with *)
(* one pool thread agrees on; with one pool thread nothing halts the node. *)
THEOREM CacheKeepsRunning ==
    ASSUME ArrivalOrder, AgreesAloneOrFirst
    PROVE  Spec => []NodeKeepsRunning
  <1> DEFINE Inv == Typed /\ Verified /\ Serial /\ Arrived /\ Linked /\ (Alone => ~halted)
  <1>1. Init => Inv
    <2> SUFFICES ASSUME Init
                 PROVE  Arrived /\ Linked /\ ~halted /\ Serial
      BY InitGood, Zenon
    <2>1. Idle.block = None /\ Idle.store = None /\ Idle.pc = "idle"
      BY DEF Idle
    <2>2. \A t \in Threads : thread[t] = Idle
      BY DEF Init
    <2>3. PendingIn(epochs) = {} /\ 1..Len(queue) = {} /\ Agreed = {}
      BY <2>1, <2>2 DEF Init, PendingIn, Agreed
    <2>4. Serial
      <3>1. setting.threads \subseteq Threads
        BY BlocksAssumption, Zenon DEF Init
      <3> QED BY <2>1, <2>2, <3>1, Zenon DEF Init, Serial, Single, Holds, Validating
    <2>5. \A t \in setting.threads : Follows(t)
      <3>1. setting.threads \subseteq Threads
        BY BlocksAssumption DEF Init
      <3> QED BY <2>1, <2>2, <2>3, <3>1, ZenonT(30) DEF Init, Follows
    <2> QED BY <2>1, <2>2, <2>3, <2>4, <2>5, ZenonT(30) DEF Init, Arrived, Linked
  <1>2. Inv /\ [Next]_vars => Inv'
    <2> SUFFICES ASSUME Inv, [Next]_vars
                 PROVE  Inv'
      OBVIOUS
    <2>1. Typed' /\ Verified' /\ Serial' /\ Arrived' /\ Linked'
      BY TypedStep, VerifiedStep, SerialStep, ArrivedStep, LinkedStep, ZenonT(30)
    <2>2. setting' = setting
      BY ThreadStep, Zenon
    <2>3. ASSUME Alone, halted'
          PROVE  FALSE
      <3>1. PICK t \in Threads : setting.threads = {t}
        BY <2>3, AloneThread
      <3>2. Single(t)
        BY <2>3, <3>1 DEF Serial
      <3>3. queue # <<>> => ~MissingPrevious(Head(queue))
        BY HeadLinked, Zenon
      <3>4. thread[t].pc = "verify" => ~Refused(thread[t].block)
        <4>1. thread[t].pc = "verify" => thread[t].block # None
          BY DEF Typed, Validating
        <4> QED BY <4>1, Zenon DEF Arrived, Timely, Refused
      <3>5. LET b == thread[t].block
            IN  thread[t].pc = "next" /\ b # None => ~PopsNothing(PeriodIndex(Epoch[b]), b, thread[t].success)
        BY <3>2, PopKeepsCached, Zenon
      <3>6. ~halted
        BY <2>3
      <3> QED BY <2>3, <3>1, <3>3, <3>4, <3>5, <3>6, WhatHalts, ZenonT(30)
    <2>4. Alone' => Alone
      BY <2>2 DEF Alone
    <2> QED BY <2>1, <2>3, <2>4
  <1>3. Inv => NodeKeepsRunning
    <2> SUFFICES ASSUME Inv
                 PROVE  queue # <<>> => ~MissingPrevious(Head(queue))
      BY DEF NodeKeepsRunning
    <2> QED BY HeadLinked
  <1> QED BY <1>1, <1>2, <1>3, PTL DEF Spec
=============================================================================
