----------------------------- MODULE BlockCache -----------------------------
(***************************************************************************)
(* The way of a post-committed block into the database                     *)
(* (logos/consensus/persistence): BlockCache admits it, the                *)
(* PendingBlockContainer keeps it until what it depends on is stored, and  *)
(* the BlockWriteQueue's thread writes it and wakes the blocks that wait   *)
(* for it.                                                                 *)
(*                                                                         *)
(* Threads of the io_service run the tasks.  A step of a task is one       *)
(* critical section of _cache_blocks_mutex, _chains_mutex or               *)
(* _hash_dependency_table_mutex, or one validation against the database.   *)
(*                                                                         *)
(* A hash is a block or something a request block contains (the hash of a  *)
(* request, an account it opens or credits).                               *)
(***************************************************************************)
EXTENDS Integers, Sequences, FiniteSets, Functions

CONSTANTS Blocks,        \* the blocks the network may post-commit
          Kind,          \* [Blocks -> {"R", "M", "E"}]: request, micro, epoch block
          Epoch,         \* [Blocks -> Nat]
          Chain,         \* primary_delegate of a request block
          Sequence,      \* [Blocks -> Nat]
          Previous,      \* [Blocks -> Blocks \cup {None}]
          Content,       \* [Blocks -> Seq(hashes)]: requests and accounts of a block
          Needs,         \* [Blocks -> sets of hashes]: what its content refers to
          LastMicro,     \* blocks with last_micro_block set
          ArrivesAfter,  \* [Blocks -> SUBSET Blocks]: stored before the block arrives
          Chains,
          Threads,
          Settings,      \* where this node runs: see setting
          MaxRecent,     \* Max_Recent_DB_Writes
          None

ASSUME BlocksAssumption ==
    /\ None \notin Blocks
    /\ Kind \in [Blocks -> {"R", "M", "E"}]
    /\ Epoch \in [Blocks -> Nat]
    /\ \A b \in Blocks : Kind[b] = "R" => Chain[b] \in Chains
    /\ Sequence \in [Blocks -> Nat]
    /\ Previous \in [Blocks -> Blocks \cup {None}]
    /\ \A b \in Blocks : Content[b] \in Seq(Range(Content[b])) /\ IsFiniteSet(Needs[b])
    /\ \A s \in Settings :
          /\ s.threads \subseteq Threads /\ IsFiniteSet(s.threads)
          /\ s.consensus \subseteq s.blocks /\ s.blocks \subseteq Blocks
    /\ MaxRecent \in Nat

(* The blocks of one network: consensus agrees on one block for a place in *)
(* a chain, and the last micro block of an epoch is its last.              *)
ASSUME NetworkAssumption ==
    \A s \in Settings : \A a, b \in s.blocks :
        Kind[a] = Kind[b] /\ Epoch[a] = Epoch[b] =>
            /\ Kind[a] = "R" /\ Chain[a] = Chain[b] /\ Sequence[a] = Sequence[b] => a = b
            /\ Kind[a] = "M" /\ Sequence[a] = Sequence[b] => a = b
            /\ Kind[a] = "M" /\ b \in LastMicro => Sequence[a] <= Sequence[b]
            /\ Kind[a] = "E" => a = b

(* A request block follows an earlier one of its chain and epoch; the      *)
(* first of an epoch names no previous block until the epoch block links   *)
(* the two epochs.                                                         *)
ASSUME LinksAssumption ==
    \A s \in Settings : \A b \in s.blocks :
        Kind[b] = "R" /\ Previous[b] # None =>
            /\ Previous[b] \in s.blocks
            /\ Kind[Previous[b]] = "R"
            /\ Chain[Previous[b]] = Chain[b]
            /\ Epoch[Previous[b]] = Epoch[b]
            /\ Sequence[Previous[b]] < Sequence[b]

VARIABLES
    epochs,       \* _epochs: the periods, oldest first
    cached,       \* _cached_blocks
    locked,       \* pending blocks with lock set
    direct,       \* pending blocks with direct_write set
    reliances,    \* the hashes each block waits for
    table,        \* _hash_dependency_table: pairs <<hash, block>>
    recent,       \* _recent_DB_writes
    queue,        \* _q of the write queue
    db,           \* blocks in the database
    posted,       \* blocks with a ProcessDependencies task posted
    sink,         \* p2p blocks pushed on the sink of their backup delegate
    passed,       \* blocks the backup delegates have advanced past
    thread,       \* [Threads -> local state of its task]
    halted,       \* the process has died
    setting       \* fixed: the threads of its pool, the blocks the network post-
                  \* commits, and those the node helps to agree on as a delegate

vars == <<epochs, cached, locked, direct, reliances, table, recent, queue, db, posted, sink, passed, thread, halted, setting>>

Idle == [pc |-> "idle", block |-> None, success |-> FALSE, todo |-> <<>>, waiters |-> {},
         found |-> FALSE, store |-> None]

Init ==
    /\ epochs = <<>>
    /\ cached = {}
    /\ locked = {}
    /\ direct = {}
    /\ reliances = [b \in Blocks |-> {}]
    /\ table = {}
    /\ recent = <<>>
    /\ queue = <<>>
    /\ db = {}
    /\ posted = {}
    /\ sink = {}
    /\ passed = {}
    /\ thread = [t \in Threads |-> Idle]
    /\ halted = FALSE
    /\ setting \in Settings

(* A hash is known to the database when its block is there.                *)
Stored(h) == h \in db \/ \E b \in db : h \in Range(Content[b])

(* The task of thread t is over; when it was StoreBlock, the delegate's    *)
(* message handler goes on to advance its counter.                         *)
EndTask(t) ==
    /\ thread' = [thread EXCEPT ![t] = Idle]
    /\ passed' = passed \cup ({thread[t].store} \ {None})

(* The task of thread t goes on at pc with block b.                        *)
Continue(t, pc, b) ==
    /\ thread' = [thread EXCEPT ![t] = [Idle EXCEPT !.pc = pc, !.block = b, !.store = thread[t].store]]
    /\ UNCHANGED passed

-----------------------------------------------------------------------------
(* What a block needs                                                      *)

RequestBlocks(n) == {b \in setting.blocks : Kind[b] = "R" /\ Epoch[b] = n}

MissingPrevious(b) == Previous[b] # None /\ Previous[b] \notin db

MissingNeeds(b) == {h \in Needs[b] : ~Stored(h)}

(* Mutant of Missing: the previous block is not looked up.                 *)
MutantNoPrevious(b) == MissingNeeds(b)

(* Mutant of Missing: the content is not looked up.                        *)
MutantNoContent(b) == IF MissingPrevious(b) THEN {Previous[b]} ELSE {}

(* The hashes VerifyContent finds missing: the previous block alone when   *)
(* it is not stored, else all the missing content.                         *)
Missing(b) == IF MissingPrevious(b) THEN {Previous[b]} ELSE MissingNeeds(b)

(* The errors of VerifyContent that name no missing block.  A micro block  *)
(* is refused while the epoch block before its epoch is not stored, an     *)
(* epoch block while request blocks of its epoch are not.                  *)
Refused(b) ==
    /\ ~MissingPrevious(b)
    /\ \/ /\ Kind[b] = "M"
          /\ MissingNeeds(b) = {}
          /\ \E x \in setting.blocks : Kind[x] = "E" /\ Epoch[x] + 1 = Epoch[b] /\ x \notin db
       \/ /\ Kind[b] = "E"
          /\ ~RequestBlocks(Epoch[b]) \subseteq db

-----------------------------------------------------------------------------
(* Blocks arrive                                                           *)

BlockExists(b) == b \in Range(queue) \/ b \in db

(* A block arrives over p2p.  A delegate first pushes it on the sink of    *)
(* the backup delegate that follows the block's chain.                     *)
Receive(t, b) ==
    /\ thread[t].pc = "idle"
    /\ ArrivesAfter[b] \subseteq db
    /\ sink' = IF b \in setting.consensus THEN sink \cup {b} ELSE sink
    /\ Continue(t, "admit", b)
    /\ UNCHANGED <<epochs, cached, locked, direct, reliances, table, recent, queue, db, posted, halted>>

(* The messages of one backup delegate are handled one at a time.          *)
BackupFree(b) == \A t \in Threads : thread[t].store # None => Chain[thread[t].store] # Chain[b]

(* OnPostCommittedBlock: the backup advances past the next block of its    *)
(* chain, whether or not it took part in the agreement on it.              *)
OnPostCommittedBlock(b) ==
    /\ b \in sink
    /\ BackupFree(b)
    /\ sink' = sink \ {b}
    /\ passed' = IF Previous[b] \in passed \cup {None} THEN passed \cup {b} ELSE passed
    /\ UNCHANGED <<epochs, cached, locked, direct, reliances, table, recent, queue, db, posted, thread, halted>>

(* PostCommit: consensus on the next block of a chain ends and the         *)
(* delegate stores the block as verified.  It validated the block when it  *)
(* prepared it, but for a request block not that the database has the      *)
(* previous one: the backup only compares the hash with the last it saw.   *)
OnPostCommit(t, b) ==
    /\ thread[t].pc = "idle"
    /\ b \in setting.consensus \ passed
    /\ Previous[b] \in passed \cup {None}
    /\ MissingNeeds(b) = {}
    /\ Kind[b] # "R" => ~MissingPrevious(b) /\ ~Refused(b)
    /\ BackupFree(b)
    /\ thread' = [thread EXCEPT ![t] = [Idle EXCEPT !.pc = "admit", !.block = b, !.store = b]]
    /\ UNCHANGED <<epochs, cached, locked, direct, reliances, table, recent, queue, db, posted, sink, passed, halted>>

(* BlockExistsAdd: a block that is cached, queued or stored is ignored.    *)
Admit(t) ==
    LET b == thread[t].block
    IN  /\ thread[t].pc = "admit"
        /\ IF b \in cached \/ BlockExists(b)
           THEN /\ EndTask(t)
                /\ UNCHANGED cached
           ELSE /\ Continue(t, "insert", b)
                /\ cached' = cached \cup {b}
        /\ UNCHANGED <<epochs, locked, direct, reliances, table, recent, queue, db, posted, sink, halted>>

NewPeriod(n) == [epoch_num |-> n, eb |-> None, mbs |-> <<>>, rbs |-> [c \in Chains |-> <<>>]]

EmptyPeriod(p) == p.eb = None /\ p.mbs = <<>> /\ \A c \in Chains : p.rbs[c] = <<>>

(* The index of the period of epoch n, or where it would be put.           *)
PeriodIndex(n) == 1 + Cardinality({i \in DOMAIN epochs : epochs[i].epoch_num < n})

HasPeriod(n) == \E i \in DOMAIN epochs : epochs[i].epoch_num = n

(* A list with x put at position i, and without what is at position i.     *)
PutAt(s, i, x) == [j \in 1..(Len(s) + 1) |-> IF j < i THEN s[j] ELSE IF j = i THEN x ELSE s[j - 1]]

DropAt(s, i) == [j \in 1..(Len(s) - 1) |-> IF j < i THEN s[j] ELSE s[j + 1]]

(* A pending list is sorted by sequence and keeps the first comer of each. *)
InsertSorted(s, b) ==
    LET i == 1 + Cardinality({j \in DOMAIN s : Sequence[s[j]] < Sequence[b]})
    IN  IF \E x \in Range(s) : Sequence[x] = Sequence[b] THEN s ELSE PutAt(s, i, b)

AddToPeriod(p, b) ==
    CASE Kind[b] = "R" -> [p EXCEPT !.rbs[Chain[b]] = InsertSorted(@, b)]
      [] Kind[b] = "M" -> [p EXCEPT !.mbs = InsertSorted(@, b)]
      [] Kind[b] = "E" -> [p EXCEPT !.eb = IF @ = None THEN b ELSE @]

(* need_validate: the block came first in its list; for micro and epoch    *)
(* blocks only the oldest period counts.  old is the block's period before *)
(* the insertion, at index i.                                              *)
NeedValidate(b, i, old) ==
    IF ~HasPeriod(Epoch[b])
    THEN Kind[b] = "R" \/ i = 1
    ELSE CASE Kind[b] = "R" -> \A x \in Range(old.rbs[Chain[b]]) : Sequence[x] > Sequence[b]
           [] Kind[b] = "M" -> i = 1 /\ \A x \in Range(old.mbs) : Sequence[x] > Sequence[b]
           [] Kind[b] = "E" -> i = 1 /\ EmptyPeriod(old)

(* AddRequestBlock, AddMicroBlock and AddEpochBlock of the container.      *)
Insert(t) ==
    LET b == thread[t].block
        i == PeriodIndex(Epoch[b])
        known == HasPeriod(Epoch[b])
        old == IF known THEN epochs[i] ELSE NewPeriod(Epoch[b])
        new == AddToPeriod(old, b)
    IN  /\ thread[t].pc = "insert"
        /\ epochs' = IF known THEN [epochs EXCEPT ![i] = new] ELSE PutAt(epochs, i, new)
        /\ direct' = IF thread[t].store = b THEN direct \cup {b} ELSE direct
        /\ IF NeedValidate(b, i, old) THEN Continue(t, "next", None) ELSE EndTask(t)
        /\ UNCHANGED <<cached, locked, reliances, table, recent, queue, db, posted, sink, halted>>

-----------------------------------------------------------------------------
(* Validation                                                              *)

(* A pending block can be taken for validation when it waits for nothing   *)
(* and no thread validates it; held are the locked blocks.                 *)
Ready(b, held) == b # None /\ reliances[b] = {} /\ b \notin held

FirstReady(s, held) == {b \in Range(s) : b = Head(s) /\ Ready(b, held)}

(* The blocks GetNextBlock may choose from when it enters a period without *)
(* a block in hand: the first request block of a chain, else the first     *)
(* micro block, else the epoch block when no micro block is pending.  The  *)
(* code tries the chains in the order of their delegates from rb_idx on.   *)
PeriodChoice(p, held) ==
    LET rbs == UNION {FirstReady(p.rbs[c], held) : c \in Chains}
        mbs == FirstReady(p.mbs, held)
    IN  CASE rbs # {} -> rbs
          [] rbs = {} /\ mbs # {} -> mbs
          [] OTHER -> {b \in {p.eb} : p.mbs = <<>> /\ Ready(b, held)}

(* The request blocks of the newest epoch may be validated before the      *)
(* oldest epoch has ended, as long as neither has a micro block pending.   *)
GoesOn(e, i) ==
    /\ Len(e) = 2
    /\ i = 1
    /\ e[1].eb = None
    /\ e[1].mbs = <<>>
    /\ e[2].mbs = <<>>

(* The search from period i of e on.                                       *)
SearchFrom(e, i, held) ==
    IF i > Len(e) THEN {}
    ELSE IF PeriodChoice(e[i], held) # {} THEN PeriodChoice(e[i], held)
    ELSE IF GoesOn(e, i) THEN PeriodChoice(e[2], held)
    ELSE {}

(* The search in period i after a micro block or an unsuccessful epoch     *)
(* block: it does not return to the request blocks, and reaches the epoch  *)
(* block when ended.                                                       *)
SearchLate(e, i, mbs, ended, held) ==
    IF mbs # {} THEN mbs
    ELSE IF ended /\ Ready(e[i].eb, held) THEN {e[i].eb}
    ELSE IF GoesOn(e, i) THEN PeriodChoice(e[2], held)
    ELSE {}

(* Mutant of PopFront: a block that failed validation is dropped too.      *)
MutantPopFront(i, b, success) ==
    CASE Kind[b] = "R" -> [epochs EXCEPT ![i].rbs[Chain[b]] = Tail(@)]
      [] Kind[b] = "M" -> [epochs EXCEPT ![i].mbs = Tail(@)]
      [] Kind[b] = "E" -> DropAt(epochs, i)

(* What is left of the periods when block b of period i has been validated *)
(* or not: pop_front on the list of b, whatever is in front of it.         *)
PopFront(i, b, success) ==
    IF ~success THEN epochs
    ELSE CASE Kind[b] = "R" -> [epochs EXCEPT ![i].rbs[Chain[b]] = Tail(@)]
           [] Kind[b] = "M" -> [epochs EXCEPT ![i].mbs = Tail(@)]
           [] Kind[b] = "E" -> DropAt(epochs, i)

PopsNothing(i, b, success) ==
    success /\ \/ Kind[b] = "R" /\ epochs[i].rbs[Chain[b]] = <<>>
               \/ Kind[b] = "M" /\ epochs[i].mbs = <<>>

(* The blocks GetNextBlock may return after block b of period i.           *)
Choice(e, i, b, success, held) ==
    CASE Kind[b] = "R" -> SearchFrom(e, i, held)
      [] Kind[b] = "M" ->
           SearchLate(e, i, FirstReady(e[i].mbs, held),
                      epochs[i].mbs = <<>> \/ (success /\ b \in LastMicro), held)
      [] Kind[b] = "E" /\ success -> SearchFrom(e, i, held)
      [] Kind[b] = "E" /\ ~success -> SearchLate(e, i, {}, e[i].mbs = <<>>, held)

(* Mutant of Take: the lock is not set.                                    *)
MutantTake(t, choice, held) ==
    \/ /\ choice = {}
       /\ EndTask(t)
       /\ locked' = held
    \/ \E b \in choice :
          /\ Continue(t, "verify", b)
          /\ locked' = held

(* The task goes on with one of the blocks of choice, or ends.             *)
Take(t, choice, held) ==
    \/ /\ choice = {}
       /\ EndTask(t)
       /\ locked' = held
    \/ \E b \in choice :
          /\ Continue(t, "verify", b)
          /\ locked' = held \cup {b}

(* GetNextBlock.  Popping an empty list is undefined behaviour: the        *)
(* destructor of a block that is not there kills the process.              *)
GetNextBlock(t) ==
    LET b == thread[t].block
        success == thread[t].success
        held == locked \ {b}
        i == PeriodIndex(Epoch[b])
        e == PopFront(i, b, success)
    IN  /\ thread[t].pc = "next"
        /\ CASE b = None ->
                  /\ Take(t, SearchFrom(epochs, 1, held), held)
                  /\ UNCHANGED <<epochs, halted>>
             [] b # None /\ ~HasPeriod(Epoch[b]) ->
                  /\ Take(t, {}, held)
                  /\ UNCHANGED <<epochs, halted>>
             [] b # None /\ HasPeriod(Epoch[b]) /\ PopsNothing(i, b, success) ->
                  /\ halted' = TRUE
                  /\ UNCHANGED <<epochs, locked, thread, passed>>
             [] OTHER ->
                  /\ epochs' = e
                  /\ Take(t, Choice(e, i, b, success, held), held)
                  /\ UNCHANGED halted
        /\ UNCHANGED <<cached, direct, reliances, table, recent, queue, db, posted, sink>>

(* The missing hashes in the order in which they are added as              *)
(* dependencies: that of the requests of the block.                        *)
InSomeOrder(S) == CHOOSE s \in Injection(1..Cardinality(S), S) : TRUE

(* One round of Validate: a block verified here or by consensus goes to    *)
(* the write queue, one that lacks something will wait for it, and any     *)
(* other error halts the node.                                             *)
Verify(t) ==
    LET b == thread[t].block
        Is(pc, success, todo) == thread' = [thread EXCEPT ![t].pc = pc, ![t].success = success, ![t].todo = todo]
    IN  /\ thread[t].pc = "verify"
        /\ CASE b \in direct \/ (Missing(b) = {} /\ ~Refused(b)) ->
                  /\ queue' = Append(queue, b)
                  /\ Is("delete", TRUE, <<>>)
                  /\ UNCHANGED halted
             [] b \notin direct /\ Refused(b) ->
                  /\ halted' = TRUE
                  /\ UNCHANGED <<queue, thread>>
             [] OTHER ->
                  /\ Is("depend", FALSE, InSomeOrder(Missing(b)))
                  /\ UNCHANGED <<queue, halted>>
        /\ UNCHANGED <<epochs, cached, locked, direct, reliances, table, recent, db, posted, sink, passed>>

BlockDelete(t) ==
    /\ thread[t].pc = "delete"
    /\ cached' = cached \ {thread[t].block}
    /\ thread' = [thread EXCEPT ![t].pc = "next"]
    /\ UNCHANGED <<epochs, locked, direct, reliances, table, recent, queue, db, posted, sink, passed, halted>>

-----------------------------------------------------------------------------
(* Dependencies                                                            *)

(* The task is done with the first hash of its list.                       *)
NextDependency(t) ==
    thread' = [thread EXCEPT ![t].todo = Tail(@), ![t].pc = IF Len(thread[t].todo) = 1 THEN "next" ELSE "depend"]

(* AddHashDependency, its first section: the hash is entered in the table  *)
(* unless it has recently been written.                                    *)
AddHashDependency(t) ==
    LET h == Head(thread[t].todo)
    IN  /\ thread[t].pc = "depend"
        /\ IF h \in Range(recent)
           THEN /\ NextDependency(t)
                /\ UNCHANGED table
           ELSE /\ table' = table \cup {<<h, thread[t].block>>}
                /\ thread' = [thread EXCEPT ![t].pc = "rely"]
        /\ UNCHANGED <<epochs, cached, locked, direct, reliances, recent, queue, db, posted, sink, passed, halted>>

(* Its second section.                                                     *)
AddReliance(t) ==
    /\ thread[t].pc = "rely"
    /\ reliances' = [reliances EXCEPT ![thread[t].block] = @ \cup {Head(thread[t].todo)}]
    /\ NextDependency(t)
    /\ UNCHANGED <<epochs, cached, locked, direct, table, recent, queue, db, posted, sink, passed, halted>>

(* WriteThread: ApplyUpdates ignores a block that is already stored and    *)
(* dies when it cannot link the block to its previous one.                 *)
WriteThread ==
    LET b == Head(queue)
    IN  /\ queue # <<>>
        /\ IF b \notin db /\ MissingPrevious(b)
           THEN /\ halted' = TRUE
                /\ UNCHANGED <<db, queue, posted>>
           ELSE /\ db' = db \cup {b}
                /\ queue' = Tail(queue)
                /\ posted' = posted \cup {b}
                /\ UNCHANGED halted
        /\ UNCHANGED <<epochs, cached, locked, direct, reliances, table, recent, sink, passed, thread>>

(* ProcessDependencies starts: the hash of the block and the hashes it     *)
(* contains are handled one after the other.                               *)
ProcessDependencies(t, b) ==
    /\ thread[t].pc = "idle"
    /\ b \in posted
    /\ posted' = posted \ {b}
    /\ thread' = [thread EXCEPT ![t] = [Idle EXCEPT !.pc = "clear", !.todo = <<b>> \o Content[b]]]
    /\ UNCHANGED <<epochs, cached, locked, direct, reliances, table, recent, queue, db, sink, passed, halted>>

(* Mutant of NextHash: blocks are marked but not validated again.          *)
MutantNextHash(t, found) ==
    IF Len(thread[t].todo) > 1
    THEN /\ thread' = [thread EXCEPT ![t].pc = "clear", ![t].todo = Tail(@), ![t].found = found, ![t].waiters = {}]
         /\ UNCHANGED passed
    ELSE EndTask(t)

(* MarkAsValidated goes on to the next hash, or ends: the task validates   *)
(* when some block waited for one of the hashes.                           *)
NextHash(t, found) ==
    IF Len(thread[t].todo) > 1
    THEN /\ thread' = [thread EXCEPT ![t].pc = "clear", ![t].todo = Tail(@), ![t].found = found, ![t].waiters = {}]
         /\ UNCHANGED passed
    ELSE IF found THEN Continue(t, "next", None) ELSE EndTask(t)

(* push_back ignores a hash that is already there.                         *)
PushRecent(h) ==
    LET pushed == IF h \in Range(recent) THEN recent ELSE Append(recent, h)
    IN  IF Len(pushed) > MaxRecent THEN Tail(pushed) ELSE pushed

DeleteHashDependencies(t) ==
    LET h == Head(thread[t].todo)
        waiters == {b \in Blocks : <<h, b>> \in table}
    IN  /\ thread[t].pc = "clear"
        /\ recent' = PushRecent(h)
        /\ table' = {d \in table : d[1] # h}
        /\ IF waiters = {}
           THEN NextHash(t, thread[t].found)
           ELSE /\ thread' = [thread EXCEPT ![t].pc = "mark", ![t].waiters = waiters]
                /\ UNCHANGED passed
        /\ UNCHANGED <<epochs, cached, locked, direct, reliances, queue, db, posted, sink, halted>>

MarkForRevalidation(t) ==
    /\ thread[t].pc = "mark"
    /\ reliances' = [b \in Blocks |-> IF b \in thread[t].waiters THEN reliances[b] \ {Head(thread[t].todo)}
                                      ELSE reliances[b]]
    /\ NextHash(t, TRUE)
    /\ UNCHANGED <<epochs, cached, locked, direct, table, recent, queue, db, posted, sink, halted>>

-----------------------------------------------------------------------------
Step(t) ==
    \/ Admit(t)
    \/ Insert(t)
    \/ GetNextBlock(t)
    \/ Verify(t)
    \/ BlockDelete(t)
    \/ AddHashDependency(t)
    \/ AddReliance(t)
    \/ DeleteHashDependencies(t)
    \/ MarkForRevalidation(t)

Running ==
    \/ WriteThread
    \/ \E t \in setting.threads :
          \/ Step(t)
          \/ \E b \in setting.blocks : Receive(t, b) \/ OnPostCommit(t, b) \/ ProcessDependencies(t, b)
    \/ \E b \in setting.blocks : OnPostCommittedBlock(b)

Next == ~halted /\ Running /\ UNCHANGED setting

(* The operating system runs every thread, and the io_service takes its    *)
(* handlers first in, first out: posted tasks are not passed over forever. *)
Spec ==
    /\ Init
    /\ [][Next]_vars
    /\ WF_vars(~halted /\ WriteThread /\ UNCHANGED setting)
    /\ \A t \in Threads : WF_vars(~halted /\ Step(t) /\ UNCHANGED setting)
    /\ SF_vars(~halted /\ UNCHANGED setting
                 /\ \E t \in setting.threads, b \in setting.blocks : ProcessDependencies(t, b))

-----------------------------------------------------------------------------
(* Properties                                                              *)

Pending == (UNION {{p.eb} \cup Range(p.mbs) \cup UNION {Range(p.rbs[c]) : c \in Chains} : p \in Range(epochs)}) \ {None}

Alone == Cardinality(setting.threads) = 1

(* The node does not die on blocks the network has agreed on.  The write   *)
(* thread always finds the previous block of the one it takes next         *)
(* (consensus_block_update_next), also when a delegate writes what it      *)
(* agreed on and another thread what came over p2p.  With one pool thread  *)
(* validation refuses no block and pops no empty list either.              *)
NodeKeepsRunning ==
    /\ queue # <<>> => Head(queue) \in db \/ ~MissingPrevious(Head(queue))
    /\ Alone => ~halted

(* With one pool thread a block in _cached_blocks is in a pending list or  *)
(* in the hands of the thread.  A block that were neither would never be   *)
(* stored, and every later copy of it would be refused as already cached.  *)
NothingLost == Alone => \A b \in cached : b \in Pending \/ \E t \in Threads : thread[t].block = b

(* The lock flag: two threads never validate the same block.               *)
ExclusiveValidation ==
    \A t, u \in Threads :
        {thread[t].pc, thread[u].pc} \subseteq {"verify", "delete", "depend", "rely"} /\ thread[t].block = thread[u].block
            => t = u

(* The database never holds a block without its previous block, the        *)
(* content it refers to, and for an epoch block the request blocks of its  *)
(* epoch.                                                                  *)
DependenciesFirst ==
    \A b \in db :
        /\ ~MissingPrevious(b)
        /\ MissingNeeds(b) = {}
        /\ Kind[b] = "E" => RequestBlocks(Epoch[b]) \subseteq db

(* A pending block that waits for a hash is entered in the table, or a     *)
(* thread is about to tell it; and a table entry for a hash that is        *)
(* already stored has a dependency task still to come for it.              *)
NoLostWakeup ==
    /\ \A b \in Blocks : \A h \in reliances[b] :
          \/ <<h, b>> \in table
          \/ \E t \in Threads : thread[t].pc = "mark" /\ b \in thread[t].waiters /\ h = Head(thread[t].todo)
    /\ \A d \in table :
          Stored(d[1]) => \/ \E b \in posted : d[1] \in {b} \cup Range(Content[b])
                          \/ \E t \in Threads : thread[t].pc \in {"clear", "mark"} /\ d[1] \in Range(thread[t].todo)

(* At a node with one pool thread, once every block has come in they are  *)
(* all written, in whatever order they came.                               *)
EventuallyStored ==
    (Alone /\ setting.blocks = cached \cup Range(queue) \cup db)
        ~> (db = setting.blocks)
=============================================================================
