-------------------------- MODULE BlockCacheProofs --------------------------
(***************************************************************************)
(* The block cache, for any blocks, chains, settings and number of pool    *)
(* threads: no two threads validate a block, and the database never holds  *)
(* a block before what it depends on.                                      *)
(*                                                                         *)
(* The periods of _epochs stay sorted and each list holds the blocks of    *)
(* one place in order (GoodPeriods), so the period a block is looked up in *)
(* is the one it was put in.  A block being validated is locked, and who   *)
(* looks for a block passes over the locked ones (Locks).  What reaches    *)
(* the write queue had its dependencies in the database, which only grows  *)
(* (Verified).                                                             *)
(***************************************************************************)
EXTENDS BlockCache, FiniteSetTheorems, TLAPS

(* The provers a leaf is tried with, and their time in seconds *)
USE SMTT(30), ZenonT(30)

Hash == Blocks \cup UNION {Range(Content[b]) \cup Needs[b] : b \in Blocks}

Validating == {"verify", "delete", "depend", "rely"}

Task == [pc : Validating \cup {"idle", "admit", "insert", "next", "clear", "mark"},
         block : setting.blocks \cup {None},
         success : BOOLEAN,
         todo : Seq(Hash),
         waiters : SUBSET Blocks,
         found : BOOLEAN,
         store : setting.blocks \cup {None}]

Period == [epoch_num : Nat,
           eb : setting.blocks \cup {None},
           mbs : Seq(setting.blocks),
           rbs : [Chains -> Seq(setting.blocks)]]

(* A pending list holds blocks of one kind and epoch in the order of their *)
(* sequence numbers.                                                       *)
GoodList(s, k, n) ==
    /\ s \in Seq(setting.blocks)
    /\ \A i \in 1..Len(s) : Kind[s[i]] = k /\ Epoch[s[i]] = n
    /\ \A i, j \in 1..Len(s) : i < j => Sequence[s[i]] < Sequence[s[j]]

GoodPeriod(p) ==
    /\ p \in Period
    /\ p.eb # None => Kind[p.eb] = "E" /\ Epoch[p.eb] = p.epoch_num
    /\ GoodList(p.mbs, "M", p.epoch_num)
    /\ \A c \in Chains : /\ GoodList(p.rbs[c], "R", p.epoch_num)
                         /\ \A i \in 1..Len(p.rbs[c]) : Chain[p.rbs[c][i]] = c

GoodPeriods(e) ==
    /\ e \in Seq(Period)
    /\ \A i \in 1..Len(e) : GoodPeriod(e[i])
    /\ \A i, j \in 1..Len(e) : i < j => e[i].epoch_num < e[j].epoch_num

Typed ==
    /\ setting \in Settings
    /\ GoodPeriods(epochs)
    /\ cached \subseteq setting.blocks
    /\ direct \subseteq setting.blocks
    /\ reliances \in [Blocks -> SUBSET Hash]
    /\ queue \in Seq(setting.blocks)
    /\ db \subseteq setting.blocks
    /\ posted \subseteq setting.blocks
    /\ thread \in [Threads -> Task]
    /\ \A t \in Threads :
          /\ thread[t].pc \in {"depend", "rely", "clear", "mark"} => thread[t].todo # <<>>
          /\ thread[t].pc \in Validating \cup {"admit", "insert"} => thread[t].block # None

(* A task has a block in validation from the moment GetNextBlock returns   *)
(* it until it comes back.                                                 *)
Holds(t) == thread[t].pc \in Validating \/ (thread[t].pc = "next" /\ thread[t].block # None)

Locks ==
    \A t \in Threads : Holds(t) =>
        /\ thread[t].block \in locked
        /\ \A u \in Threads : Holds(u) /\ thread[u].block = thread[t].block => t = u

(* What a block depends on is stored, but for its previous block.          *)
Backed(b) ==
    /\ MissingNeeds(b) = {}
    /\ Kind[b] = "E" => RequestBlocks(Epoch[b]) \subseteq db

(* The blocks that nothing but the write thread will look at again.        *)
Accepted == (db \cup direct \cup Range(queue) \cup {thread[t].store : t \in Threads}) \ {None}

Verified ==
    /\ \A b \in Accepted : Backed(b)
    /\ \A b \in db : ~MissingPrevious(b)

-----------------------------------------------------------------------------
(* Sequences                                                               *)

(* A downward closed set of positions is an initial segment.               *)
LEMMA InitialSegment ==
    ASSUME NEW n \in Nat, NEW S \in SUBSET (1..n),
           \A i \in S : \A j \in 1..i : j \in S
    PROVE  /\ Cardinality(S) \in 0..n
           /\ S = 1..Cardinality(S)
  <1> DEFINE T == (1..(n + 1)) \ S
  <1>1. T \subseteq Nat /\ T # {}
    <2>1. n + 1 \in T
      OBVIOUS
    <2> QED BY <2>1
  <1>2. PICK m \in T : \A k \in T : ~(k < m)
    <2>1. \E m \in T : \A k \in T : ~(<<k, m>> \in OpToRel(<, Nat))
      BY ONLY <1>1, NatLessThanWellFounded, WFMin, ZenonT(30)
    <2> QED BY <1>1, <2>1, Zenon DEF OpToRel
  <1>3. S = 1..(m - 1)
    <2>1. m \in 1..(n + 1)
      BY Zenon
    <2>2. \A i \in 1..(m - 1) : i \in S
      BY <1>2, <2>1
    <2>3. \A i \in S : i \in 1..(m - 1)
      BY <2>1
    <2>4. S \subseteq 1..(m - 1) /\ 1..(m - 1) \subseteq S
      BY <2>2, <2>3, Zenon
    <2> QED BY <2>4, Zenon
  <1>4. Cardinality(S) = m - 1
    BY <1>2, <1>3, FS_Interval
  <1> QED BY <1>2, <1>3, <1>4

(* w is sequence s, of members of S, with x put in at place i.             *)
HasPut(w, s, i, x, S) ==
    /\ w \in Seq(S)
    /\ Len(w) = Len(s) + 1
    /\ \A j \in 1..(Len(s) + 1) : w[j] = IF j < i THEN s[j] ELSE IF j = i THEN x ELSE s[j - 1]

LEMMA PutAtProperties ==
    ASSUME NEW S, NEW s \in Seq(S), NEW i \in 1..(Len(s) + 1), NEW x \in S
    PROVE  HasPut(PutAt(s, i, x), s, i, x, S)
  <1> DEFINE w == PutAt(s, i, x)
  <1>1. Len(s) \in Nat /\ \A j \in 1..Len(s) : s[j] \in S
    OBVIOUS
  <1>2. \A j \in 1..(Len(s) + 1) : w[j] = IF j < i THEN s[j] ELSE IF j = i THEN x ELSE s[j - 1]
    BY Zenon DEF PutAt
  <1>3. \A j \in 1..(Len(s) + 1) : (j < i => j \in 1..Len(s)) /\ (j > i => j - 1 \in 1..Len(s))
    BY <1>1
  <1>4. DOMAIN w = 1..(Len(s) + 1) /\ w = [j \in DOMAIN w |-> w[j]]
    BY Zenon DEF PutAt
  <1>5. \A j \in 1..(Len(s) + 1) : w[j] \in S
    BY <1>1, <1>2, <1>3
  <1> HIDE DEF w
  <1>6. w \in [1..(Len(s) + 1) -> S]
    BY <1>4, <1>5, Zenon
  <1>7. w \in Seq(S) /\ Len(w) = Len(s) + 1
    BY <1>1, <1>6
  <1> QED BY <1>2, <1>7, Zenon DEF w, HasPut

(* What DropAt returns.                                                    *)
LEMMA DropAtProperties ==
    ASSUME NEW S, NEW s \in Seq(S), NEW i \in 1..Len(s)
    PROVE  /\ DropAt(s, i) \in Seq(S)
           /\ Len(DropAt(s, i)) = Len(s) - 1
           /\ \A j \in 1..(Len(s) - 1) : DropAt(s, i)[j] = IF j < i THEN s[j] ELSE s[j + 1]
  <1> DEFINE w == DropAt(s, i)
  <1>1. Len(s) \in Nat \ {0} /\ \A j \in 1..Len(s) : s[j] \in S
    OBVIOUS
  <1>2. \A j \in 1..(Len(s) - 1) : w[j] = IF j < i THEN s[j] ELSE s[j + 1]
    BY Zenon DEF DropAt
  <1>3. \A j \in 1..(Len(s) - 1) : j \in 1..Len(s) /\ j + 1 \in 1..Len(s)
    BY <1>1
  <1>4. DOMAIN w = 1..(Len(s) - 1) /\ w = [j \in DOMAIN w |-> w[j]]
    BY Zenon DEF DropAt
  <1>5. \A j \in 1..(Len(s) - 1) : w[j] \in S
    BY <1>1, <1>2, <1>3, Zenon
  <1> HIDE DEF w
  <1>6. w \in [1..(Len(s) - 1) -> S]
    BY <1>4, <1>5, Zenon
  <1>7. w \in Seq(S) /\ Len(w) = Len(s) - 1
    BY <1>1, <1>6
  <1> QED BY <1>2, <1>7, Zenon DEF w

(* A finite set has an order.                                              *)
LEMMA InSomeOrderProperties ==
    ASSUME NEW S, IsFiniteSet(S), S # {}
    PROVE  InSomeOrder(S) \in Seq(S) /\ InSomeOrder(S) # <<>>
  <1>1. PICK f \in Injection(1..Cardinality(S), S) : TRUE
    BY FS_CardinalityType, Zenon DEF ExistsBijection, Bijection
  <1>2. Cardinality(S) \in Nat \ {0}
    BY FS_CardinalityType, FS_EmptySet, Zenon
  <1>3. InSomeOrder(S) \in Injection(1..Cardinality(S), S)
    BY <1>1, Zenon DEF InSomeOrder
  <1>4. InSomeOrder(S) \in [1..Cardinality(S) -> S]
    BY <1>3, Zenon DEF Injection
  <1> QED BY <1>2, <1>4

-----------------------------------------------------------------------------
(* Pending lists and periods                                               *)

BlocksOf(p) == ({p.eb} \cup Range(p.mbs) \cup UNION {Range(p.rbs[c]) : c \in Chains}) \ {None}

(* InsertSorted keeps a list sorted, loses nothing of it, and adds the     *)
(* block unless one with its number is there.                              *)
LEMMA InsertSortedGood ==
    ASSUME setting \in Settings, NEW s, NEW k, NEW n, GoodList(s, k, n),
           NEW b \in setting.blocks, Kind[b] = k, Epoch[b] = n
    PROVE  /\ GoodList(InsertSorted(s, b), k, n)
           /\ Range(s) \subseteq Range(InsertSorted(s, b))
           /\ Range(InsertSorted(s, b)) \subseteq Range(s) \cup {b}
           /\ b \in Range(InsertSorted(s, b)) \/ \E x \in Range(s) : Sequence[x] = Sequence[b]
  <1>1. CASE \E x \in Range(s) : Sequence[x] = Sequence[b]
    BY <1>1, Zenon DEF InsertSorted
  <1>2. CASE ~\E x \in Range(s) : Sequence[x] = Sequence[b]
    <2> DEFINE S == {j \in DOMAIN s : Sequence[s[j]] < Sequence[b]}
               i == 1 + Cardinality(S)
               w == PutAt(s, i, b)
    <2>1. s \in Seq(setting.blocks) /\ Len(s) \in Nat /\ DOMAIN s = 1..Len(s)
      BY DEF GoodList
    <2>2. /\ Sequence[b] \in Nat
          /\ \A j \in 1..Len(s) : s[j] \in setting.blocks /\ Sequence[s[j]] \in Nat /\ Sequence[s[j]] # Sequence[b]
      <3>1. setting.blocks \subseteq Blocks
        BY BlocksAssumption, Zenon
      <3>2. \A x \in setting.blocks : Sequence[x] \in Nat
        BY <3>1, BlocksAssumption, Zenon
      <3>3. \A j \in 1..Len(s) : s[j] \in setting.blocks /\ s[j] \in Range(s)
        BY <2>1 DEF Range
      <3> QED BY <1>2, <3>2, <3>3, Zenon
    <2>3. \A j \in S : \A h \in 1..j : h \in S
      <3> SUFFICES ASSUME NEW j \in S, NEW h \in 1..j
                   PROVE  h \in S
        BY Zenon
      <3>1. h \in 1..Len(s) /\ j \in 1..Len(s) /\ Sequence[s[j]] < Sequence[b]
        BY <2>1
      <3>2. h = j \/ Sequence[s[h]] < Sequence[s[j]]
        BY <3>1 DEF GoodList
      <3> QED BY <2>1, <2>2, <3>1, <3>2
    <2>4. S \in SUBSET (1..Len(s))
      BY <2>1, Zenon
    <2>5. Cardinality(S) \in 0..Len(s) /\ S = 1..Cardinality(S)
      <3> HIDE DEF S
      <3> QED BY <2>1, <2>3, <2>4, InitialSegment, Zenon
    <2>6. i \in 1..(Len(s) + 1) /\ \A j \in 1..Len(s) : IF j < i THEN Sequence[s[j]] < Sequence[b]
                                                       ELSE Sequence[b] < Sequence[s[j]]
      <3>1. \A j \in 1..Len(s) : j \in S <=> Sequence[s[j]] < Sequence[b]
        BY <2>1, Zenon
      <3> HIDE DEF S
      <3> QED BY <2>1, <2>2, <2>5, <3>1
    <2>7. w = InsertSorted(s, b)
      BY <1>2, Zenon DEF InsertSorted
    <2> HIDE DEF i
    <2>8. /\ w \in Seq(setting.blocks) /\ Len(w) = Len(s) + 1
          /\ \A j \in 1..(Len(s) + 1) : w[j] = IF j < i THEN s[j] ELSE IF j = i THEN b ELSE s[j - 1]
      <3>1. HasPut(w, s, i, b, setting.blocks)
        BY <2>1, <2>6, PutAtProperties, Zenon
      <3> QED BY <3>1, Zenon DEF HasPut
    <2> HIDE DEF w
    <2>9. \A j \in 1..Len(w) : w[j] = b \/ \E h \in 1..Len(s) : w[j] = s[h]
      BY <2>1, <2>6, <2>8
    <2>10. GoodList(w, k, n)
      <3>1. \A j \in 1..Len(w) : Kind[w[j]] = k /\ Epoch[w[j]] = n
        BY <2>9 DEF GoodList
      <3>2. ASSUME NEW g \in 1..Len(w), NEW j \in 1..Len(w), g < j
            PROVE  Sequence[w[g]] < Sequence[w[j]]
        <4>1. \A a, c \in 1..Len(s) : a < c => Sequence[s[a]] < Sequence[s[c]]
          BY Zenon DEF GoodList
        <4>2. CASE j < i
          BY <2>1, <2>6, <2>8, <3>2, <4>1, <4>2
        <4>3. CASE j = i
          BY <2>1, <2>6, <2>8, <3>2, <4>3
        <4>4. CASE j > i /\ g < i
          <5>1. j - 1 \in 1..Len(s) /\ g \in 1..Len(s) /\ g < j - 1
            BY <2>1, <2>6, <2>8, <3>2, <4>4
          <5>2. w[j] = s[j - 1] /\ w[g] = s[g]
            BY <2>1, <2>6, <2>8, <4>4
          <5> QED BY <4>1, <5>1, <5>2, Zenon
        <4>5. CASE j > i /\ g = i
          <5>1. j - 1 \in 1..Len(s) /\ ~(j - 1 < i)
            BY <2>1, <2>6, <2>8, <4>5
          <5>2. w[j] = s[j - 1] /\ w[g] = b
            BY <2>1, <2>6, <2>8, <4>5
          <5> QED BY <2>6, <5>1, <5>2, Zenon
        <4>6. CASE j > i /\ g > i
          <5>1. j - 1 \in 1..Len(s) /\ g - 1 \in 1..Len(s) /\ g - 1 < j - 1
            BY <2>1, <2>6, <2>8, <3>2, <4>6
          <5>2. w[j] = s[j - 1] /\ w[g] = s[g - 1]
            BY <2>1, <2>6, <2>8, <4>6
          <5> QED BY <4>1, <5>1, <5>2, Zenon
        <4> QED BY <2>6, <4>2, <4>3, <4>4, <4>5, <4>6
      <3> QED BY <2>8, <3>1, <3>2, Zenon DEF GoodList
    <2>11. b \in Range(w)
      <3>1. i \in DOMAIN w /\ w[i] = b
        BY <2>1, <2>6, <2>8
      <3> QED BY <3>1, Zenon DEF Range
    <2>12. Range(s) \subseteq Range(w)
      <3> SUFFICES ASSUME NEW h \in 1..Len(s)
                   PROVE  \E j \in 1..Len(w) : w[j] = s[h]
        BY <2>1, <2>8 DEF Range
      <3>1. CASE h < i
        BY <2>1, <2>6, <2>8, <3>1
      <3>2. CASE h >= i
        <4>1. h + 1 \in 1..Len(w) /\ ~(h + 1 < i) /\ h + 1 # i /\ (h + 1) - 1 = h
          BY <2>1, <2>6, <2>8, <3>2
        <4>2. w[h + 1] = s[h]
          BY <2>8, <4>1
        <4> QED BY <4>1, <4>2, Zenon
      <3> QED BY <2>6, <3>1, <3>2
    <2>13. Range(w) \subseteq Range(s) \cup {b}
      BY <2>1, <2>8, <2>9 DEF Range
    <2> QED BY <2>7, <2>10, <2>11, <2>12, <2>13, Zenon
  <1> QED BY <1>1, <1>2, Zenon

(* The period of an epoch is where PeriodIndex says.                       *)
LEMMA PeriodFound ==
    ASSUME GoodPeriods(epochs), NEW j \in 1..Len(epochs)
    PROVE  PeriodIndex(epochs[j].epoch_num) = j
  <1>1. Len(epochs) \in Nat /\ DOMAIN epochs = 1..Len(epochs)
    BY DEF GoodPeriods
  <1>2. \A i \in 1..Len(epochs) : epochs[i].epoch_num \in Nat
    BY Zenon DEF GoodPeriods, GoodPeriod, Period
  <1>3. \A i \in 1..Len(epochs) : epochs[i].epoch_num < epochs[j].epoch_num <=> i < j
    BY <1>1, <1>2 DEF GoodPeriods
  <1>4. {i \in DOMAIN epochs : epochs[i].epoch_num < epochs[j].epoch_num} = 1..(j - 1)
    BY <1>1, <1>3
  <1>5. Cardinality(1..(j - 1)) = j - 1
    BY <1>1, FS_Interval
  <1>6. PeriodIndex(epochs[j].epoch_num) = 1 + Cardinality(1..(j - 1))
    BY <1>4, Zenon DEF PeriodIndex
  <1> QED BY <1>1, <1>5, <1>6

(* A new period goes where the order of the epochs puts it.                *)
LEMMA PeriodPlace ==
    ASSUME GoodPeriods(epochs), NEW n \in Nat, ~HasPeriod(n)
    PROVE  /\ PeriodIndex(n) \in 1..(Len(epochs) + 1)
           /\ \A j \in 1..Len(epochs) : IF j < PeriodIndex(n) THEN epochs[j].epoch_num < n
                                        ELSE n < epochs[j].epoch_num
  <1> DEFINE S == {i \in DOMAIN epochs : epochs[i].epoch_num < n}
  <1>1. Len(epochs) \in Nat /\ DOMAIN epochs = 1..Len(epochs)
    BY DEF GoodPeriods
  <1>2. \A i \in 1..Len(epochs) : epochs[i].epoch_num \in Nat /\ epochs[i].epoch_num # n
    BY <1>1, Zenon DEF GoodPeriods, GoodPeriod, Period, HasPeriod
  <1>3. \A i \in S : \A j \in 1..i : j \in S
    <2> SUFFICES ASSUME NEW i \in S, NEW j \in 1..i
                 PROVE  j \in S
      BY Zenon
    <2>1. j \in 1..Len(epochs) /\ i \in 1..Len(epochs) /\ epochs[i].epoch_num < n
      BY <1>1
    <2>2. j = i \/ epochs[j].epoch_num < epochs[i].epoch_num
      BY <2>1 DEF GoodPeriods
    <2> QED BY <1>1, <1>2, <2>1, <2>2
  <1>4. S \in SUBSET (1..Len(epochs))
    BY <1>1, Zenon
  <1>5. \A j \in 1..Len(epochs) : j \in S <=> epochs[j].epoch_num < n
    BY <1>1, Zenon
  <1>6. PeriodIndex(n) = 1 + Cardinality(S)
    BY Zenon DEF PeriodIndex
  <1> HIDE DEF S
  <1>7. Cardinality(S) \in 0..Len(epochs) /\ S = 1..Cardinality(S)
    BY <1>1, <1>3, <1>4, InitialSegment, Zenon
  <1> QED BY <1>1, <1>2, <1>5, <1>6, <1>7

(* A block added to its period stays in order and displaces no other.      *)
LEMMA AddToPeriodGood ==
    ASSUME setting \in Settings, NEW p, GoodPeriod(p),
           NEW b \in setting.blocks, Epoch[b] = p.epoch_num
    PROVE  /\ GoodPeriod(AddToPeriod(p, b))
           /\ AddToPeriod(p, b).epoch_num = p.epoch_num
           /\ BlocksOf(p) \cup {b} = BlocksOf(AddToPeriod(p, b))
  <1>1. b \in Blocks /\ b # None /\ Kind[b] \in {"R", "M", "E"} /\ (Kind[b] = "R" => Chain[b] \in Chains)
    BY BlocksAssumption, Zenon
  <1>2. p \in Period
    BY Zenon DEF GoodPeriod
  <1>3. CASE Kind[b] = "R"
    <2> DEFINE c == Chain[b]
               s == InsertSorted(p.rbs[c], b)
    <2>1. AddToPeriod(p, b) = [p EXCEPT !.rbs[c] = s]
      BY <1>3, Zenon DEF AddToPeriod
    <2>2. c \in Chains /\ GoodList(p.rbs[c], "R", p.epoch_num)
      BY <1>1, <1>3, Zenon DEF GoodPeriod
    <2>3. /\ GoodList(s, "R", p.epoch_num) /\ Range(p.rbs[c]) \subseteq Range(s)
          /\ Range(s) \subseteq Range(p.rbs[c]) \cup {b}
          /\ b \in Range(s) \/ \E x \in Range(p.rbs[c]) : Sequence[x] = Sequence[b]
      BY <1>3, <2>2, InsertSortedGood
    <2>4. s \in Seq(setting.blocks) /\ DOMAIN s = 1..Len(s) /\ DOMAIN p.rbs[c] = 1..Len(p.rbs[c])
      BY <2>2, <2>3 DEF GoodList
    <2>5. \A x \in Range(p.rbs[c]) : Chain[x] = c /\ Kind[x] = "R" /\ Epoch[x] = Epoch[b] /\ x \in setting.blocks
      BY <2>2, <2>4 DEF GoodPeriod, GoodList, Range
    <2>6. b \in Range(s)
      BY <1>3, <2>3, <2>5, NetworkAssumption, Zenon
    <2>7. \A j \in 1..Len(s) : Chain[s[j]] = c
      BY <2>3, <2>4, <2>5, Zenon DEF Range
    <2> HIDE DEF s
    <2>8. /\ AddToPeriod(p, b) \in Period
          /\ AddToPeriod(p, b).epoch_num = p.epoch_num
          /\ AddToPeriod(p, b).eb = p.eb /\ AddToPeriod(p, b).mbs = p.mbs
          /\ AddToPeriod(p, b).rbs = [p.rbs EXCEPT ![c] = s]
      BY <1>2, <2>1, <2>2, <2>4, ZenonT(60) DEF Period
    <2> DEFINE q == AddToPeriod(p, b)
    <2> HIDE DEF q
    <2>9. \A d \in Chains : q.rbs[d] = IF d = c THEN s ELSE p.rbs[d]
      BY <1>2, <2>8, Zenon DEF Period, q
    <2>10. GoodPeriod(q)
      BY <2>3, <2>7, <2>8, <2>9 DEF GoodPeriod, q
    <2>11. BlocksOf(q) = BlocksOf(p) \cup {b}
      <3> DEFINE P == UNION {Range(p.rbs[d]) : d \in Chains}
                 Q == UNION {Range(q.rbs[d]) : d \in Chains}
      <3>1. \A x \in P : x \in Q
        BY <2>3, <2>9
      <3>2. \A x \in Q : x \in P \/ x = b
        BY <2>3, <2>9
      <3>3. b \in Q
        BY <2>2, <2>6, <2>9, Zenon
      <3>4. q.eb = p.eb /\ q.mbs = p.mbs
        BY <2>8, Zenon DEF q
      <3> HIDE DEF P, Q
      <3>5. /\ BlocksOf(p) = ({p.eb} \cup Range(p.mbs) \cup P) \ {None}
            /\ BlocksOf(q) = ({q.eb} \cup Range(q.mbs) \cup Q) \ {None}
        BY Zenon DEF BlocksOf, P, Q
      <3> QED BY <1>1, <3>1, <3>2, <3>3, <3>4, <3>5, Zenon
    <2> QED BY <2>8, <2>10, <2>11, Zenon DEF q
  <1>4. CASE Kind[b] = "M"
    <2> DEFINE s == InsertSorted(p.mbs, b)
    <2>1. AddToPeriod(p, b) = [p EXCEPT !.mbs = s]
      BY <1>4, Zenon DEF AddToPeriod
    <2>2. GoodList(p.mbs, "M", p.epoch_num)
      BY Zenon DEF GoodPeriod
    <2>3. /\ GoodList(s, "M", p.epoch_num) /\ Range(p.mbs) \subseteq Range(s)
          /\ Range(s) \subseteq Range(p.mbs) \cup {b}
          /\ b \in Range(s) \/ \E x \in Range(p.mbs) : Sequence[x] = Sequence[b]
      BY <1>4, <2>2, InsertSortedGood, ZenonT(30)
    <2>4. s \in Seq(setting.blocks) /\ DOMAIN p.mbs = 1..Len(p.mbs)
      BY <2>2, <2>3 DEF GoodList
    <2>5. \A x \in Range(p.mbs) : Kind[x] = "M" /\ Epoch[x] = Epoch[b] /\ x \in setting.blocks
      BY <2>2, <2>4 DEF GoodList, Range
    <2>6. b \in Range(s)
      BY <1>4, <2>3, <2>5, NetworkAssumption, Zenon
    <2> HIDE DEF s
    <2>7. /\ AddToPeriod(p, b) \in Period
          /\ AddToPeriod(p, b).epoch_num = p.epoch_num
          /\ AddToPeriod(p, b).eb = p.eb /\ AddToPeriod(p, b).rbs = p.rbs
          /\ AddToPeriod(p, b).mbs = s
      BY <1>2, <2>1, <2>4, Zenon DEF Period
    <2> QED BY <1>1, <2>3, <2>6, <2>7 DEF GoodPeriod, BlocksOf
  <1>5. CASE Kind[b] = "E"
    <2>1. AddToPeriod(p, b) = [p EXCEPT !.eb = IF @ = None THEN b ELSE @]
      BY <1>5, Zenon DEF AddToPeriod
    <2>2. p.eb \in {None, b}
      BY <1>2, <1>5, NetworkAssumption, ZenonT(30) DEF GoodPeriod, Period
    <2>3. /\ AddToPeriod(p, b) \in Period
          /\ AddToPeriod(p, b).epoch_num = p.epoch_num
          /\ AddToPeriod(p, b).eb = b /\ AddToPeriod(p, b).rbs = p.rbs
          /\ AddToPeriod(p, b).mbs = p.mbs
      BY <1>2, <2>1, <2>2, Zenon DEF Period
    <2> QED BY <1>1, <1>5, <2>2, <2>3 DEF GoodPeriod, BlocksOf
  <1> QED BY <1>1, <1>3, <1>4, <1>5, Zenon

(* What is pending in the periods e.                                       *)
PendingIn(e) == UNION {BlocksOf(e[i]) : i \in 1..Len(e)}

(* Adding a block keeps the periods in order and all that was pending.     *)
LEMMA InsertGood ==
    ASSUME Typed, NEW t \in Threads, Insert(t)
    PROVE  /\ GoodPeriods(epochs')
           /\ PendingIn(epochs') = PendingIn(epochs) \cup {thread[t].block}
  <1> DEFINE b == thread[t].block
             n == Epoch[b]
             i == PeriodIndex(n)
             new == AddToPeriod(IF HasPeriod(n) THEN epochs[i] ELSE NewPeriod(n), b)
  <1>1. setting \in Settings /\ b \in setting.blocks /\ n \in Nat
    BY BlocksAssumption, Zenon DEF Typed, Task, Insert
  <1>2. epochs' = IF HasPeriod(n) THEN [epochs EXCEPT ![i] = new] ELSE PutAt(epochs, i, new)
    BY Zenon DEF Insert
  <1>3. epochs \in Seq(Period) /\ Len(epochs) \in Nat /\ DOMAIN epochs = 1..Len(epochs) /\ GoodPeriods(epochs)
    BY DEF Typed, GoodPeriods
  <1>4. \A j \in 1..Len(epochs) : epochs[j].epoch_num \in Nat
    BY <1>3, Zenon DEF GoodPeriods, GoodPeriod, Period
  <1>5. CASE HasPeriod(n)
    <2>1. PICK j \in 1..Len(epochs) : epochs[j].epoch_num = n
      BY <1>3, <1>5, Zenon DEF HasPeriod
    <2>2. i = j
      BY <1>3, <2>1, PeriodFound, Zenon
    <2>3. GoodPeriod(epochs[j])
      BY <1>3, Zenon DEF GoodPeriods
    <2>4. GoodPeriod(new) /\ new.epoch_num = n /\ BlocksOf(new) = BlocksOf(epochs[j]) \cup {b}
      BY <1>1, <1>5, <2>1, <2>2, <2>3, AddToPeriodGood, Zenon
    <2>5. new \in Period
      BY <2>4, ZenonT(30) DEF GoodPeriod
    <2> HIDE DEF new
    <2>6. /\ epochs' \in Seq(Period) /\ Len(epochs') = Len(epochs)
          /\ \A k \in 1..Len(epochs) : epochs'[k] = IF k = j THEN new ELSE epochs[k]
      BY <1>2, <1>3, <1>5, <2>2, <2>5
    <2>7. GoodPeriods(epochs')
      BY <1>3, <2>1, <2>4, <2>6, Zenon DEF GoodPeriods
    <2>8. PendingIn(epochs') = PendingIn(epochs) \cup {b}
      BY <2>4, <2>6 DEF PendingIn
    <2> QED BY <2>7, <2>8, Zenon
  <1>6. CASE ~HasPeriod(n)
    <2>1. /\ i \in 1..(Len(epochs) + 1)
          /\ \A j \in 1..Len(epochs) : IF j < i THEN epochs[j].epoch_num < n ELSE n < epochs[j].epoch_num
      BY <1>1, <1>3, <1>6, PeriodPlace, Zenon
    <2>2. GoodPeriod(NewPeriod(n)) /\ NewPeriod(n).epoch_num = n /\ BlocksOf(NewPeriod(n)) = {}
      <3>1. NewPeriod(n) \in Period
        BY <1>1 DEF NewPeriod, Period
      <3>2. \A k \in {"R", "M"} : GoodList(<<>>, k, n)
        BY DEF GoodList
      <3>3. Range(<<>>) = {}
        BY DEF Range
      <3> QED BY <3>1, <3>2, <3>3 DEF NewPeriod, GoodPeriod, BlocksOf
    <2>3. GoodPeriod(new) /\ new.epoch_num = n /\ BlocksOf(new) = {b}
      BY <1>1, <1>6, <2>2, AddToPeriodGood, ZenonT(30)
    <2>4. new \in Period
      BY <2>3, Zenon DEF GoodPeriod
    <2> HIDE DEF new, i
    <2>5. /\ epochs' \in Seq(Period) /\ Len(epochs') = Len(epochs) + 1
          /\ \A k \in 1..(Len(epochs) + 1) :
                epochs'[k] = IF k < i THEN epochs[k] ELSE IF k = i THEN new ELSE epochs[k - 1]
      <3>1. epochs' = PutAt(epochs, i, new)
        BY <1>2, <1>6, Zenon
      <3>2. epochs \in Seq(Period) /\ i \in 1..(Len(epochs) + 1) /\ new \in Period
        BY <1>3, <2>1, <2>4, Zenon
      <3>3. HasPut(PutAt(epochs, i, new), epochs, i, new, Period)
        BY <3>2, PutAtProperties, Zenon
      <3> QED BY <3>1, <3>3, Zenon DEF HasPut
    <2>6. \A k \in 1..Len(epochs') :
             \/ k < i /\ k \in 1..Len(epochs) /\ epochs'[k] = epochs[k]
             \/ k = i /\ epochs'[k] = new
             \/ k > i /\ k - 1 \in 1..Len(epochs) /\ epochs'[k] = epochs[k - 1]
      BY <1>3, <2>1, <2>5
    <2>7. \A k \in 1..Len(epochs') : GoodPeriod(epochs'[k])
      BY <1>3, <2>3, <2>6, Zenon DEF GoodPeriods
    <2>8. ASSUME NEW g \in 1..Len(epochs'), NEW k \in 1..Len(epochs'), g < k
          PROVE  epochs'[g].epoch_num < epochs'[k].epoch_num
      <3>1. \A a, c \in 1..Len(epochs) : a < c => epochs[a].epoch_num < epochs[c].epoch_num
        BY <1>3, Zenon DEF GoodPeriods
      <3>2. CASE k < i
        BY <1>3, <2>1, <2>6, <2>8, <3>1, <3>2
      <3>3. CASE k = i
        BY <1>3, <2>1, <2>3, <2>6, <2>8, <3>3
      <3>4. CASE k > i /\ g < i
        <4>1. k - 1 \in 1..Len(epochs) /\ g \in 1..Len(epochs) /\ g < k - 1
          BY <1>3, <2>1, <2>6, <2>8, <3>4
        <4>2. epochs'[k] = epochs[k - 1] /\ epochs'[g] = epochs[g]
          BY <2>1, <2>6, <3>4
        <4> QED BY <3>1, <4>1, <4>2, Zenon
      <3>5. CASE k > i /\ g = i
        <4>1. k - 1 \in 1..Len(epochs) /\ ~(k - 1 < i)
          BY <1>3, <2>1, <2>6, <2>8, <3>5
        <4> QED BY <2>1, <2>3, <2>6, <3>5, <4>1
      <3>6. CASE k > i /\ g > i
        <4>1. k - 1 \in 1..Len(epochs) /\ g - 1 \in 1..Len(epochs) /\ g - 1 < k - 1
          BY <1>3, <2>1, <2>6, <2>8, <3>6
        <4>2. epochs'[k] = epochs[k - 1] /\ epochs'[g] = epochs[g - 1]
          BY <2>1, <2>6, <3>6
        <4> QED BY <3>1, <4>1, <4>2, Zenon
      <3> QED BY <2>1, <2>5, <3>2, <3>3, <3>4, <3>5, <3>6
    <2>9. GoodPeriods(epochs')
      BY <2>5, <2>7, <2>8, Zenon DEF GoodPeriods
    <2>10. PendingIn(epochs') = PendingIn(epochs) \cup {b}
      <3>1. \A k \in 1..Len(epochs) : \E j \in 1..Len(epochs') : epochs'[j] = epochs[k]
        <4> SUFFICES ASSUME NEW k \in 1..Len(epochs)
                     PROVE  \E j \in 1..Len(epochs') : epochs'[j] = epochs[k]
          BY Zenon
        <4>1. CASE k < i
          BY <1>3, <2>1, <2>5, <4>1
        <4>2. CASE k >= i
          <5>1. k + 1 \in 1..Len(epochs') /\ ~(k + 1 < i) /\ k + 1 # i /\ (k + 1) - 1 = k
            BY <1>3, <2>1, <2>5, <4>2
          <5>2. epochs'[k + 1] = epochs[k]
            BY <2>5, <5>1
          <5> QED BY <5>1, <5>2, Zenon
        <4> QED BY <2>1, <4>1, <4>2
      <3>2. i \in 1..Len(epochs') /\ epochs'[i] = new
        BY <1>3, <2>1, <2>5
      <3>3. \A k \in 1..Len(epochs') : epochs'[k] = new \/ \E j \in 1..Len(epochs) : epochs'[k] = epochs[j]
        BY <2>6, Zenon
      <3>4. ASSUME NEW x \in PendingIn(epochs')
            PROVE  x \in PendingIn(epochs) \cup {b}
        <4>1. PICK k \in 1..Len(epochs') : x \in BlocksOf(epochs'[k])
          BY Zenon DEF PendingIn
        <4> QED BY <2>3, <3>3, <4>1, ZenonT(30) DEF PendingIn
      <3>5. ASSUME NEW x \in PendingIn(epochs)
            PROVE  x \in PendingIn(epochs')
        <4>1. PICK k \in 1..Len(epochs) : x \in BlocksOf(epochs[k])
          BY Zenon DEF PendingIn
        <4> QED BY <3>1, <4>1, Zenon DEF PendingIn
      <3>6. b \in PendingIn(epochs')
        BY <2>3, <3>2, Zenon DEF PendingIn
      <3> QED BY <3>4, <3>5, <3>6, Zenon
    <2> QED BY <2>9, <2>10, Zenon
  <1> QED BY <1>5, <1>6, Zenon

(* The list without its first block.                                       *)
LEMMA TailGood ==
    ASSUME NEW s, NEW k, NEW n, GoodList(s, k, n), s # <<>>
    PROVE  /\ GoodList(Tail(s), k, n)
           /\ Range(s) \subseteq Range(Tail(s)) \cup {Head(s)}
           /\ \A x \in Range(Tail(s)) : x \in Range(s) /\ Sequence[Head(s)] < Sequence[x]
           /\ Head(s) \in Range(s)
  <1> DEFINE w == Tail(s)
  <1>1. s \in Seq(setting.blocks) /\ Len(s) \in Nat /\ Len(s) >= 1 /\ DOMAIN s = 1..Len(s) /\ Head(s) = s[1]
    BY DEF GoodList
  <1>2. /\ w \in Seq(setting.blocks) /\ Len(w) = Len(s) - 1 /\ DOMAIN w = 1..(Len(s) - 1)
        /\ \A j \in 1..(Len(s) - 1) : w[j] = s[j + 1]
    BY <1>1
  <1> HIDE DEF w
  <1>3. \A j \in 1..Len(w) : j + 1 \in 1..Len(s) /\ w[j] = s[j + 1]
    BY <1>1, <1>2
  <1>4. GoodList(w, k, n)
    BY <1>1, <1>2, <1>3 DEF GoodList
  <1>5. \A j \in 1..Len(s) : j = 1 \/ (j - 1 \in DOMAIN w /\ w[j - 1] = s[j])
    <2> SUFFICES ASSUME NEW j \in 1..Len(s), j # 1
                 PROVE  j - 1 \in DOMAIN w /\ w[j - 1] = s[j]
      BY Zenon
    <2>1. j - 1 \in 1..(Len(s) - 1) /\ (j - 1) + 1 = j
      BY <1>1
    <2> QED BY <1>2, <2>1, Zenon
  <1>6. Range(s) \subseteq Range(w) \cup {Head(s)}
    BY <1>1, <1>5 DEF Range
  <1>7. \A j \in 1..Len(w) : Sequence[s[1]] < Sequence[w[j]]
    <2> SUFFICES ASSUME NEW j \in 1..Len(w)
                 PROVE  Sequence[s[1]] < Sequence[w[j]]
      BY Zenon
    <2>1. 1 \in 1..Len(s) /\ j + 1 \in 1..Len(s) /\ 1 < j + 1 /\ w[j] = s[j + 1]
      BY <1>1, <1>2, <1>3
    <2> QED BY <2>1, Zenon DEF GoodList
  <1>8. \A x \in Range(w) : x \in Range(s) /\ Sequence[Head(s)] < Sequence[x]
    BY <1>1, <1>2, <1>3, <1>7, Zenon DEF Range
  <1>9. Head(s) \in Range(s)
    BY <1>1 DEF Range
  <1> QED BY <1>4, <1>6, <1>8, <1>9, Zenon DEF w

(* Block b can be chosen from period p: it is in front of its list there.  *)
AtFront(p, b) ==
    /\ Epoch[b] = p.epoch_num
    /\ Kind[b] = "R" => p.rbs[Chain[b]] # <<>> /\ b = Head(p.rbs[Chain[b]])
    /\ Kind[b] = "M" => p.mbs # <<>> /\ b = Head(p.mbs)
    /\ Kind[b] = "E" => b = p.eb

(* Popping keeps the periods in order and takes nothing but the block in   *)
(* front, or with an epoch block its period.                               *)
LEMMA PopGood ==
    ASSUME setting \in Settings, GoodPeriods(epochs), NEW b \in setting.blocks, NEW success \in BOOLEAN,
           NEW i \in 1..Len(epochs), epochs[i].epoch_num = Epoch[b], ~PopsNothing(i, b, success)
    PROVE  LET e == PopFront(i, b, success)
           IN  /\ GoodPeriods(e)
               /\ PendingIn(e) \subseteq PendingIn(epochs)
               /\ success /\ AtFront(epochs[i], b) =>
                     PendingIn(epochs) \subseteq PendingIn(e) \cup {b} \cup (IF Kind[b] = "E" THEN BlocksOf(epochs[i]) ELSE {})
               /\ Kind[b] # "E" => Len(e) = Len(epochs)
               /\ success /\ Kind[b] = "M" => epochs[i].mbs # <<>> /\ e[i].mbs = Tail(epochs[i].mbs)
  <1> DEFINE e == PopFront(i, b, success)
             p == epochs[i]
  <1>1. b \in Blocks /\ Kind[b] \in {"R", "M", "E"} /\ (Kind[b] = "R" => Chain[b] \in Chains)
    BY BlocksAssumption, ZenonT(30)
  <1>2. epochs \in Seq(Period) /\ Len(epochs) \in Nat /\ GoodPeriod(p) /\ p \in Period
    BY DEF GoodPeriods, GoodPeriod
  <1>3. CASE ~success
    BY <1>3, Zenon DEF PopFront
  <1>4. ASSUME NEW q, GoodPeriod(q), q.epoch_num = p.epoch_num, BlocksOf(q) \subseteq BlocksOf(p),
               e = [epochs EXCEPT ![i] = q]
        PROVE  /\ GoodPeriods(e) /\ Len(e) = Len(epochs) /\ e[i] = q
               /\ PendingIn(e) \subseteq PendingIn(epochs)
               /\ \A X : BlocksOf(p) \subseteq BlocksOf(q) \cup X => PendingIn(epochs) \subseteq PendingIn(e) \cup X
    <2>1. q \in Period
      BY <1>4, Zenon DEF GoodPeriod
    <2>2. /\ e \in Seq(Period) /\ Len(e) = Len(epochs)
          /\ \A j \in 1..Len(epochs) : e[j] = IF j = i THEN q ELSE epochs[j]
      BY <1>2, <1>4, <2>1
    <2> HIDE DEF e
    <2>3. GoodPeriods(e)
      BY <1>2, <1>4, <2>2 DEF GoodPeriods
    <2>4. PendingIn(e) \subseteq PendingIn(epochs)
      BY <1>4, <2>2 DEF PendingIn
    <2>5. ASSUME NEW X, BlocksOf(p) \subseteq BlocksOf(q) \cup X
          PROVE  PendingIn(epochs) \subseteq PendingIn(e) \cup X
      BY <1>4, <2>2, <2>5 DEF PendingIn
    <2> QED BY <2>2, <2>3, <2>4, <2>5, Zenon
  <1>5. CASE success /\ Kind[b] = "R"
    <2> DEFINE c == Chain[b]
               s == p.rbs[c]
               q == [p EXCEPT !.rbs[c] = Tail(s)]
    <2>1. c \in Chains /\ GoodList(s, "R", p.epoch_num) /\ s # <<>>
      BY <1>1, <1>2, <1>5, Zenon DEF GoodPeriod, PopsNothing
    <2>2. e = [epochs EXCEPT ![i] = q]
      BY <1>2, <1>5, Zenon DEF PopFront
    <2>3. /\ GoodList(Tail(s), "R", p.epoch_num)
          /\ Range(s) \subseteq Range(Tail(s)) \cup {Head(s)}
          /\ Range(Tail(s)) \subseteq Range(s)
      BY <2>1, TailGood, Zenon
    <2>4. Tail(s) \in Seq(setting.blocks)
      BY <2>3, ZenonT(30) DEF GoodList
    <2>5. \A j \in 1..Len(Tail(s)) : Chain[Tail(s)[j]] = c
      <3>1. s \in Seq(setting.blocks) /\ \A j \in 1..Len(s) : Chain[s[j]] = c
        BY <1>2, <2>1, Zenon DEF GoodPeriod, GoodList
      <3> QED BY <2>1, <3>1
    <2> DEFINE w == Tail(s)
    <2>6. /\ q \in Period /\ q.epoch_num = p.epoch_num /\ q.eb = p.eb /\ q.mbs = p.mbs
          /\ \A d \in Chains : q.rbs[d] = IF d = c THEN w ELSE p.rbs[d]
      BY <1>2, <2>1, <2>4, ZenonT(30) DEF Period
    <2> HIDE DEF q, w
    <2>7. GoodPeriod(q)
      <3>1. GoodList(w, "R", q.epoch_num) /\ \A j \in 1..Len(w) : Chain[w[j]] = c
        BY <2>3, <2>5, <2>6, ZenonT(30) DEF w
      <3>2. ASSUME NEW d \in Chains
            PROVE  GoodList(q.rbs[d], "R", q.epoch_num) /\ \A j \in 1..Len(q.rbs[d]) : Chain[q.rbs[d][j]] = d
        <4>1. CASE d = c
          BY <2>6, <3>1, <4>1, ZenonT(30)
        <4>2. CASE d # c
          BY <1>2, <2>6, <4>2 DEF GoodPeriod
        <4> QED BY <4>1, <4>2, Zenon
      <3>3. /\ q.eb # None => Kind[q.eb] = "E" /\ Epoch[q.eb] = q.epoch_num
            /\ GoodList(q.mbs, "M", q.epoch_num)
        BY <1>2, <2>6, Zenon DEF GoodPeriod
      <3> QED BY <2>6, <3>2, <3>3, Zenon DEF GoodPeriod
    <2>8. \A d \in Chains : Range(q.rbs[d]) \subseteq Range(p.rbs[d]) /\ Range(p.rbs[d]) \subseteq Range(q.rbs[d]) \cup {Head(s)}
      BY <2>3, <2>6, Zenon DEF w
    <2>9. BlocksOf(q) \subseteq BlocksOf(p) /\ BlocksOf(p) \subseteq BlocksOf(q) \cup {Head(s)}
      <3> DEFINE h == Head(s)
                 P == UNION {Range(p.rbs[d]) : d \in Chains}
                 Q == UNION {Range(q.rbs[d]) : d \in Chains}
      <3> HIDE DEF h
      <3>1. Q \subseteq P /\ P \subseteq Q \cup {h}
        BY <2>8, ZenonT(30) DEF h
      <3>2. /\ BlocksOf(p) = ({p.eb} \cup Range(p.mbs) \cup P) \ {None}
            /\ BlocksOf(q) = ({q.eb} \cup Range(q.mbs) \cup Q) \ {None}
        BY Zenon DEF BlocksOf
      <3> HIDE DEF P, Q
      <3> QED BY <2>6, <3>1, <3>2, Zenon DEF h
    <2>10. AtFront(p, b) => b = Head(s)
      BY <1>5, Zenon DEF AtFront
    <2> HIDE DEF e
    <2> QED BY <1>4, <1>5, <2>2, <2>6, <2>7, <2>9, <2>10, ZenonT(30) DEF e
  <1>6. CASE success /\ Kind[b] = "M"
    <2> DEFINE s == p.mbs
               q == [p EXCEPT !.mbs = Tail(s)]
    <2>1. GoodList(s, "M", p.epoch_num) /\ s # <<>>
      BY <1>2, <1>6, Zenon DEF GoodPeriod, PopsNothing
    <2>2. e = [epochs EXCEPT ![i] = q]
      BY <1>2, <1>6, Zenon DEF PopFront
    <2>3. /\ GoodList(Tail(s), "M", p.epoch_num)
          /\ Range(s) \subseteq Range(Tail(s)) \cup {Head(s)}
          /\ Range(Tail(s)) \subseteq Range(s)
      BY <2>1, TailGood, ZenonT(30)
    <2>4. Tail(s) \in Seq(setting.blocks)
      BY <2>3, Zenon DEF GoodList
    <2>5. /\ q \in Period /\ q.epoch_num = p.epoch_num /\ q.eb = p.eb /\ q.rbs = p.rbs
          /\ q.mbs = Tail(s)
      BY <1>2, <2>4, ZenonT(30) DEF Period
    <2> HIDE DEF q
    <2>6. GoodPeriod(q)
      BY <1>2, <2>3, <2>5, ZenonT(30) DEF GoodPeriod
    <2>7. BlocksOf(q) \subseteq BlocksOf(p) /\ BlocksOf(p) \subseteq BlocksOf(q) \cup {Head(s)}
      BY <2>3, <2>5, Zenon DEF BlocksOf
    <2>8. AtFront(p, b) => b = Head(s)
      BY <1>6, Zenon DEF AtFront
    <2> HIDE DEF e
    <2> QED BY <1>4, <1>6, <2>1, <2>2, <2>5, <2>6, <2>7, <2>8, ZenonT(30) DEF e
  <1>7. CASE success /\ Kind[b] = "E"
    <2>1. e = DropAt(epochs, i)
      BY <1>7, Zenon DEF PopFront
    <2>2. /\ e \in Seq(Period) /\ Len(e) = Len(epochs) - 1
          /\ \A j \in 1..(Len(epochs) - 1) : e[j] = IF j < i THEN epochs[j] ELSE epochs[j + 1]
      BY <1>2, <2>1, DropAtProperties, Zenon
    <2> HIDE DEF e
    <2>3. \A j \in 1..Len(e) : \/ j < i /\ j \in 1..Len(epochs) /\ e[j] = epochs[j]
                               \/ j >= i /\ j + 1 \in 1..Len(epochs) /\ e[j] = epochs[j + 1]
      BY <1>2, <2>2
    <2>4. GoodPeriods(e)
      <3>1. \A j \in 1..Len(e) : GoodPeriod(e[j])
        BY <2>3, Zenon DEF GoodPeriods
      <3>2. \A j, k \in 1..Len(e) : j < k => e[j].epoch_num < e[k].epoch_num
        BY <1>2, <2>2, <2>3 DEF GoodPeriods
      <3> QED BY <2>2, <3>1, <3>2, Zenon DEF GoodPeriods
    <2>5. PendingIn(e) \subseteq PendingIn(epochs)
      BY <2>3, Zenon DEF PendingIn
    <2>6. \A j \in 1..Len(epochs) : j = i \/ \E k \in 1..Len(e) : e[k] = epochs[j]
      <3> SUFFICES ASSUME NEW j \in 1..Len(epochs), j # i
                   PROVE  \E k \in 1..Len(e) : e[k] = epochs[j]
        BY Zenon
      <3>1. CASE j < i
        BY <1>2, <2>2, <3>1
      <3>2. CASE j > i
        <4>1. j - 1 \in 1..(Len(epochs) - 1) /\ ~(j - 1 < i) /\ (j - 1) + 1 = j
          BY <1>2, <3>2
        <4>2. e[j - 1] = epochs[j]
          BY <2>2, <4>1, Zenon
        <4> QED BY <2>2, <4>1, <4>2, Zenon
      <3> QED BY <1>2, <3>1, <3>2
    <2>7. PendingIn(epochs) \subseteq PendingIn(e) \cup BlocksOf(p)
      BY <2>6, Zenon DEF PendingIn
    <2> QED BY <1>7, <2>4, <2>5, <2>7, Zenon DEF e
  <1> QED BY <1>1, <1>3, <1>5, <1>6, <1>7, Zenon

-----------------------------------------------------------------------------
(* GetNextBlock                                                            *)

(* A block that may be returned: not locked, and in front of its list in   *)
(* some period.                                                            *)
Chosen(e, x, held) ==
    /\ x \in setting.blocks \ held
    /\ \E j \in 1..Len(e) : AtFront(e[j], x) /\ (Kind[x] = "E" => e[j].mbs = <<>>)

(* What GetNextBlock finds in one period.                                  *)
LEMMA PeriodChoiceGood ==
    ASSUME setting \in Settings, NEW p, GoodPeriod(p), NEW held, NEW x \in PeriodChoice(p, held)
    PROVE  /\ x \in setting.blocks \ held
           /\ AtFront(p, x)
           /\ Kind[x] = "E" => p.mbs = <<>>
  <1>1. \/ \E c \in Chains : x \in FirstReady(p.rbs[c], held)
        \/ x \in FirstReady(p.mbs, held)
        \/ x = p.eb /\ p.mbs = <<>> /\ Ready(x, held)
    BY Zenon DEF PeriodChoice
  <1>2. CASE \E c \in Chains : x \in FirstReady(p.rbs[c], held)
    <2>1. PICK c \in Chains : x \in FirstReady(p.rbs[c], held)
      BY <1>2, Zenon
    <2>2. x \in Range(p.rbs[c]) /\ x = Head(p.rbs[c]) /\ x \notin held
      BY <2>1, Zenon DEF FirstReady, Ready
    <2>3. GoodList(p.rbs[c], "R", p.epoch_num) /\ \A j \in 1..Len(p.rbs[c]) : Chain[p.rbs[c][j]] = c
      BY Zenon DEF GoodPeriod
    <2>4. PICK j \in 1..Len(p.rbs[c]) : x = p.rbs[c][j]
      BY <2>2, <2>3 DEF Range, GoodList
    <2>5. x \in setting.blocks /\ Kind[x] = "R" /\ Epoch[x] = p.epoch_num /\ Chain[x] = c /\ p.rbs[c] # <<>>
      BY <2>3, <2>4 DEF GoodList
    <2> QED BY <2>2, <2>5, Zenon DEF AtFront
  <1>3. CASE x \in FirstReady(p.mbs, held)
    <2>1. x \in Range(p.mbs) /\ x = Head(p.mbs) /\ x \notin held
      BY <1>3, Zenon DEF FirstReady, Ready
    <2>2. GoodList(p.mbs, "M", p.epoch_num)
      BY Zenon DEF GoodPeriod
    <2>3. PICK j \in 1..Len(p.mbs) : x = p.mbs[j]
      BY <2>1, <2>2 DEF Range, GoodList
    <2>4. x \in setting.blocks /\ Kind[x] = "M" /\ Epoch[x] = p.epoch_num /\ p.mbs # <<>>
      BY <2>2, <2>3 DEF GoodList
    <2> QED BY <2>1, <2>4, Zenon DEF AtFront
  <1>4. CASE x = p.eb /\ p.mbs = <<>> /\ Ready(x, held)
    BY <1>4, Zenon DEF AtFront, Ready, GoodPeriod, Period
  <1> QED BY <1>1, <1>2, <1>3, <1>4, Zenon

(* What it finds from a period on.                                         *)
LEMMA SearchFromGood ==
    ASSUME setting \in Settings, NEW e, GoodPeriods(e), NEW i \in Nat \ {0}, NEW held,
           NEW x \in SearchFrom(e, i, held)
    PROVE  Chosen(e, x, held)
  <1>1. Len(e) \in Nat
    BY DEF GoodPeriods
  <1>2. PICK j \in 1..Len(e) : x \in PeriodChoice(e[j], held)
    BY <1>1 DEF SearchFrom, GoesOn
  <1>3. GoodPeriod(e[j])
    BY Zenon DEF GoodPeriods
  <1> QED BY <1>2, <1>3, PeriodChoiceGood, Zenon DEF Chosen

(* What it finds after block b of period i.  The epoch block is returned   *)
(* over pending micro blocks at most after the last micro block.           *)
LEMMA ChoiceGood ==
    ASSUME setting \in Settings, NEW e, GoodPeriods(e), NEW i \in Nat \ {0}, NEW b, Kind[b] \in {"R", "M", "E"},
           NEW success \in BOOLEAN, NEW held, NEW x \in Choice(e, i, b, success, held),
           Kind[b] = "M" \/ (Kind[b] = "E" /\ ~success) => i <= Len(e)
    PROVE  \/ Chosen(e, x, held)
           \/ /\ x \in setting.blocks \ held
              /\ AtFront(e[i], x)
              /\ Kind[b] = "M"
              /\ epochs[i].mbs = <<>> \/ (success /\ b \in LastMicro)
  <1>1. Len(e) \in Nat
    BY DEF GoodPeriods
  <1>2. CASE x \in SearchFrom(e, i, held)
    BY <1>2, SearchFromGood, Zenon
  <1>3. ASSUME NEW mbs, NEW ended \in BOOLEAN, x \in SearchLate(e, i, mbs, ended, held), i <= Len(e),
               mbs \subseteq FirstReady(e[i].mbs, held)
        PROVE  Chosen(e, x, held) \/ (x \in setting.blocks \ held /\ AtFront(e[i], x) /\ ended)
    <2>1. i \in 1..Len(e) /\ GoodPeriod(e[i])
      BY <1>1, <1>3 DEF GoodPeriods
    <2>2. \/ x \in FirstReady(e[i].mbs, held)
          \/ ended /\ Ready(e[i].eb, held) /\ x = e[i].eb
          \/ GoesOn(e, i) /\ x \in PeriodChoice(e[2], held)
      BY <1>3, Zenon DEF SearchLate
    <2>3. CASE x \in FirstReady(e[i].mbs, held)
      <3> DEFINE p == e[i]
      <3>1. x \in Range(p.mbs) /\ x = Head(p.mbs) /\ x \notin held
        BY <2>3, Zenon DEF FirstReady, Ready
      <3>2. GoodList(p.mbs, "M", p.epoch_num)
        BY <2>1, Zenon DEF GoodPeriod
      <3>3. PICK j \in 1..Len(p.mbs) : x = p.mbs[j]
        BY <3>1, <3>2 DEF Range, GoodList
      <3>4. x \in setting.blocks /\ Kind[x] = "M" /\ Epoch[x] = p.epoch_num /\ p.mbs # <<>>
        BY <3>2, <3>3 DEF GoodList
      <3> QED BY <2>1, <3>1, <3>4, Zenon DEF AtFront, Chosen
    <2>4. CASE ended /\ Ready(e[i].eb, held) /\ x = e[i].eb
      BY <2>1, <2>4, Zenon DEF AtFront, Ready, GoodPeriod, Period
    <2>5. CASE GoesOn(e, i) /\ x \in PeriodChoice(e[2], held)
      <3>1. 2 \in 1..Len(e) /\ GoodPeriod(e[2])
        BY <2>5 DEF GoesOn, GoodPeriods
      <3> QED BY <2>5, <3>1, PeriodChoiceGood DEF Chosen
    <2> QED BY <2>2, <2>3, <2>4, <2>5, Zenon
  <1>4. CASE Kind[b] = "M"
    <2> DEFINE ended == epochs[i].mbs = <<>> \/ (success /\ b \in LastMicro)
    <2>1. x \in SearchLate(e, i, FirstReady(e[i].mbs, held), ended, held)
      BY <1>4, Zenon DEF Choice
    <2>2. ended \in BOOLEAN
      BY Zenon
    <2> HIDE DEF ended
    <2>3. Chosen(e, x, held) \/ (x \in setting.blocks \ held /\ AtFront(e[i], x) /\ ended)
      BY <1>3, <1>4, <2>1, <2>2, Zenon
    <2> QED BY <1>4, <2>3, Zenon DEF ended
  <1>5. CASE Kind[b] = "E" /\ ~success
    <2> DEFINE ended == e[i].mbs = <<>>
    <2>1. x \in SearchLate(e, i, {}, ended, held)
      BY <1>5, Zenon DEF Choice
    <2>2. ended \in BOOLEAN
      BY Zenon
    <2> HIDE DEF ended
    <2>3. Chosen(e, x, held) \/ (x \in setting.blocks \ held /\ AtFront(e[i], x) /\ ended)
      BY <1>3, <1>5, <2>1, <2>2, Zenon
    <2>4. i \in 1..Len(e)
      BY <1>1, <1>5
    <2> QED BY <2>3, <2>4, Zenon DEF ended, Chosen
  <1>6. CASE Kind[b] = "R" \/ (Kind[b] = "E" /\ success)
    BY <1>2, <1>6, Zenon DEF Choice
  <1> QED BY <1>4, <1>5, <1>6, Zenon

(* GetNextBlock halts, or the task ends, or it goes on with a block that   *)
(* no other thread holds.                                                  *)
LEMMA GetNextBlockCases ==
    ASSUME Typed, NEW t \in Threads, GetNextBlock(t)
    PROVE  LET b == thread[t].block
               i == PeriodIndex(Epoch[b])
               success == thread[t].success
           IN  \/ /\ b # None /\ HasPeriod(Epoch[b]) /\ PopsNothing(i, b, success)
                  /\ halted' /\ UNCHANGED <<epochs, locked, thread, passed>>
               \/ /\ GoodPeriods(epochs')
                  /\ IF b = None \/ ~HasPeriod(Epoch[b]) THEN epochs' = epochs
                     ELSE ~PopsNothing(i, b, success) /\ epochs' = PopFront(i, b, success)
                  /\ halted' = halted
                  /\ \/ EndTask(t) /\ locked' = locked \ {b}
                     \/ \E x \in setting.blocks \ (locked \ {b}) :
                           /\ Continue(t, "verify", x)
                           /\ locked' = (locked \ {b}) \cup {x}
                           /\ \/ Chosen(epochs', x, locked \ {b})
                              \/ /\ b # None /\ HasPeriod(Epoch[b]) /\ AtFront(epochs'[i], x) /\ Kind[b] = "M"
                                 /\ epochs[i].mbs = <<>> \/ (success /\ b \in LastMicro)
  <1> DEFINE b == thread[t].block
             i == PeriodIndex(Epoch[b])
             success == thread[t].success
             held == locked \ {b}
             e == PopFront(i, b, success)
  <1>1. setting \in Settings /\ GoodPeriods(epochs) /\ success \in BOOLEAN /\ b \in setting.blocks \cup {None}
    BY Zenon DEF Typed, Task
  <1>2. CASE b = None
    <2>1. Take(t, SearchFrom(epochs, 1, held), held) /\ UNCHANGED <<epochs, halted>>
      BY <1>2, Zenon DEF GetNextBlock
    <2>2. \A x \in SearchFrom(epochs, 1, held) : Chosen(epochs, x, held)
      BY <1>1, SearchFromGood
    <2> QED BY <1>1, <1>2, <2>1, <2>2, Zenon DEF Take, Chosen
  <1>3. CASE b # None /\ ~HasPeriod(Epoch[b])
    <2>1. Take(t, {}, held) /\ UNCHANGED <<epochs, halted>>
      BY <1>3, Zenon DEF GetNextBlock
    <2> QED BY <1>1, <1>3, <2>1, Zenon DEF Take
  <1>4. CASE b # None /\ HasPeriod(Epoch[b]) /\ PopsNothing(i, b, success)
    BY <1>4, Zenon DEF GetNextBlock
  <1>5. CASE b # None /\ HasPeriod(Epoch[b]) /\ ~PopsNothing(i, b, success)
    <2>1. epochs' = e /\ Take(t, Choice(e, i, b, success, held), held) /\ UNCHANGED halted
      BY <1>5, Zenon DEF GetNextBlock
    <2>2. b \in setting.blocks /\ Kind[b] \in {"R", "M", "E"}
      BY <1>1, <1>5, BlocksAssumption, ZenonT(30)
    <2>3. i \in 1..Len(epochs) /\ epochs[i].epoch_num = Epoch[b]
      <3>1. PICK j \in 1..Len(epochs) : epochs[j].epoch_num = Epoch[b]
        BY <1>1, <1>5 DEF HasPeriod, GoodPeriods
      <3> QED BY <1>1, <3>1, PeriodFound, ZenonT(30)
    <2>4. GoodPeriods(e) /\ (Kind[b] # "E" => Len(e) = Len(epochs))
      BY <1>1, <1>5, <2>2, <2>3, PopGood, ZenonT(60)
    <2>5. ~success => e = epochs
      BY Zenon DEF PopFront
    <2>6. i \in Nat \ {0} /\ i <= Len(epochs)
      BY <1>1, <2>3 DEF GoodPeriods
    <2>7. Kind[b] = "M" \/ (Kind[b] = "E" /\ ~success) => i <= Len(e)
      BY <2>4, <2>5, <2>6, Zenon
    <2> DEFINE ee == e
               ii == i
    <2> HIDE DEF ee, ii
    <2>8. \A x \in Choice(ee, ii, b, success, held) :
             \/ Chosen(ee, x, held)
             \/ /\ x \in setting.blocks \ held /\ AtFront(ee[ii], x) /\ Kind[b] = "M"
                /\ epochs[ii].mbs = <<>> \/ (success /\ b \in LastMicro)
      <3>1. GoodPeriods(ee) /\ ii \in Nat \ {0} /\ (Kind[b] = "M" \/ (Kind[b] = "E" /\ ~success) => ii <= Len(ee))
        BY <2>4, <2>6, <2>7, Zenon DEF ee, ii
      <3> HIDE DEF b, i, success, held, e
      <3> QED BY <1>1, <2>2, <3>1, ChoiceGood
    <2>9. \/ EndTask(t) /\ locked' = held
          \/ \E x \in Choice(ee, ii, b, success, held) : Continue(t, "verify", x) /\ locked' = held \cup {x}
      BY <2>1, Zenon DEF Take, ee, ii
    <2>10. \/ EndTask(t) /\ locked' = held
           \/ \E x \in setting.blocks \ held :
                 /\ Continue(t, "verify", x)
                 /\ locked' = held \cup {x}
                 /\ \/ Chosen(ee, x, held)
                    \/ /\ AtFront(ee[ii], x) /\ Kind[b] = "M"
                       /\ epochs[ii].mbs = <<>> \/ (success /\ b \in LastMicro)
      BY <2>8, <2>9, Zenon DEF Chosen
    <2>11. epochs' = ee /\ GoodPeriods(ee) /\ halted' = halted
      BY <2>1, <2>4, Zenon DEF ee
    <2> QED BY <1>5, <2>10, <2>11, Zenon DEF ee, ii
  <1> QED BY <1>2, <1>3, <1>4, <1>5, Zenon

-----------------------------------------------------------------------------
(* Types                                                                   *)

(* The state of a task fits where it is.                                   *)
GoodTask(k) ==
    /\ k \in Task
    /\ k.pc \in {"depend", "rely", "clear", "mark"} => k.todo # <<>>
    /\ k.pc \in Validating \cup {"admit", "insert"} => k.block # None

(* A thread that gets such a task leaves all the tasks well formed.        *)
LEMMA TaskTyped ==
    ASSUME Typed, setting' = setting, NEW t \in Threads, NEW k, GoodTask(k), thread' = [thread EXCEPT ![t] = k]
    PROVE  /\ (thread \in [Threads -> Task])'
           /\ \A u \in Threads :
                 /\ thread'[u].pc \in {"depend", "rely", "clear", "mark"} => thread'[u].todo # <<>>
                 /\ thread'[u].pc \in Validating \cup {"admit", "insert"} => thread'[u].block # None
  <1>1. Task' = Task
    BY Zenon DEF Task
  <1>2. thread \in [Threads -> Task] /\ k \in Task
    BY Zenon DEF Typed, GoodTask
  <1>3. thread' \in [Threads -> Task]
    BY <1>2, Zenon
  <1>4. \A u \in Threads : thread'[u] = IF u = t THEN k ELSE thread[u]
    BY <1>2, Zenon
  <1>5. \A u \in Threads : GoodTask(thread'[u])
    BY <1>2, <1>4, Zenon DEF Typed, GoodTask
  <1> QED BY <1>1, <1>3, <1>5, Zenon DEF GoodTask

(* Hashes are what blocks contain and refer to.                            *)
LEMMA HashTypes ==
    ASSUME NEW b \in Blocks
    PROVE  /\ b \in Hash /\ Needs[b] \subseteq Hash /\ Content[b] \in Seq(Hash)
           /\ Previous[b] # None => Previous[b] \in Hash
  <1>1. b \in Hash /\ Needs[b] \subseteq Hash /\ Range(Content[b]) \subseteq Hash
    BY DEF Hash
  <1>2. Content[b] \in Seq(Range(Content[b]))
    BY BlocksAssumption, Zenon
  <1>3. Previous[b] # None => Previous[b] \in Blocks
    BY BlocksAssumption, Zenon
  <1> QED BY <1>1, <1>2, <1>3 DEF Hash

(* The tasks that GetNextBlock, Admit and the others leave behind.         *)
LEMMA SimpleTasks ==
    ASSUME Typed, NEW t \in Threads
    PROVE  /\ GoodTask(Idle)
           /\ \A b \in setting.blocks : \A pc \in {"admit", "insert", "verify"} :
                 \A s \in {thread[t].store, b} : GoodTask([Idle EXCEPT !.pc = pc, !.block = b, !.store = s])
           /\ GoodTask([Idle EXCEPT !.pc = "next", !.block = None, !.store = thread[t].store])
  <1>1. Idle \in Task /\ Idle.pc = "idle"
    BY DEF Idle, Task
  <1>2. None \notin setting.blocks
    BY BlocksAssumption, Zenon DEF Typed
  <1>3. thread[t].store \in setting.blocks \cup {None}
    BY Zenon DEF Typed, Task
  <1>4. LET k == [Idle EXCEPT !.pc = "next", !.block = None, !.store = thread[t].store]
        IN  k \in Task /\ k.pc = "next"
    BY <1>1, <1>3, Zenon DEF Task
  <1>5. ASSUME NEW b \in setting.blocks, NEW pc \in {"admit", "insert", "verify"}, NEW s \in {thread[t].store, b}
        PROVE  GoodTask([Idle EXCEPT !.pc = pc, !.block = b, !.store = s])
    <2> DEFINE k == [Idle EXCEPT !.pc = pc, !.block = b, !.store = s]
    <2>1. k \in Task /\ k.pc = pc /\ k.block = b
      BY <1>1, <1>3, Zenon DEF Task, Validating
    <2>2. pc \notin {"depend", "rely", "clear", "mark"} /\ b # None
      BY <1>2, Zenon
    <2> QED BY <2>1, <2>2, Zenon DEF GoodTask
  <1>6. GoodTask([Idle EXCEPT !.pc = "next", !.block = None, !.store = thread[t].store])
    BY <1>4, Zenon DEF GoodTask, Validating
  <1>7. GoodTask(Idle)
    BY <1>1, Zenon DEF GoodTask, Validating
  <1> QED BY <1>5, <1>6, <1>7, ZenonT(30)

(* Tail of a list that is not empty.                                       *)
LEMMA TailProperties ==
    ASSUME NEW S, NEW s \in Seq(S), s # <<>>
    PROVE  Tail(s) \in Seq(S) /\ (Len(s) # 1 \/ Len(s) > 1 => Tail(s) # <<>>)
  <1>1. Len(s) \in Nat /\ Len(s) # 0
    OBVIOUS
  <1> DEFINE w == Tail(s)
  <1>2. w \in Seq(S) /\ Len(w) = Len(s) - 1
    OBVIOUS
  <1> HIDE DEF w
  <1>3. w = <<>> => Len(w) = 0
    OBVIOUS
  <1>4. w \in Seq(S) /\ (Len(s) # 1 \/ Len(s) > 1 => w # <<>>)
    BY <1>1, <1>2, <1>3
  <1> QED BY <1>1, <1>4, Zenon DEF w

(* The order of the periods is a matter of epochs alone.                   *)
LEMMA GoodPeriodsPrime ==
    ASSUME setting' = setting
    PROVE  GoodPeriods(epochs)' <=> GoodPeriods(epochs')
  <1>1. Period' = Period
    BY Zenon DEF Period
  <1>2. ASSUME NEW s, NEW k, NEW n
        PROVE  GoodList(s, k, n)' <=> GoodList(s, k, n)
    BY Zenon DEF GoodList
  <1>3. ASSUME NEW q
        PROVE  GoodPeriod(q)' <=> GoodPeriod(q)
    BY <1>1, <1>2, Zenon DEF GoodPeriod
  <1> QED BY <1>1, <1>3, Zenon DEF GoodPeriods

(* Every variable keeps its type.                                          *)
LEMMA TypedStep == Typed /\ [Next]_vars => Typed'
  <1> SUFFICES ASSUME Typed, [Next]_vars
               PROVE  Typed'
    BY Zenon
  <1>1. setting' = setting /\ setting \in Settings
    BY Zenon DEF Next, vars, Typed
  <1>2. setting.threads \subseteq Threads /\ setting.blocks \subseteq Blocks /\ setting.consensus \subseteq setting.blocks
    BY <1>1, BlocksAssumption, Zenon
  <1> DEFINE TypedThread == /\ thread \in [Threads -> Task]
                            /\ \A u \in Threads :
                                  /\ thread[u].pc \in {"depend", "rely", "clear", "mark"} => thread[u].todo # <<>>
                                  /\ thread[u].pc \in Validating \cup {"admit", "insert"} => thread[u].block # None
             Rest == /\ cached \subseteq setting.blocks /\ direct \subseteq setting.blocks
                     /\ reliances \in [Blocks -> SUBSET Hash] /\ queue \in Seq(setting.blocks)
                     /\ db \subseteq setting.blocks /\ posted \subseteq setting.blocks
  <1>3. TypedThread' /\ Rest' /\ GoodPeriods(epochs') => Typed'
    BY <1>1, GoodPeriodsPrime, Zenon DEF Typed
  <1>4. TypedThread /\ Rest /\ GoodPeriods(epochs)
    BY Zenon DEF Typed
  <1>5. UNCHANGED thread => TypedThread'
    BY <1>1, <1>4, Zenon DEF Task
  <1>6. UNCHANGED <<cached, direct, reliances, queue, db, posted>> => Rest'
    BY <1>1, <1>4, Zenon
  <1>7. ASSUME NEW t \in Threads, NEW k, GoodTask(k), thread' = [thread EXCEPT ![t] = k]
        PROVE  TypedThread'
    BY <1>1, <1>7, TaskTyped, Zenon
  <1>8. \A t \in Threads : thread[t] \in Task
    BY Zenon DEF Typed
  <1> HIDE DEF TypedThread, Rest
  <1>9. CASE UNCHANGED vars
    BY <1>3, <1>4, <1>5, <1>6, <1>9, Zenon DEF vars
  <1>10. CASE WriteThread
    <2>1. UNCHANGED <<epochs, thread, cached, direct, reliances>>
      BY <1>10, Zenon DEF WriteThread
    <2>2. Rest'
      <3>1. queue \in Seq(setting.blocks) /\ queue # <<>>
        BY <1>10, Zenon DEF Typed, WriteThread
      <3>2. Head(queue) \in setting.blocks /\ Tail(queue) \in Seq(setting.blocks)
        BY <3>1
      <3> QED BY <1>1, <1>4, <1>10, <2>1, <3>1, <3>2, Zenon DEF Rest, WriteThread
    <2> QED BY <1>3, <1>4, <1>5, <2>1, <2>2, Zenon
  <1>11. ASSUME NEW b \in setting.blocks, OnPostCommittedBlock(b)
         PROVE  Typed'
    BY <1>3, <1>4, <1>5, <1>6, <1>11, Zenon DEF OnPostCommittedBlock
  <1>12. ASSUME NEW t \in setting.threads, NEW b \in setting.blocks, Receive(t, b)
         PROVE  Typed'
    <2>1. UNCHANGED <<epochs, cached, direct, reliances, queue, db, posted>>
      BY <1>12, Zenon DEF Receive
    <2>2. TypedThread'
      BY <1>2, <1>7, <1>12, SimpleTasks, ZenonT(30) DEF Receive, Continue
    <2> QED BY <1>3, <1>4, <1>6, <2>1, <2>2, Zenon
  <1>13. ASSUME NEW t \in setting.threads, NEW b \in setting.blocks, OnPostCommit(t, b)
         PROVE  Typed'
    <2>1. UNCHANGED <<epochs, cached, direct, reliances, queue, db, posted>>
      BY <1>13, Zenon DEF OnPostCommit
    <2>2. TypedThread'
      BY <1>2, <1>7, <1>13, SimpleTasks, Zenon DEF OnPostCommit
    <2> QED BY <1>3, <1>4, <1>6, <2>1, <2>2
  <1>14. ASSUME NEW t \in setting.threads, NEW b \in setting.blocks, ProcessDependencies(t, b)
         PROVE  Typed'
    <2>1. UNCHANGED <<epochs, cached, direct, reliances, queue, db>> /\ posted' \subseteq posted
      BY <1>14, Zenon DEF ProcessDependencies
    <2> DEFINE k == [Idle EXCEPT !.pc = "clear", !.todo = <<b>> \o Content[b]]
    <2>2. <<b>> \o Content[b] \in Seq(Hash) /\ <<b>> \o Content[b] # <<>>
      <3>1. b \in Hash /\ Content[b] \in Seq(Hash)
        BY <1>2, HashTypes, Zenon
      <3> QED BY <3>1
    <2> DEFINE w == <<b>> \o Content[b]
    <2> HIDE DEF w
    <2>3. GoodTask([Idle EXCEPT !.pc = "clear", !.todo = w])
      BY <2>2, Zenon DEF GoodTask, Task, Idle, Validating, w
    <2>4. thread' = [thread EXCEPT ![t] = [Idle EXCEPT !.pc = "clear", !.todo = w]]
      BY <1>14, Zenon DEF ProcessDependencies, w
    <2>5. TypedThread'
      BY <1>2, <1>7, <2>3, <2>4, ZenonT(30)
    <2>6. Rest'
      BY <1>1, <1>4, <2>1, ZenonT(30) DEF Rest
    <2> QED BY <1>3, <1>4, <2>1, <2>5, <2>6, ZenonT(30)
  <1>15. ASSUME NEW t \in setting.threads, Admit(t)
         PROVE  Typed'
    <2>1. t \in Threads /\ thread[t].block \in setting.blocks
      BY <1>2, <1>8, <1>15, Zenon DEF Admit, Typed, Task
    <2>2. TypedThread'
      BY <1>7, <1>15, <2>1, SimpleTasks, ZenonT(30) DEF Admit, EndTask, Continue
    <2>3. Rest' /\ epochs' = epochs
      BY <1>1, <1>4, <1>15, <2>1, Zenon DEF Rest, Admit
    <2> QED BY <1>3, <1>4, <2>2, <2>3, ZenonT(30)
  <1>16. ASSUME NEW t \in setting.threads, Insert(t)
         PROVE  Typed'
    <2>1. t \in Threads /\ thread[t].block \in setting.blocks
      BY <1>2, <1>8, <1>16, Zenon DEF Insert, Typed, Task
    <2>2. TypedThread'
      <3>1. Continue(t, "next", None) \/ EndTask(t)
        BY <1>16, ZenonT(30) DEF Insert
      <3> QED BY <1>7, <2>1, <3>1, SimpleTasks, Zenon DEF EndTask, Continue
    <2>3. Rest'
      BY <1>1, <1>4, <1>16, <2>1, Zenon DEF Rest, Insert
    <2>4. GoodPeriods(epochs')
      BY <1>16, <2>1, InsertGood, Zenon
    <2> QED BY <1>3, <2>2, <2>3, <2>4, Zenon
  <1>17. ASSUME NEW t \in setting.threads, GetNextBlock(t)
         PROVE  Typed'
    <2>1. t \in Threads
      BY <1>2, Zenon
    <2>2. \/ UNCHANGED <<epochs, thread>>
          \/ GoodPeriods(epochs') /\ (EndTask(t) \/ \E x \in setting.blocks : Continue(t, "verify", x))
      BY <1>17, <2>1, GetNextBlockCases, Zenon
    <2>3. GoodPeriods(epochs') /\ TypedThread'
      BY <1>4, <1>5, <1>7, <2>1, <2>2, SimpleTasks, ZenonT(30) DEF EndTask, Continue
    <2>4. Rest'
      BY <1>6, <1>17, Zenon DEF GetNextBlock
    <2> QED BY <1>3, <2>3, <2>4, Zenon
  <1>18. ASSUME NEW t \in setting.threads, Verify(t)
         PROVE  Typed'
    <2> DEFINE b == thread[t].block
               k(pc, success, todo) == [thread[t] EXCEPT !.pc = pc, !.success = success, !.todo = todo]
    <2>1. t \in Threads /\ b \in setting.blocks /\ thread[t] \in Task /\ b \in Blocks /\ b # None
      BY <1>2, <1>8, <1>18, BlocksAssumption, Zenon DEF Verify, Typed, Task, Validating
    <2>2. \A success \in BOOLEAN : \A todo \in Seq(Hash) : GoodTask(k("delete", success, todo))
      BY <2>1, Zenon DEF GoodTask, Task, Validating
    <2>3. \A success \in BOOLEAN : \A todo \in Seq(Hash) : todo # <<>> => GoodTask(k("depend", success, todo))
      BY <2>1, Zenon DEF GoodTask, Task, Validating
    <2>4. CASE b \in direct \/ (Missing(b) = {} /\ ~Refused(b))
      <3>1. thread' = [thread EXCEPT ![t] = k("delete", TRUE, <<>>)] /\ queue' = Append(queue, b)
        BY <1>8, <1>18, <2>1, <2>4, Zenon DEF Verify, Typed
      <3>2. GoodTask(k("delete", TRUE, <<>>))
        <4>1. <<>> \in Seq(Hash) /\ TRUE \in BOOLEAN
          OBVIOUS
        <4> HIDE DEF k
        <4> QED BY <2>2, <4>1, Zenon
      <3>3. TypedThread'
        BY <1>7, <2>1, <3>1, <3>2, Zenon
      <3>4. queue' \in Seq(setting.blocks)
        <4>1. queue \in Seq(setting.blocks) /\ b \in setting.blocks /\ queue' = Append(queue, b)
          BY <2>1, <3>1, Zenon DEF Typed
        <4> HIDE DEF b
        <4> QED BY <4>1
      <3>5. Rest' /\ epochs' = epochs
        BY <1>1, <1>4, <1>18, <3>4, ZenonT(30) DEF Rest, Verify
      <3> QED BY <1>3, <1>4, <3>3, <3>5
    <2>5. CASE b \notin direct /\ Refused(b)
      <3>1. UNCHANGED <<queue, thread>>
        BY <1>18, <2>5, Zenon DEF Verify
      <3> QED BY <1>3, <1>4, <1>5, <1>6, <1>18, <3>1, Zenon DEF Verify
    <2>6. CASE b \notin direct /\ ~Refused(b) /\ Missing(b) # {}
      <3>1. Missing(b) \subseteq Hash /\ IsFiniteSet(Missing(b))
        <4>1. CASE MissingPrevious(b)
          BY <2>1, <4>1, HashTypes, FS_Singleton, ZenonT(30) DEF Missing, MissingPrevious
        <4>2. CASE ~MissingPrevious(b)
          <5>1. IsFiniteSet(Needs[b]) /\ MissingNeeds(b) \in SUBSET Needs[b]
            BY <2>1, BlocksAssumption, Zenon DEF MissingNeeds
          <5>2. Missing(b) = MissingNeeds(b) /\ Needs[b] \subseteq Hash
            BY <2>1, <4>2, HashTypes, Zenon DEF Missing
          <5> QED BY <5>1, <5>2, FS_Subset
        <4> QED BY <4>1, <4>2, Zenon
      <3> DEFINE w == InSomeOrder(Missing(b))
      <3>2. w \in Seq(Missing(b)) /\ w # <<>>
        BY <2>6, <3>1, InSomeOrderProperties, Zenon
      <3> HIDE DEF w
      <3>3. w \in Seq(Hash)
        BY <3>1, <3>2
      <3>4. thread' = [thread EXCEPT ![t] = k("depend", FALSE, w)] /\ queue' = queue
        BY <1>8, <1>18, <2>1, <2>6, Zenon DEF Verify, Typed, w
      <3>5. TypedThread'
        BY <1>7, <2>1, <2>3, <3>2, <3>3, <3>4, ZenonT(30)
      <3> QED BY <1>3, <1>4, <1>6, <1>18, <3>4, <3>5, Zenon DEF Verify
    <2> QED BY <2>4, <2>5, <2>6, ZenonT(30)
  <1>19. ASSUME NEW t \in setting.threads, BlockDelete(t)
         PROVE  Typed'
    <2>1. t \in Threads /\ thread[t] \in Task
      BY <1>2, <1>8, Zenon
    <2>2. thread' = [thread EXCEPT ![t] = [thread[t] EXCEPT !.pc = "next"]]
      BY <1>19, Zenon DEF BlockDelete
    <2>3. GoodTask([thread[t] EXCEPT !.pc = "next"])
      BY <2>1, Zenon DEF GoodTask, Task, Validating
    <2>4. TypedThread'
      BY <1>7, <2>1, <2>2, <2>3, Zenon
    <2>5. Rest' /\ epochs' = epochs
      BY <1>1, <1>4, <1>19, ZenonT(30) DEF Rest, BlockDelete
    <2> QED BY <1>3, <1>4, <2>4, <2>5
  <1>20. ASSUME NEW t \in setting.threads, AddHashDependency(t) \/ AddReliance(t)
         PROVE  Typed'
    <2>1. t \in Threads /\ thread[t] \in Task /\ thread[t].todo \in Seq(Hash) /\ thread[t].todo # <<>>
          /\ thread[t].block \in setting.blocks
      BY <1>2, <1>8, <1>20, Zenon DEF AddHashDependency, AddReliance, Typed, Task, Validating
    <2> DEFINE s == thread[t].todo
               w == Tail(s)
               pc == IF Len(s) = 1 THEN "next" ELSE "depend"
               k == [thread[t] EXCEPT !.todo = w, !.pc = pc]
    <2>2. w \in Seq(Hash) /\ (pc = "depend" => w # <<>>) /\ pc \in {"next", "depend"}
      BY <2>1, TailProperties, Zenon
    <2>3. NextDependency(t) => thread' = [thread EXCEPT ![t] = k]
      BY <1>8, <2>1, Zenon DEF NextDependency, Typed
    <2> HIDE DEF w, pc
    <2>4. GoodTask(k)
      <3>1. k \in Task /\ k.pc = pc /\ k.todo = w /\ k.block = thread[t].block
        BY <2>1, <2>2, ZenonT(30) DEF Task, Validating
      <3>2. thread[t].block # None
        BY <2>1, <1>2, BlocksAssumption, Zenon
      <3> QED BY <2>2, <3>1, <3>2, Zenon DEF GoodTask
    <2>5. GoodTask([thread[t] EXCEPT !.pc = "rely"])
      <3>1. thread[t].block # None
        BY <2>1, <1>2, BlocksAssumption
      <3> QED BY <2>1, <3>1, Zenon DEF GoodTask, Task, Validating
    <2> HIDE DEF k
    <2>6. TypedThread'
      <3>1. NextDependency(t) \/ thread' = [thread EXCEPT ![t] = [thread[t] EXCEPT !.pc = "rely"]]
        BY <1>20, Zenon DEF AddHashDependency, AddReliance
      <3> QED BY <1>7, <2>1, <2>3, <2>4, <2>5, <3>1, Zenon
    <2>7. (reliances \in [Blocks -> SUBSET Hash])'
      <3>1. Head(thread[t].todo) \in Hash /\ reliances \in [Blocks -> SUBSET Hash]
        BY <2>1 DEF Typed
      <3> QED BY <1>20, <3>1 DEF AddHashDependency, AddReliance
    <2>8. Rest' /\ epochs' = epochs
      BY <1>1, <1>4, <1>20, <2>7, ZenonT(30) DEF Rest, AddHashDependency, AddReliance
    <2> QED BY <1>3, <1>4, <2>6, <2>8
  <1>21. ASSUME NEW t \in setting.threads, DeleteHashDependencies(t) \/ MarkForRevalidation(t)
         PROVE  Typed'
    <2>1. t \in Threads /\ thread[t] \in Task /\ thread[t].todo \in Seq(Hash) /\ thread[t].todo # <<>>
      BY <1>2, <1>8, <1>21, ZenonT(30) DEF DeleteHashDependencies, MarkForRevalidation, Typed, Task
    <2> DEFINE s == thread[t].todo
               w == Tail(s)
    <2>2. w \in Seq(Hash) /\ (Len(s) > 1 => w # <<>>)
      BY <2>1, TailProperties, Zenon
    <2>3. ASSUME NEW found \in BOOLEAN, NextHash(t, found)
          PROVE  TypedThread'
      <3> DEFINE k == [thread[t] EXCEPT !.pc = "clear", !.todo = w, !.found = found, !.waiters = {}]
      <3>1. CASE Len(thread[t].todo) > 1
        <4>1. thread' = [thread EXCEPT ![t] = k]
          BY <1>8, <2>1, <2>3, <3>1, ZenonT(30) DEF NextHash, Typed
        <4> HIDE DEF w
        <4>2. k \in Task /\ k.pc = "clear" /\ k.todo = w
          BY <2>1, <2>2, Zenon DEF Task
        <4> QED BY <1>7, <2>1, <2>2, <3>1, <4>1, <4>2, ZenonT(30) DEF GoodTask, Validating
      <3>2. CASE ~(Len(thread[t].todo) > 1)
        <4>1. Continue(t, "next", None) \/ EndTask(t)
          BY <2>3, <3>2, Zenon DEF NextHash
        <4> QED BY <1>7, <2>1, <4>1, SimpleTasks, ZenonT(30) DEF EndTask, Continue
      <3> QED BY <3>1, <3>2, Zenon
    <2>4. \A waiters \in SUBSET Blocks : GoodTask([thread[t] EXCEPT !.pc = "mark", !.waiters = waiters])
      BY <2>1, Zenon DEF GoodTask, Task, Validating
    <2>5. TypedThread'
      <3>1. CASE MarkForRevalidation(t)
        BY <2>3, <3>1, Zenon DEF MarkForRevalidation
      <3>2. CASE DeleteHashDependencies(t)
        <4> DEFINE h == Head(thread[t].todo)
                   waiters == {b \in Blocks : <<h, b>> \in table}
        <4>1. CASE waiters = {}
          BY <1>8, <2>1, <2>3, <3>2, <4>1, Zenon DEF DeleteHashDependencies, Task
        <4>2. CASE waiters # {}
          <5>1. thread' = [thread EXCEPT ![t] = [thread[t] EXCEPT !.pc = "mark", !.waiters = waiters]]
            BY <1>8, <2>1, <3>2, <4>2, Zenon DEF DeleteHashDependencies, Typed
          <5>2. waiters \in SUBSET Blocks
            BY Zenon
          <5> HIDE DEF waiters
          <5> QED BY <1>7, <2>1, <2>4, <5>1, <5>2, Zenon
        <4> QED BY <4>1, <4>2, Zenon
      <3> QED BY <1>21, <3>1, <3>2, Zenon
    <2>6. (reliances \in [Blocks -> SUBSET Hash])'
      <3>1. reliances \in [Blocks -> SUBSET Hash]
        BY Zenon DEF Typed
      <3> QED BY <1>21, <3>1, Zenon DEF DeleteHashDependencies, MarkForRevalidation
    <2>7. Rest' /\ epochs' = epochs
      BY <1>1, <1>4, <1>21, <2>6, ZenonT(30) DEF Rest, DeleteHashDependencies, MarkForRevalidation
    <2> QED BY <1>3, <1>4, <2>5, <2>7
  <1> QED BY <1>9, <1>10, <1>11, <1>12, <1>13, <1>14, <1>15, <1>16, <1>17, <1>18, <1>19, <1>20, <1>21, ZenonT(30)
          DEF Next, Running, Step

-----------------------------------------------------------------------------
(* Locks                                                                   *)

(* A step that locks nothing and by which no thread gets a block.          *)
LEMMA KeepLocks ==
    ASSUME Locks, NEW t \in Threads, locked' = locked,
           \A u \in Threads : u # t => thread'[u] = thread[u],
           Holds(t)' => Holds(t) /\ thread'[t].block = thread[t].block
    PROVE  Locks'
  <1>1. \A u \in Threads : Holds(u)' => Holds(u) /\ thread'[u].block = thread[u].block
    BY Zenon DEF Holds
  <1> QED BY <1>1, Zenon DEF Locks

(* No two threads ever hold the same block.                                *)
LEMMA LocksStep == Typed /\ Locks /\ [Next]_vars => Locks'
  <1> SUFFICES ASSUME Typed, Locks, [Next]_vars
               PROVE  Locks'
    BY Zenon
  <1>1. setting.threads \subseteq Threads /\ setting \in Settings
    BY BlocksAssumption, Zenon DEF Typed
  <1>2. thread \in [Threads -> Task]
    BY Zenon DEF Typed
  <1>3. CASE UNCHANGED <<thread, locked>>
    BY <1>3, Zenon DEF Locks, Holds
  <1>4. ASSUME NEW t \in Threads, NEW k, thread' = [thread EXCEPT ![t] = k], locked' = locked,
               k.pc \in Validating \/ (k.pc = "next" /\ k.block # None) => Holds(t) /\ k.block = thread[t].block
        PROVE  Locks'
    <2>1. \A u \in Threads : thread'[u] = IF u = t THEN k ELSE thread[u]
      BY <1>2, <1>4, Zenon
    <2> QED BY <1>4, <2>1, KeepLocks DEF Holds
  <1>5. ASSUME NEW t \in Threads, locked' = locked, EndTask(t) \/ Continue(t, "next", None)
        PROVE  Locks'
    <2>1. thread' = [thread EXCEPT ![t] = Idle]
          \/ thread' = [thread EXCEPT ![t] = [Idle EXCEPT !.pc = "next", !.block = None, !.store = thread[t].store]]
      BY <1>5, Zenon DEF EndTask, Continue
    <2>2. Idle.pc = "idle" /\ LET k == [Idle EXCEPT !.pc = "next", !.block = None, !.store = thread[t].store]
                              IN  k.pc = "next" /\ k.block = None
      BY Zenon DEF Idle
    <2> QED BY <1>4, <1>5, <2>1, <2>2, Zenon DEF Validating
  <1>6. ASSUME NEW t \in Threads, NEW b, NEW pc \in {"admit", "insert"}, NEW s,
               thread' = [thread EXCEPT ![t] = [Idle EXCEPT !.pc = pc, !.block = b, !.store = s]], locked' = locked
        PROVE  Locks'
    <2>1. [Idle EXCEPT !.pc = pc, !.block = b, !.store = s].pc = pc
      BY Zenon DEF Idle
    <2> QED BY <1>4, <1>6, <2>1, Zenon DEF Validating
  <1>7. ASSUME NEW t \in setting.threads, Admit(t) \/ Insert(t)
        PROVE  Locks'
    <2>1. locked' = locked /\ (EndTask(t) \/ Continue(t, "next", None) \/ Continue(t, "insert", thread[t].block))
      BY <1>7, Zenon DEF Admit, Insert
    <2> QED BY <1>1, <1>5, <1>6, <2>1, Zenon DEF Continue
  <1>8. ASSUME NEW t \in setting.threads, NEW b, Receive(t, b) \/ OnPostCommit(t, b)
        PROVE  Locks'
    BY <1>1, <1>6, <1>8, Zenon DEF Receive, OnPostCommit, Continue
  <1>9. ASSUME NEW t \in setting.threads, NEW b, ProcessDependencies(t, b)
        PROVE  Locks'
    <2> DEFINE k == [Idle EXCEPT !.pc = "clear", !.todo = <<b>> \o Content[b]]
    <2>1. k.pc = "clear"
      BY Zenon DEF Idle
    <2>2. thread' = [thread EXCEPT ![t] = k] /\ locked' = locked
      BY <1>9, Zenon DEF ProcessDependencies
    <2> HIDE DEF k
    <2> QED BY <1>1, <1>4, <2>1, <2>2, Zenon DEF Validating
  <1>10. ASSUME NEW t \in setting.threads, Verify(t)
         PROVE  Locks'
    <2>1. t \in Threads /\ thread[t] \in Task /\ thread[t].pc = "verify" /\ locked' = locked
      BY <1>1, <1>2, <1>10, Zenon DEF Verify
    <2>2. UNCHANGED thread \/ \E pc, success, todo : thread' = [thread EXCEPT ![t].pc = pc, ![t].success = success, ![t].todo = todo]
      BY <1>10, Zenon DEF Verify
    <2>3. CASE UNCHANGED thread
      BY <1>3, <2>1, <2>3, Zenon
    <2>4. ASSUME NEW pc, NEW success, NEW todo,
                 thread' = [thread EXCEPT ![t].pc = pc, ![t].success = success, ![t].todo = todo]
          PROVE  Locks'
      <3> DEFINE k == [thread[t] EXCEPT !.pc = pc, !.success = success, !.todo = todo]
      <3>1. thread' = [thread EXCEPT ![t] = k]
        BY <1>2, <2>1, <2>4, Zenon
      <3>2. k.block = thread[t].block
        BY <2>1, Zenon DEF Task
      <3> HIDE DEF k
      <3> QED BY <1>4, <2>1, <3>1, <3>2, Zenon DEF Holds, Validating
    <2> QED BY <2>2, <2>3, <2>4, Zenon
  <1>11. ASSUME NEW t \in setting.threads, BlockDelete(t) \/ AddHashDependency(t) \/ AddReliance(t)
         PROVE  Locks'
    <2>1. t \in Threads /\ thread[t] \in Task /\ thread[t].pc \in Validating /\ locked' = locked
      BY <1>1, <1>2, <1>11, Zenon DEF BlockDelete, AddHashDependency, AddReliance, Validating
    <2>2. \/ \E pc : thread' = [thread EXCEPT ![t].pc = pc]
          \/ \E pc, todo : thread' = [thread EXCEPT ![t].todo = todo, ![t].pc = pc]
      BY <1>2, <1>11, <2>1, Zenon DEF BlockDelete, AddHashDependency, AddReliance, NextDependency
    <2>3. \A u \in Threads : u # t => thread'[u] = thread[u]
      BY <1>2, <2>1, <2>2, Zenon
    <2>4. thread'[t].block = thread[t].block
      BY <1>2, <2>1, <2>2, ZenonT(60) DEF Task
    <2> QED BY <2>1, <2>3, <2>4, KeepLocks, Zenon DEF Holds
  <1>12. ASSUME NEW t \in setting.threads, DeleteHashDependencies(t) \/ MarkForRevalidation(t)
         PROVE  Locks'
    <2>1. t \in Threads /\ thread[t] \in Task /\ locked' = locked
      BY <1>1, <1>2, <1>12, Zenon DEF DeleteHashDependencies, MarkForRevalidation
    <2>2. \/ EndTask(t) \/ Continue(t, "next", None)
          \/ \E todo, found : thread' = [thread EXCEPT ![t].pc = "clear", ![t].todo = todo, ![t].found = found, ![t].waiters = {}]
          \/ \E waiters : thread' = [thread EXCEPT ![t].pc = "mark", ![t].waiters = waiters]
      <3>1. (\E found : NextHash(t, found)) \/ \E waiters : thread' = [thread EXCEPT ![t].pc = "mark", ![t].waiters = waiters]
        BY <1>12, Zenon DEF DeleteHashDependencies, MarkForRevalidation
      <3>2. ASSUME NEW found, NextHash(t, found)
            PROVE  \/ EndTask(t) \/ Continue(t, "next", None)
                   \/ \E todo : thread' = [thread EXCEPT ![t].pc = "clear", ![t].todo = todo, ![t].found = found, ![t].waiters = {}]
        BY <1>2, <2>1, <3>2, Zenon DEF NextHash
      <3> QED BY <3>1, <3>2, ZenonT(30)
    <2>3. CASE EndTask(t) \/ Continue(t, "next", None)
      BY <1>5, <2>1, <2>3, Zenon
    <2>4. ASSUME NEW todo, NEW found,
                 thread' = [thread EXCEPT ![t].pc = "clear", ![t].todo = todo, ![t].found = found, ![t].waiters = {}]
          PROVE  Locks'
      <3>1. thread'[t].pc = "clear" /\ \A u \in Threads : u # t => thread'[u] = thread[u]
        BY <1>2, <2>1, <2>4, Zenon DEF Task
      <3> QED BY <2>1, <3>1, KeepLocks, Zenon DEF Holds, Validating
    <2>5. ASSUME NEW waiters, thread' = [thread EXCEPT ![t].pc = "mark", ![t].waiters = waiters]
          PROVE  Locks'
      <3>1. thread'[t].pc = "mark" /\ \A u \in Threads : u # t => thread'[u] = thread[u]
        BY <1>2, <2>1, <2>5, Zenon DEF Task
      <3> QED BY <2>1, <3>1, KeepLocks, Zenon DEF Holds, Validating
    <2> QED BY <2>2, <2>3, <2>4, <2>5, Zenon
  <1>13. ASSUME NEW t \in setting.threads, GetNextBlock(t)
         PROVE  Locks'
    <2> DEFINE b == thread[t].block
               held == locked \ {b}
    <2>1. t \in Threads /\ thread[t].pc = "next"
      BY <1>1, <1>13, Zenon DEF GetNextBlock
    <2>2. \/ UNCHANGED <<thread, locked>>
          \/ EndTask(t) /\ locked' = held
          \/ \E x \in setting.blocks \ held : Continue(t, "verify", x) /\ locked' = held \cup {x}
      BY <1>13, <2>1, GetNextBlockCases, Zenon
    <2>3. \A u \in Threads : Holds(u) /\ u # t => thread[u].block \in held
      <3> SUFFICES ASSUME NEW u \in Threads, Holds(u), u # t
                   PROVE  thread[u].block \in held
        BY Zenon
      <3>1. thread[u].block \in locked
        BY Zenon DEF Locks
      <3>2. thread[u].block # None
        BY Zenon DEF Typed, Holds
      <3>3. thread[u].block # b
        BY <2>1, <3>2, ZenonT(30) DEF Locks, Holds
      <3> QED BY <3>1, <3>3, Zenon
    <2>4. ASSUME NEW k, thread' = [thread EXCEPT ![t] = k], held \subseteq locked',
                 k.pc \in Validating \/ (k.pc = "next" /\ k.block # None) => k.block \in locked' /\ k.block \notin held
          PROVE  Locks'
      <3>1. \A u \in Threads : thread'[u] = IF u = t THEN k ELSE thread[u]
        BY <1>2, <2>4, Zenon
      <3>2. \A u \in Threads : Holds(u)' => \/ u # t /\ Holds(u) /\ thread'[u].block = thread[u].block /\ thread[u].block \in held
                                            \/ u = t /\ thread'[u].block \in locked' /\ thread'[u].block \notin held
        BY <2>3, <2>4, <3>1, ZenonT(30) DEF Holds
      <3> QED BY <2>4, <3>2 DEF Locks
    <2>5. CASE EndTask(t) /\ locked' = held
      <3>1. Idle.pc = "idle"
        BY Zenon DEF Idle
      <3> QED BY <2>4, <2>5, <3>1, Zenon DEF EndTask, Validating
    <2>6. ASSUME NEW x \in setting.blocks \ held, Continue(t, "verify", x), locked' = held \cup {x}
          PROVE  Locks'
      <3> DEFINE k == [Idle EXCEPT !.pc = "verify", !.block = x, !.store = thread[t].store]
      <3>1. k.block = x
        BY Zenon DEF Idle
      <3>2. thread' = [thread EXCEPT ![t] = k]
        BY <2>6, Zenon DEF Continue
      <3> HIDE DEF k
      <3> QED BY <2>4, <2>6, <3>1, <3>2, Zenon
    <2> QED BY <1>3, <2>2, <2>5, <2>6, Zenon
  <1>14. CASE UNCHANGED vars \/ WriteThread \/ \E b \in setting.blocks : OnPostCommittedBlock(b)
    BY <1>3, <1>14, Zenon DEF vars, WriteThread, OnPostCommittedBlock
  <1> QED BY <1>7, <1>8, <1>9, <1>10, <1>11, <1>12, <1>13, <1>14, ZenonT(30) DEF Next, Running, Step

-----------------------------------------------------------------------------
(* What a step does to a task, and to the queue and the database           *)

(* Only pool threads have tasks, and only PostCommit stores a block as     *)
(* agreed.                                                                 *)
LEMMA ThreadStep ==
    ASSUME Typed, [Next]_vars
    PROVE  /\ setting' = setting
           /\ \A u \in Threads \ setting.threads : thread'[u] = thread[u]
           /\ \A u \in Threads : \/ thread'[u].store \in {thread[u].store, None}
                                 \/ \E b \in setting.blocks : OnPostCommit(u, b) /\ thread'[u].store = b
  <1>1. setting.threads \subseteq Threads /\ thread \in [Threads -> Task]
    BY BlocksAssumption, Zenon DEF Typed
  <1>2. setting' = setting
    BY Zenon DEF Next, vars
  <1>3. ASSUME NEW t \in setting.threads, NEW k, thread' = [thread EXCEPT ![t] = k],
               \/ k.store \in {thread[t].store, None}
               \/ \E b \in setting.blocks : OnPostCommit(t, b) /\ k.store = b
        PROVE  /\ \A u \in Threads \ setting.threads : thread'[u] = thread[u]
               /\ \A u \in Threads : \/ thread'[u].store \in {thread[u].store, None}
                                     \/ \E b \in setting.blocks : OnPostCommit(u, b) /\ thread'[u].store = b
    BY <1>1, <1>3, Zenon
  <1>4. CASE UNCHANGED thread
    BY <1>2, <1>4, Zenon
  <1>5. ASSUME NEW t \in setting.threads, NEW pc, NEW b, EndTask(t) \/ Continue(t, pc, b)
        PROVE  \E k : thread' = [thread EXCEPT ![t] = k] /\ k.store \in {thread[t].store, None}
    <2>1. Idle.store = None /\ [Idle EXCEPT !.pc = pc, !.block = b, !.store = thread[t].store].store = thread[t].store
      BY Zenon DEF Idle
    <2> QED BY <1>5, <2>1, Zenon DEF EndTask, Continue
  <1>6. ASSUME NEW t \in setting.threads, Admit(t) \/ Insert(t) \/ GetNextBlock(t)
        PROVE  UNCHANGED thread \/ \E k : thread' = [thread EXCEPT ![t] = k] /\ k.store \in {thread[t].store, None}
    <2>1. UNCHANGED thread \/ EndTask(t) \/ \E pc, b : Continue(t, pc, b)
      <3>1. CASE Admit(t) \/ Insert(t)
        BY <3>1, Zenon DEF Admit, Insert
      <3>2. CASE GetNextBlock(t)
        BY <1>1, <3>2, GetNextBlockCases, Zenon
      <3> QED BY <1>6, <3>1, <3>2, Zenon
    <2> QED BY <1>5, <2>1, Zenon
  <1>7. ASSUME NEW t \in setting.threads, Verify(t) \/ BlockDelete(t) \/ AddHashDependency(t) \/ AddReliance(t)
        PROVE  thread'[t].store = thread[t].store /\ \A u \in Threads : u # t => thread'[u] = thread[u]
    <2>1. t \in Threads /\ thread[t] \in Task
      BY <1>1, Zenon
    <2>2. \/ UNCHANGED thread
          \/ \E pc, success, todo : thread' = [thread EXCEPT ![t].pc = pc, ![t].success = success, ![t].todo = todo]
          \/ \E pc : thread' = [thread EXCEPT ![t].pc = pc]
          \/ \E pc, todo : thread' = [thread EXCEPT ![t].todo = todo, ![t].pc = pc]
      <3>1. ASSUME Verify(t)
            PROVE  UNCHANGED thread
                   \/ \E pc, success, todo : thread' = [thread EXCEPT ![t].pc = pc, ![t].success = success, ![t].todo = todo]
        BY <3>1, Zenon DEF Verify
      <3>2. CASE BlockDelete(t) \/ AddHashDependency(t) \/ AddReliance(t)
        BY <1>1, <2>1, <3>2, Zenon DEF BlockDelete, AddHashDependency, AddReliance, NextDependency
      <3> QED BY <1>7, <3>1, <3>2, Zenon
    <2>3. \A u \in Threads : u # t => thread'[u] = thread[u]
      BY <1>1, <2>1, <2>2, Zenon
    <2>4. ASSUME NEW pc, NEW success, NEW todo,
                 thread' = [thread EXCEPT ![t].pc = pc, ![t].success = success, ![t].todo = todo]
          PROVE  thread'[t].store = thread[t].store
      BY <1>1, <2>1, <2>4, Zenon DEF Task
    <2>5. ASSUME NEW pc, thread' = [thread EXCEPT ![t].pc = pc]
          PROVE  thread'[t].store = thread[t].store
      BY <1>1, <2>1, <2>5, Zenon DEF Task
    <2>6. ASSUME NEW pc, NEW todo, thread' = [thread EXCEPT ![t].todo = todo, ![t].pc = pc]
          PROVE  thread'[t].store = thread[t].store
      BY <1>1, <2>1, <2>6, Zenon DEF Task
    <2>7. ASSUME UNCHANGED thread
          PROVE  thread'[t].store = thread[t].store
      BY <2>7, Zenon
    <2>8. thread'[t].store = thread[t].store
      BY <2>2, <2>4, <2>5, <2>6, <2>7, Zenon
    <2> QED BY <2>3, <2>8, Zenon
  <1>8. ASSUME NEW t \in setting.threads, DeleteHashDependencies(t) \/ MarkForRevalidation(t)
        PROVE  \/ EndTask(t) \/ Continue(t, "next", None)
               \/ thread'[t].store = thread[t].store /\ \A u \in Threads : u # t => thread'[u] = thread[u]
    <2>1. t \in Threads /\ thread[t] \in Task
      BY <1>1
    <2>2. (\E found : NextHash(t, found)) \/ \E waiters : thread' = [thread EXCEPT ![t].pc = "mark", ![t].waiters = waiters]
      BY <1>8, Zenon DEF DeleteHashDependencies, MarkForRevalidation
    <2>3. ASSUME NEW found, NextHash(t, found)
          PROVE  \/ EndTask(t) \/ Continue(t, "next", None)
                 \/ \E todo : thread' = [thread EXCEPT ![t].pc = "clear", ![t].todo = todo, ![t].found = found, ![t].waiters = {}]
      BY <1>1, <2>1, <2>3, Zenon DEF NextHash
    <2>4. ASSUME NEW todo, NEW found,
                 thread' = [thread EXCEPT ![t].pc = "clear", ![t].todo = todo, ![t].found = found, ![t].waiters = {}]
          PROVE  thread'[t].store = thread[t].store /\ \A u \in Threads : u # t => thread'[u] = thread[u]
      BY <1>1, <2>1, <2>4, Zenon DEF Task
    <2>5. ASSUME NEW waiters, thread' = [thread EXCEPT ![t].pc = "mark", ![t].waiters = waiters]
          PROVE  thread'[t].store = thread[t].store /\ \A u \in Threads : u # t => thread'[u] = thread[u]
      BY <1>1, <2>1, <2>5, Zenon DEF Task
    <2> QED BY <2>2, <2>3, <2>4, <2>5, ZenonT(30)
  <1>9. ASSUME NEW t \in setting.threads, NEW b \in setting.blocks,
               Receive(t, b) \/ OnPostCommit(t, b) \/ ProcessDependencies(t, b)
        PROVE  \E k : /\ thread' = [thread EXCEPT ![t] = k]
                      /\ k.store \in {thread[t].store, None} \/ (OnPostCommit(t, b) /\ k.store = b)
    <2>1. CASE Receive(t, b)
      BY <1>5, <2>1, Zenon DEF Receive
    <2>2. CASE OnPostCommit(t, b)
      <3>1. [Idle EXCEPT !.pc = "admit", !.block = b, !.store = b].store = b
        BY Zenon DEF Idle
      <3> QED BY <2>2, <3>1, Zenon DEF OnPostCommit
    <2>3. CASE ProcessDependencies(t, b)
      <3>1. \A todo : [Idle EXCEPT !.pc = "clear", !.todo = todo].store = None
        BY Zenon DEF Idle
      <3> QED BY <2>3, <3>1, Zenon DEF ProcessDependencies
    <2> QED BY <1>9, <2>1, <2>2, <2>3, Zenon
  <1>10. CASE UNCHANGED vars \/ WriteThread \/ \E b \in setting.blocks : OnPostCommittedBlock(b)
    BY <1>4, <1>10, Zenon DEF vars, WriteThread, OnPostCommittedBlock
  <1>11. ASSUME NEW t \in setting.threads, Step(t)
         PROVE  /\ \A u \in Threads \ setting.threads : thread'[u] = thread[u]
                /\ \A u \in Threads : thread'[u].store \in {thread[u].store, None}
    <2>1. \/ UNCHANGED thread
          \/ \E k : thread' = [thread EXCEPT ![t] = k] /\ k.store \in {thread[t].store, None}
          \/ thread'[t].store = thread[t].store /\ \A u \in Threads : u # t => thread'[u] = thread[u]
      BY <1>5, <1>6, <1>7, <1>8, <1>11, ZenonT(30) DEF Step
    <2>2. CASE UNCHANGED thread
      BY <2>2, Zenon
    <2>3. ASSUME NEW k, thread' = [thread EXCEPT ![t] = k], k.store \in {thread[t].store, None}
          PROVE  /\ \A u \in Threads \ setting.threads : thread'[u] = thread[u]
                 /\ \A u \in Threads : thread'[u].store \in {thread[u].store, None}
      BY <1>1, <2>3, Zenon
    <2>4. CASE thread'[t].store = thread[t].store /\ \A u \in Threads : u # t => thread'[u] = thread[u]
      BY <1>11, <2>4, Zenon
    <2> QED BY <2>1, <2>2, <2>3, <2>4, Zenon
  <1>12. ASSUME NEW t \in setting.threads, NEW b \in setting.blocks,
                Receive(t, b) \/ OnPostCommit(t, b) \/ ProcessDependencies(t, b)
         PROVE  /\ \A u \in Threads \ setting.threads : thread'[u] = thread[u]
                /\ \A u \in Threads : \/ thread'[u].store \in {thread[u].store, None}
                                      \/ \E a \in setting.blocks : OnPostCommit(u, a) /\ thread'[u].store = a
    <2>1. PICK k : /\ thread' = [thread EXCEPT ![t] = k]
                   /\ k.store \in {thread[t].store, None} \/ (OnPostCommit(t, b) /\ k.store = b)
      BY <1>9, <1>12, Zenon
    <2> QED BY <1>3, <2>1, Zenon
  <1>13. \/ UNCHANGED vars \/ WriteThread \/ \E b \in setting.blocks : OnPostCommittedBlock(b)
         \/ \E t \in setting.threads : Step(t)
         \/ \E t \in setting.threads, b \in setting.blocks : Receive(t, b) \/ OnPostCommit(t, b) \/ ProcessDependencies(t, b)
    BY Zenon DEF Next, Running
  <1> QED BY <1>2, <1>10, <1>11, <1>12, <1>13, Zenon

(* The queue is filled by Verify and emptied by the write thread, which    *)
(* alone writes to the database; direct_write is set for blocks that a     *)
(* delegate stores.                                                        *)
LEMMA QueueStep ==
    ASSUME Typed, [Next]_vars
    PROVE  /\ direct' \subseteq direct \cup ({thread[t].store : t \in Threads} \ {None})
           /\ \/ db' = db /\ queue' = queue
              \/ /\ db' = db
                 /\ \E t \in setting.threads :
                       LET b == thread[t].block
                       IN  /\ Verify(t)
                           /\ queue' = Append(queue, b)
                           /\ b \in direct \/ (Missing(b) = {} /\ ~Refused(b))
              \/ /\ queue # <<>>
                 /\ db' = db \cup {Head(queue)}
                 /\ queue' = Tail(queue)
                 /\ Head(queue) \in db \/ ~MissingPrevious(Head(queue))
  <1>1. setting.threads \subseteq Threads
    BY BlocksAssumption, Zenon DEF Typed
  <1>2. CASE UNCHANGED <<db, queue, direct>>
    BY <1>2, Zenon
  <1>3. ASSUME NEW t \in setting.threads, Step(t), ~Insert(t), ~Verify(t)
        PROVE  UNCHANGED <<db, queue, direct>>
    BY <1>3, Zenon DEF Step, Admit, GetNextBlock, BlockDelete, AddHashDependency, AddReliance,
                DeleteHashDependencies, MarkForRevalidation
  <1>4. ASSUME NEW t \in setting.threads, Insert(t)
        PROVE  UNCHANGED <<db, queue>> /\ direct' \subseteq direct \cup ({thread[u].store : u \in Threads} \ {None})
    <2>1. t \in Threads /\ thread[t].block # None
      BY <1>1, <1>4, Zenon DEF Typed, Insert
    <2> QED BY <1>4, <2>1, Zenon DEF Insert
  <1>5. ASSUME NEW t \in setting.threads, Verify(t)
        PROVE  /\ UNCHANGED <<db, direct>>
               /\ \/ queue' = queue
                  \/ LET b == thread[t].block
                     IN  queue' = Append(queue, b) /\ (b \in direct \/ (Missing(b) = {} /\ ~Refused(b)))
    BY <1>5, Zenon DEF Verify
  <1>6. ASSUME WriteThread
        PROVE  /\ UNCHANGED direct
               /\ \/ UNCHANGED <<db, queue>>
                  \/ /\ queue # <<>>
                     /\ db' = db \cup {Head(queue)}
                     /\ queue' = Tail(queue)
                     /\ Head(queue) \in db \/ ~MissingPrevious(Head(queue))
    BY <1>6, Zenon DEF WriteThread
  <1>7. ASSUME NEW b, OnPostCommittedBlock(b) \/ \E t \in setting.threads : Receive(t, b) \/ OnPostCommit(t, b) \/ ProcessDependencies(t, b)
        PROVE  UNCHANGED <<db, queue, direct>>
    BY <1>7, Zenon DEF OnPostCommittedBlock, Receive, OnPostCommit, ProcessDependencies
  <1>8. CASE UNCHANGED vars
    BY <1>2, <1>8, Zenon DEF vars
  <1>9. CASE \E t \in setting.threads : Step(t)
    BY <1>2, <1>3, <1>4, <1>5, <1>9, ZenonT(30)
  <1> QED BY <1>2, <1>6, <1>7, <1>8, <1>9, ZenonT(30) DEF Next, Running

(* What a queue holds after a block is put in or taken out.                *)
LEMMA QueueRange ==
    ASSUME NEW S, NEW q \in Seq(S)
    PROVE  /\ \A x \in S : Range(Append(q, x)) = Range(q) \cup {x}
           /\ q # <<>> => Head(q) \in Range(q) /\ Range(q) = Range(Tail(q)) \cup {Head(q)}
           /\ Range(q) \subseteq S
  <1>1. Len(q) \in Nat /\ DOMAIN q = 1..Len(q) /\ \A j \in 1..Len(q) : q[j] \in S
    OBVIOUS
  <1>2. ASSUME NEW x \in S
        PROVE  Range(Append(q, x)) = Range(q) \cup {x}
    <2> DEFINE w == Append(q, x)
    <2>1. DOMAIN w = 1..(Len(q) + 1) /\ \A j \in 1..(Len(q) + 1) : w[j] = IF j = Len(q) + 1 THEN x ELSE q[j]
      BY <1>1
    <2> HIDE DEF w
    <2>2. \A y \in Range(w) : y \in Range(q) \cup {x}
      BY <1>1, <2>1 DEF Range
    <2>3. \A y \in Range(q) : y \in Range(w)
      BY <1>1, <2>1 DEF Range
    <2>4. x \in Range(w)
      <3>1. Len(q) + 1 \in 1..(Len(q) + 1)
        BY <1>1
      <3> QED BY <2>1, <3>1, Zenon DEF Range
    <2>5. Range(w) = Range(q) \cup {x}
      BY <2>2, <2>3, <2>4, Zenon
    <2> QED BY <2>5, Zenon DEF w
  <1>3. ASSUME q # <<>>
        PROVE  Head(q) \in Range(q) /\ Range(q) = Range(Tail(q)) \cup {Head(q)}
    <2> DEFINE w == Tail(q)
    <2>1. /\ Len(q) >= 1 /\ Head(q) = q[1]
          /\ DOMAIN w = 1..(Len(q) - 1) /\ \A j \in 1..(Len(q) - 1) : w[j] = q[j + 1]
      BY <1>1, <1>3
    <2> HIDE DEF w
    <2>2. Head(q) \in Range(q)
      BY <1>1, <2>1 DEF Range
    <2>3. \A y \in Range(w) : y \in Range(q)
      BY <1>1, <2>1 DEF Range
    <2>4. \A y \in Range(q) : y \in Range(w) \cup {Head(q)}
      <3> SUFFICES ASSUME NEW j \in 1..Len(q), j # 1
                   PROVE  q[j] \in Range(w)
        BY <1>1, <2>1, ZenonT(30) DEF Range
      <3>1. j - 1 \in 1..(Len(q) - 1) /\ (j - 1) + 1 = j
        BY <1>1
      <3> QED BY <2>1, <3>1, Zenon DEF Range
    <2>5. Range(q) = Range(w) \cup {Head(q)}
      BY <2>2, <2>3, <2>4, Zenon
    <2> QED BY <2>2, <2>5, Zenon DEF w
  <1>4. Range(q) \subseteq S
    BY <1>1, Zenon DEF Range
  <1> QED BY <1>2, <1>3, <1>4, Zenon

-----------------------------------------------------------------------------
(* What is accepted has what it depends on, whoever verified it.           *)
LEMMA VerifiedStep == Typed /\ Verified /\ [Next]_vars => Verified'
  <1> SUFFICES ASSUME Typed, Verified, [Next]_vars
               PROVE  Verified'
    OBVIOUS
  <1>1. setting' = setting /\ setting \in Settings /\ setting.blocks \subseteq Blocks /\ setting.threads \subseteq Threads
    BY ThreadStep, BlocksAssumption, Zenon DEF Typed
  <1>2. db \subseteq db' /\ db' \subseteq db \cup Range(queue)
    <2>1. queue # <<>> => Head(queue) \in Range(queue)
      BY QueueRange, Zenon DEF Typed
    <2> QED BY <2>1, QueueStep, ZenonT(30)
  <1>3. \A b : Backed(b) => Backed(b)'
    <2>1. \A h : Stored(h) => Stored(h)'
      BY <1>2, Zenon DEF Stored
    <2>2. \A b : MissingNeeds(b)' \subseteq MissingNeeds(b)
      BY <2>1, Zenon DEF MissingNeeds
    <2>3. \A n : RequestBlocks(n)' = RequestBlocks(n)
      BY <1>1, Zenon DEF RequestBlocks
    <2> QED BY <1>2, <2>2, <2>3, ZenonT(30) DEF Backed
  <1>4. \A b \in db \cup direct \cup Range(queue) : b # None /\ Backed(b)
    <2>1. None \notin db \cup direct \cup Range(queue)
      <3>1. Range(queue) \subseteq setting.blocks
        BY QueueRange, Zenon DEF Typed
      <3> QED BY <1>1, <3>1, BlocksAssumption, ZenonT(30) DEF Typed
    <2> QED BY <2>1, Zenon DEF Verified, Accepted
  <1>5. \A t \in Threads : thread[t].store # None => Backed(thread[t].store)
    BY Zenon DEF Verified, Accepted
  <1>6. \A b \in direct' : Backed(b)
    BY <1>4, <1>5, QueueStep, ZenonT(30)
  <1>7. \A t \in setting.threads : thread[t].block \in setting.blocks \cup {None}
    BY <1>1, Zenon DEF Typed, Task
  <1>8. ASSUME NEW t \in setting.threads, Verify(t), Missing(thread[t].block) = {}, ~Refused(thread[t].block)
        PROVE  Backed(thread[t].block)
    <2> DEFINE b == thread[t].block
    <2>1. ~MissingPrevious(b) /\ MissingNeeds(b) = {}
      BY <1>8, Zenon DEF Missing
    <2> QED BY <1>8, <2>1, Zenon DEF Refused, Backed
  <1>9. \A b \in Range(queue') : Backed(b)
    <2>1. ASSUME NEW t \in setting.threads, Verify(t), queue' = Append(queue, thread[t].block),
                 thread[t].block \in direct \/ (Missing(thread[t].block) = {} /\ ~Refused(thread[t].block))
          PROVE  \A b \in Range(queue') : Backed(b)
      <3>1. thread[t].block \in setting.blocks
        <4>1. thread[t].block # None
          BY <1>1, <2>1, Zenon DEF Typed, Verify, Validating
        <4> QED BY <1>7, <4>1, Zenon
      <3>2. Range(queue') = Range(queue) \cup {thread[t].block}
        <4>1. queue \in Seq(setting.blocks)
          BY Zenon DEF Typed
        <4>2. Range(Append(queue, thread[t].block)) = Range(queue) \cup {thread[t].block}
          BY <3>1, <4>1, QueueRange
        <4> QED BY <2>1, <4>2, ZenonT(30)
      <3> QED BY <1>4, <1>8, <2>1, <3>2, ZenonT(30)
    <2>2. queue # <<>> => Range(Tail(queue)) \subseteq Range(queue)
      BY QueueRange DEF Typed
    <2> QED BY <1>4, <2>1, <2>2, QueueStep, Zenon
  <1>10. \A t \in Threads : thread'[t].store # None => Backed(thread'[t].store)
    <2>1. ASSUME NEW t \in Threads, NEW b \in setting.blocks, OnPostCommit(t, b)
          PROVE  Backed(b)
      BY <2>1, Zenon DEF OnPostCommit, Backed, Refused
    <2> QED BY <1>5, <2>1, ThreadStep, Zenon
  <1>11. \A b \in Accepted' : Backed(b)
    BY <1>2, <1>4, <1>6, <1>9, <1>10, ZenonT(30) DEF Accepted
  <1>12. \A b \in db' : ~MissingPrevious(b)'
    <2>1. \A b \in db' : ~MissingPrevious(b)
      BY QueueStep, Zenon DEF Verified
    <2> QED BY <1>2, <2>1, Zenon DEF MissingPrevious
  <1> QED BY <1>3, <1>11, <1>12, Zenon DEF Verified

(* The node starts with nothing.                                           *)
LEMMA InitGood == Init => Typed /\ Locks /\ Verified
  <1> SUFFICES ASSUME Init
               PROVE  Typed /\ Locks /\ Verified
    BY Zenon
  <1>1. Idle \in Task /\ Idle.pc = "idle" /\ Idle.store = None
    BY DEF Idle, Task
  <1>2. \A t \in Threads : thread[t] = Idle
    BY Zenon DEF Init
  <1>3. GoodPeriods(epochs) /\ Range(queue) = {}
    BY DEF Init, GoodPeriods, Range
  <1>4. Typed
    <2>1. thread \in [Threads -> Task] /\ (\A t \in Threads : thread[t].pc = "idle")
      BY <1>1, <1>2, Zenon DEF Init
    <2>2. reliances \in [Blocks -> SUBSET Hash] /\ queue \in Seq(setting.blocks)
      BY DEF Init
    <2> QED BY <1>3, <2>1, <2>2, ZenonT(30) DEF Init, Typed, Validating
  <1>5. Locks
    BY <1>1, <1>2, Zenon DEF Locks, Holds, Validating
  <1>6. Accepted = {}
    BY <1>1, <1>2, <1>3, Zenon DEF Init, Accepted
  <1>7. Verified
    BY <1>6, Zenon DEF Init, Verified
  <1> QED BY <1>4, <1>5, <1>7, Zenon

(* Two threads never validate the same block: whoever looks for a block    *)
(* under _chains_mutex locks it before another can look.                   *)
THEOREM CacheExclusiveValidation == Spec => []ExclusiveValidation
  <1> DEFINE Inv == Typed /\ Locks
  <1>1. Init => Inv
    BY InitGood, Zenon
  <1>2. Inv /\ [Next]_vars => Inv'
    BY TypedStep, LocksStep, Zenon
  <1>3. Inv => ExclusiveValidation
    BY Zenon DEF Locks, Holds, Validating, ExclusiveValidation
  <1> QED BY <1>1, <1>2, <1>3, PTL DEF Spec

(* The database never holds a block before what it depends on, whichever   *)
(* way the block came and however many threads validate.                   *)
THEOREM CacheDependenciesFirst == Spec => []DependenciesFirst
  <1> DEFINE Inv == Typed /\ Verified
  <1>1. Init => Inv
    BY InitGood, Zenon
  <1>2. Inv /\ [Next]_vars => Inv'
    BY TypedStep, VerifiedStep, Zenon
  <1>3. Inv => DependenciesFirst
    <2> SUFFICES ASSUME Inv, NEW b \in db
                 PROVE  ~MissingPrevious(b) /\ Backed(b)
      BY Zenon DEF DependenciesFirst, Backed
    <2>1. b # None
      BY BlocksAssumption, Zenon DEF Typed
    <2> QED BY <2>1, Zenon DEF Verified, Accepted
  <1> QED BY <1>1, <1>2, <1>3, PTL DEF Spec
=============================================================================
