------------------------- MODULE RequestQueueProofs -------------------------
(***************************************************************************)
(* What the operators on the queue, and GenerateSubsets, compute, for      *)
(* every queue, batch and set of answers.                                  *)
(*                                                                         *)
(* These operators are recursive functions over an interval.  That such a  *)
(* function exists and is the one its definition names is shown once       *)
(* (Recursion, RecursiveFunction), for steps given as a function g and for *)
(* values in a set T; each operator then gets a lemma that says what its   *)
(* steps are (WithoutSteps, JoinedSteps, CollectSteps, MergeSteps).  What  *)
(* holds after every step follows by IntervalInduction.                    *)
(***************************************************************************)
EXTENDS GenerateSubsets, RequestQueue, FiniteSetTheorems, TLAPS

(* The provers a leaf is tried with, and their time in seconds *)
USE SMTT(30), ZenonT(30)

-----------------------------------------------------------------------------
(* Sequences                                                               *)

(* Two sequences with the same entries are the same.                       *)
LEMMA SameSequence ==
    ASSUME NEW S, NEW s \in Seq(S), NEW t \in Seq(S),
           Len(s) = Len(t), \A i \in 1..Len(s) : s[i] = t[i]
    PROVE  s = t
  OBVIOUS

(* The entries of a concatenation                                          *)
LEMMA Concatenation ==
    ASSUME NEW S, NEW s \in Seq(S), NEW t \in Seq(S)
    PROVE  /\ s \o t \in Seq(S) /\ Len(s \o t) = Len(s) + Len(t)
           /\ \A i \in 1..(Len(s) + Len(t)) :
                (s \o t)[i] = IF i <= Len(s) THEN s[i] ELSE t[i - Len(s)]
  OBVIOUS

-----------------------------------------------------------------------------
(* Induction and recursion over an interval                                *)

(* A set that holds the first number of an interval, and with every number *)
(* its successor, holds all of the interval.                               *)
LEMMA IntervalInduction ==
    ASSUME NEW m \in Nat, NEW n \in Nat, NEW S,
           m \in S, \A i \in m..(n - 1) : i \in S => i + 1 \in S
    PROVE  \A i \in m..n : i \in S
  <1> DEFINE T == (m..n) \ S
  <1>1. SUFFICES ASSUME T # {} PROVE FALSE
    OBVIOUS
  <1>2. T \subseteq Nat
    OBVIOUS
  <1>3. PICK k \in T : \A j \in T : ~(j < k)
    <2>1. \E k \in T : \A j \in T : ~(<<j, k>> \in OpToRel(<, Nat))
      BY ONLY <1>1, <1>2, NatLessThanWellFounded, WFMin, Zenon
    <2> QED BY <1>2, <2>1, Zenon DEF OpToRel
  <1>4. k - 1 \in m..(n - 1)
    OBVIOUS
  <1>5. k - 1 \in S
    BY <1>3, <1>4
  <1>6. k - 1 + 1 \in S
    BY <1>4, <1>5
  <1> QED BY <1>6

(* What a recursion over m..n does with the values in T                    *)
Steps(m, n, T) == [((m + 1)..n) \X T -> T]

(* h is the function defined by the recursion.                             *)
Solves(h, m, n, T, base, g) ==
    /\ h \in [m..n -> T]
    /\ h[m] = base
    /\ \A i \in (m + 1)..n : h[i] = g[<<i, h[i - 1]>>]

(* f satisfies the equation as far as its values are in T.                 *)
Follows(f, m, n, T, base, g) ==
    /\ f = [i \in m..n |-> f[i]]
    /\ f[m] = base
    /\ \A i \in (m + 1)..n : f[i - 1] \in T => f[i] = g[<<i, f[i - 1]>>]

(* A function defined by recursion over an interval exists.                *)
LEMMA Recursion ==
    ASSUME NEW m \in Nat, NEW n \in Nat, m <= n, NEW T, NEW base \in T,
           NEW g \in Steps(m, n, T)
    PROVE  \E h : Solves(h, m, n, T, base, g)
  <1> DEFINE Upto(k, h) == h[m] = base /\ \A i \in (m + 1)..k : h[i] = g[<<i, h[i - 1]>>]
             S == {k \in m..n : \E h \in [m..k -> T] : Upto(k, h)}
  <1>1. m \in S
    <2> DEFINE e == [i \in m..m |-> base]
    <2>1. e \in [m..m -> T]
      OBVIOUS
    <2>2. Upto(m, e)
      OBVIOUS
    <2> HIDE DEF e
    <2>3. \E h \in [m..m -> T] : Upto(m, h)
      BY <2>1, <2>2, Zenon
    <2> QED BY <2>3
  <1>2. \A k \in m..(n - 1) : k \in S => k + 1 \in S
    <2> SUFFICES ASSUME NEW k \in m..(n - 1), k \in S
                 PROVE  k + 1 \in S
      OBVIOUS
    <2>1. PICK h \in [m..k -> T] : Upto(k, h)
      OBVIOUS
    <2> DEFINE w == g[<<k + 1, h[k]>>]
               e == [i \in m..(k + 1) |-> IF i = k + 1 THEN w ELSE h[i]]
    <2>2. h[k] \in T /\ <<k + 1, h[k]>> \in ((m + 1)..n) \X T /\ g \in [((m + 1)..n) \X T -> T]
      BY DEF Steps
    <2>w. w \in T
      BY <2>2
    <2> HIDE DEF Upto, w
    <2>3. e \in [m..(k + 1) -> T]
      BY <2>w
    <2>4. e[m] = base
      BY <2>1 DEF Upto
    <2>5. ASSUME NEW i \in (m + 1)..(k + 1)
          PROVE  e[i] = g[<<i, e[i - 1]>>]
      <3>1. CASE i = k + 1
        <4>1. e[k + 1] = w /\ e[k] = h[k] /\ i - 1 = k
          BY <3>1
        <4> QED BY <3>1, <4>1, Zenon DEF w
      <3>2. CASE i # k + 1
        <4>1. i \in (m + 1)..k /\ i - 1 \in m..k
          BY <3>2
        <4>2. e[i] = h[i] /\ e[i - 1] = h[i - 1]
          BY <4>1
        <4>3. h[i] = g[<<i, h[i - 1]>>]
          BY <2>1, <4>1 DEF Upto
        <4> QED BY <4>2, <4>3, Zenon
      <3> QED BY <3>1, <3>2
    <2> HIDE DEF e
    <2>6. Upto(k + 1, e)
      BY <2>4, <2>5 DEF Upto
    <2>7. \E f \in [m..(k + 1) -> T] : Upto(k + 1, f)
      BY <2>3, <2>6, Zenon
    <2> QED BY <2>7
  <1> HIDE DEF S
  <1>3. n \in S
    <2>1. \A i \in m..n : i \in S
      BY <1>1, <1>2, IntervalInduction, Zenon
    <2>2. n \in m..n
      OBVIOUS
    <2> QED BY <2>1, <2>2, Zenon
  <1> QED BY <1>3, Zenon DEF S, Solves

(* A function that is defined by recursion, where a solution of its        *)
(* equation makes it one, takes its values in V and satisfies the equation.*)
LEMMA RecursiveFunction ==
    ASSUME NEW m \in Nat, NEW n \in Nat, m <= n, NEW V, NEW base \in V,
           NEW g \in Steps(m, n, V), NEW f,
           \A h : Solves(h, m, n, V, base, g) => Follows(f, m, n, V, base, g)
    PROVE  Solves(f, m, n, V, base, g)
  <1>1. \E h : Solves(h, m, n, V, base, g)
    BY Recursion, Zenon
  <1>2. Follows(f, m, n, V, base, g)
    BY <1>1, Zenon
  <1> DEFINE K == {i \in m..n : f[i] \in V}
  <1>3. m \in K
    BY <1>2 DEF Follows
  <1>4. \A i \in m..(n - 1) : i \in K => i + 1 \in K
    <2> SUFFICES ASSUME NEW i \in m..(n - 1), f[i] \in V
                 PROVE  i + 1 \in m..n /\ f[i + 1] \in V
      OBVIOUS
    <2>1. i + 1 \in (m + 1)..n /\ (i + 1) - 1 = i
      OBVIOUS
    <2>2. f[i + 1] = g[<<i + 1, f[i]>>]
      BY <1>2, <2>1, Zenon DEF Follows
    <2>3. <<i + 1, f[i]>> \in ((m + 1)..n) \X V
      BY <2>1
    <2> QED BY <2>1, <2>2, <2>3 DEF Steps
  <1>5. \A i \in m..n : i \in K
    <2> HIDE DEF K
    <2> QED BY <1>3, <1>4, IntervalInduction, Zenon
  <1>6. \A i \in (m + 1)..n : f[i - 1] \in V
    BY <1>5
  <1> QED BY <1>2, <1>5, <1>6, Zenon DEF Follows, Solves

-----------------------------------------------------------------------------
(* Sequences                                                               *)

(* No request is there twice; delimiters may be.                           *)
Distinct(s) == \A i, j \in 1..Len(s) : s[i] = s[j] /\ s[i] # Null => i = j

(* kept[i] is what Without has kept after i entries of q.                  *)
Filters(kept, T, q, S) ==
    /\ kept \in [0..Len(q) -> Seq(T)]
    /\ kept[0] = <<>>
    /\ \A i \in 1..Len(q) :
          kept[i] = IF q[i] \in S THEN kept[i - 1] ELSE Append(kept[i - 1], q[i])
    /\ Without(q, S) = kept[Len(q)]

LEMMA WithoutSteps ==
    ASSUME NEW T, NEW q \in Seq(T), NEW S
    PROVE  \E kept : Filters(kept, T, q, S)
  <1> DEFINE n == Len(q)
             V == Seq(T)
             After(i, s) == IF q[i] \in S THEN s ELSE Append(s, q[i])
             Body(h) == [i \in 0..n |-> IF i = 0 THEN <<>>
                                        ELSE IF q[i] \in S THEN h[i - 1]
                                        ELSE Append(h[i - 1], q[i])]
             f == CHOOSE h : h = Body(h)
  <1>1. n \in Nat /\ <<>> \in V /\ \A i \in 1..n : q[i] \in T
    OBVIOUS
  <1>2. \A i \in 1..n : \A s \in V : After(i, s) \in V
    BY <1>1
  <1>3. Without(q, S) = f[n]
    BY DEF Without
  <1> DEFINE e == <<>>
  <1>4. \A h : Body(h) = [i \in 0..n |-> IF i = 0 THEN e ELSE After(i, h[i - 1])]
    OBVIOUS
  <1> HIDE DEF After, Body, V, n, e
  <1>5. \A h : /\ Body(h) = [i \in 0..n |-> Body(h)[i]]
               /\ Body(h)[0] = e
               /\ \A i \in 1..n : Body(h)[i] = After(i, h[i - 1])
    BY <1>1, <1>4
  <1> DEFINE g == [p \in ((0 + 1)..n) \X V |-> After(p[1], p[2])]
  <1>6. /\ g \in Steps(0, n, V)
        /\ \A i \in 1..n : \A s \in V : g[<<i, s>>] = After(i, s)
        /\ (0 + 1)..n = 1..n
    BY <1>2 DEF Steps
  <1> HIDE DEF g
  <1>7. ASSUME NEW h, Solves(h, 0, n, V, e, g)
        PROVE  Follows(f, 0, n, V, e, g)
    <2>1. h \in [0..n -> V] /\ h[0] = e /\ \A i \in 1..n : h[i] = g[<<i, h[i - 1]>>]
      BY <1>6, <1>7, Zenon DEF Solves
    <2>2. \A i \in 1..n : h[i - 1] \in V
      BY <1>1, <2>1
    <2>3. h = Body(h)
      <3>1. \A i \in 0..n : i = 0 \/ i \in 1..n
        BY <1>1
      <3>2. \A i \in 0..n : h[i] = Body(h)[i]
        BY <1>5, <1>6, <2>1, <2>2, <3>1, ZenonT(30)
      <3>3. h = [i \in 0..n |-> h[i]]
        BY <2>1
      <3> QED BY <1>5, <3>2, <3>3, Zenon
    <2>4. f = Body(f)
      BY <2>3, Zenon
    <2> HIDE DEF f
    <2>5. f = [i \in 0..n |-> f[i]]
      BY <1>5, <2>4, Zenon
    <2>6. f[0] = e
      BY <1>5, <2>4, Zenon
    <2>7. \A i \in 1..n : f[i] = After(i, f[i - 1])
      BY <1>5, <2>4, Zenon
    <2> QED BY <1>6, <2>5, <2>6, <2>7, Zenon DEF Follows
  <1> HIDE DEF f
  <1>8. Solves(f, 0, n, V, e, g)
    <2>1. 0 \in Nat /\ 0 <= n /\ e \in V
      BY <1>1 DEF e
    <2> QED BY <1>1, <1>6, <1>7, <2>1, RecursiveFunction, Zenon
  <1>9. f \in [0..n -> V] /\ f[0] = e /\ \A i \in 1..n : f[i] = g[<<i, f[i - 1]>>]
    BY <1>6, <1>8, Zenon DEF Solves
  <1>10. \A i \in 1..n : f[i] = After(i, f[i - 1])
    <2>1. \A i \in 1..n : f[i - 1] \in V
      BY <1>1, <1>9
    <2> QED BY <1>6, <1>9, <2>1, Zenon
  <1> QED BY <1>3, <1>9, <1>10, Zenon DEF After, V, n, e, Filters

(* s is what Without keeps of the first i entries of q.                    *)
Keeps(s, q, i, S) ==
    /\ \A j \in 1..Len(s) : \E k \in 1..i : q[k] = s[j] /\ q[k] \notin S
    /\ \A k \in 1..i : q[k] \notin S => \E j \in 1..Len(s) : s[j] = q[k]
    /\ Distinct(q) => Distinct(s)

LEMMA KeepsNext ==
    ASSUME NEW T, NEW q \in Seq(T), NEW S, NEW s \in Seq(T), NEW i \in 0..(Len(q) - 1),
           Keeps(s, q, i, S),
           NEW t, t = IF q[i + 1] \in S THEN s ELSE Append(s, q[i + 1])
    PROVE  Keeps(t, q, i + 1, S)
  <1>1. Len(q) \in Nat /\ i + 1 \in 1..Len(q) /\ q[i + 1] \in T
    OBVIOUS
  <1>2. CASE q[i + 1] \in S
    BY <1>1, <1>2 DEF Keeps
  <1>3. CASE q[i + 1] \notin S
    <2>1. /\ Len(t) = Len(s) + 1 /\ Len(s) \in Nat
          /\ \A j \in 1..Len(s) : t[j] = s[j]
          /\ t[Len(s) + 1] = q[i + 1]
      BY <1>1, <1>3
    <2>2. \A j \in 1..Len(t) : j \in 1..Len(s) \/ j = Len(s) + 1
      BY <2>1
    <2>3. ASSUME NEW j \in 1..Len(t)
          PROVE  \E k \in 1..(i + 1) : q[k] = t[j] /\ q[k] \notin S
      BY <1>1, <1>3, <2>1, <2>2 DEF Keeps
    <2>4. ASSUME NEW k \in 1..(i + 1), q[k] \notin S
          PROVE  \E j \in 1..Len(t) : t[j] = q[k]
      BY <1>1, <1>3, <2>1, <2>4 DEF Keeps
    <2>5. ASSUME Distinct(q), NEW j \in 1..Len(s), q[i + 1] # Null
          PROVE  s[j] # q[i + 1]
      BY <1>1, <2>5 DEF Keeps, Distinct
    <2>6. Distinct(q) => Distinct(t)
      BY <2>1, <2>2, <2>5 DEF Keeps, Distinct
    <2> QED BY <2>3, <2>4, <2>6, Zenon DEF Keeps
  <1> QED BY <1>2, <1>3

(* What Without returns: the members of q that are not in S, once each if  *)
(* they are in q once.                                                     *)
LEMMA WithoutProperties ==
    ASSUME NEW T, NEW q \in Seq(T), NEW S
    PROVE  /\ Without(q, S) \in Seq(T)
           /\ \A x : Contains(Without(q, S), x) <=> Contains(q, x) /\ x \notin S
           /\ Distinct(q) => Distinct(Without(q, S))
  <1> DEFINE n == Len(q)
  <1>f. PICK kept : Filters(kept, T, q, S)
    BY WithoutSteps, Zenon
  <1>1. /\ kept \in [0..n -> Seq(T)]
        /\ kept[0] = <<>>
        /\ \A i \in 1..n :
              kept[i] = IF q[i] \in S THEN kept[i - 1] ELSE Append(kept[i - 1], q[i])
        /\ Without(q, S) = kept[n]
    BY <1>f, Zenon DEF Filters
  <1>2. n \in Nat /\ n \in 0..n
    OBVIOUS
  <1> DEFINE K == {i \in 0..n : Keeps(kept[i], q, i, S)}
  <1>3. 0 \in K
    <2>1. Keeps(<<>>, q, 0, S)
      BY DEF Keeps, Distinct
    <2> QED BY <1>1, <1>2, <2>1
  <1>4. ASSUME NEW i \in 0..(n - 1), i \in K PROVE i + 1 \in K
    <2> HIDE DEF n
    <2>1. i \in 0..n /\ i + 1 \in 0..n /\ i + 1 \in 1..n /\ (i + 1) - 1 = i
      BY <1>2
    <2>2. kept[i] \in Seq(T) /\ Keeps(kept[i], q, i, S)
      BY <1>1, <1>4, <2>1
    <2>3. kept[i + 1] = IF q[i + 1] \in S THEN kept[i] ELSE Append(kept[i], q[i + 1])
      BY <1>1, <2>1
    <2>4. Keeps(kept[i + 1], q, i + 1, S)
      BY <2>2, <2>3, KeepsNext, Zenon DEF n
    <2> QED BY <2>1, <2>4
  <1>5. kept[n] \in Seq(T) /\ Keeps(kept[n], q, n, S)
    <2> HIDE DEF K, n
    <2>1. \A i \in 0..n : i \in K
      BY <1>2, <1>3, <1>4, IntervalInduction, Zenon
    <2> QED BY <1>1, <1>2, <2>1, Zenon DEF K
  <1> HIDE DEF n
  <1> QED BY <1>1, <1>5, ZenonT(30) DEF Contains, Keeps, n

(* s is what is left of the first i entries of p followed by r.            *)
Rest(s, p, r, i) ==
    /\ Len(s) = IF i <= Len(p) THEN 0 ELSE i - Len(p)
    /\ \A j \in 1..Len(s) : s[j] = r[j]

LEMMA RestNext ==
    ASSUME NEW T, NEW p \in Seq(T), NEW r \in Seq(T), NEW S,
           \A i \in 1..Len(p) : p[i] \in S, \A i \in 1..Len(r) : r[i] \notin S,
           NEW s \in Seq(T), NEW i \in 0..(Len(p) + Len(r) - 1), Rest(s, p, r, i),
           NEW x, x = IF i + 1 <= Len(p) THEN p[i + 1] ELSE r[i + 1 - Len(p)],
           NEW t, t = IF x \in S THEN s ELSE Append(s, x)
    PROVE  Rest(t, p, r, i + 1)
  <1>1. Len(p) \in Nat /\ Len(r) \in Nat /\ Len(s) \in Nat
    OBVIOUS
  <1>2. CASE i + 1 <= Len(p)
    BY <1>1, <1>2 DEF Rest
  <1>3. CASE ~(i + 1 <= Len(p))
    <2>1. i + 1 - Len(p) \in 1..Len(r) /\ x = r[i + 1 - Len(p)] /\ x \in T /\ x \notin S
      BY <1>1, <1>3
    <2>2. /\ Len(t) = Len(s) + 1
          /\ \A j \in 1..Len(s) : t[j] = s[j]
          /\ t[Len(s) + 1] = x
      BY <2>1
    <2>3. Len(s) = i - Len(p)
      BY <1>1, <1>3 DEF Rest
    <2>4. Len(t) = i + 1 - Len(p) /\ Len(s) + 1 = i + 1 - Len(p)
      BY <1>1, <1>3, <2>2, <2>3
    <2>5. ASSUME NEW j \in 1..Len(t) PROVE t[j] = r[j]
      <3>1. j \in 1..Len(s) \/ j = Len(s) + 1
        BY <1>1, <2>2
      <3>2. CASE j \in 1..Len(s)
        BY <2>2, <3>2 DEF Rest
      <3>3. CASE j = Len(s) + 1
        BY <2>1, <2>2, <2>4, <3>3, Zenon
      <3> QED BY <3>1, <3>2, <3>3, ZenonT(30)
    <2>6. Len(t) = IF i + 1 <= Len(p) THEN 0 ELSE (i + 1) - Len(p)
      BY <1>1, <1>3, <2>4
    <2> QED BY <2>5, <2>6, Zenon DEF Rest
  <1> QED BY <1>2, <1>3

(* Without leaves what follows a part that is removed.                     *)
LEMMA WithoutPrefix ==
    ASSUME NEW T, NEW p \in Seq(T), NEW r \in Seq(T), NEW S,
           \A i \in 1..Len(p) : p[i] \in S, \A i \in 1..Len(r) : r[i] \notin S
    PROVE  Without(p \o r, S) = r
  <1> DEFINE q == p \o r
             n == Len(q)
  <1>1. /\ q \in Seq(T) /\ Len(p) \in Nat /\ Len(r) \in Nat /\ n = Len(p) + Len(r)
        /\ \A i \in 1..n : q[i] = IF i <= Len(p) THEN p[i] ELSE r[i - Len(p)]
    OBVIOUS
  <1> HIDE DEF q
  <1>f. PICK kept : Filters(kept, T, q, S)
    BY <1>1, WithoutSteps, Zenon
  <1>2. /\ kept \in [0..n -> Seq(T)]
        /\ kept[0] = <<>>
        /\ \A i \in 1..n :
              kept[i] = IF q[i] \in S THEN kept[i - 1] ELSE Append(kept[i - 1], q[i])
        /\ Without(q, S) = kept[n]
    BY <1>f, Zenon DEF Filters
  <1>3. n \in Nat /\ n \in 0..n
    BY <1>1
  <1> DEFINE K == {i \in 0..n : Rest(kept[i], p, r, i)}
  <1>4. 0 \in K
    <2>1. Rest(<<>>, p, r, 0)
      BY <1>1 DEF Rest
    <2> QED BY <1>2, <1>3, <2>1
  <1>5. ASSUME NEW i \in 0..(n - 1), i \in K PROVE i + 1 \in K
    <2> HIDE DEF n
    <2>1. /\ i \in 0..n /\ i + 1 \in 0..n /\ i + 1 \in 1..n /\ (i + 1) - 1 = i
          /\ i \in 0..(Len(p) + Len(r) - 1)
      BY <1>1, <1>3
    <2>2. kept[i] \in Seq(T) /\ Rest(kept[i], p, r, i)
      BY <1>2, <1>5, <2>1, Zenon
    <2>3. kept[i + 1] = IF q[i + 1] \in S THEN kept[i] ELSE Append(kept[i], q[i + 1])
      BY <1>2, <2>1
    <2>4. q[i + 1] = IF i + 1 <= Len(p) THEN p[i + 1] ELSE r[i + 1 - Len(p)]
      BY <1>1, <2>1
    <2>5. Rest(kept[i + 1], p, r, i + 1)
      BY <2>1, <2>2, <2>3, <2>4, RestNext, Zenon
    <2> QED BY <2>1, <2>5
  <1>6. kept[n] \in Seq(T) /\ Rest(kept[n], p, r, n)
    <2> HIDE DEF K, n
    <2>1. \A i \in 0..n : i \in K
      BY <1>3, <1>4, <1>5, IntervalInduction, Zenon
    <2> QED BY <1>2, <1>3, <2>1, Zenon DEF K
  <1>7. Len(kept[n]) = Len(r) /\ \A j \in 1..Len(r) : kept[n][j] = r[j]
    BY <1>1, <1>6 DEF Rest
  <1>8. kept[n] = r
    BY <1>6, <1>7, SameSequence
  <1> QED BY <1>2, <1>8 DEF q

(* Listed lists a finite set.                                            *)
LEMMA ListedProperties ==
    ASSUME NEW S, IsFiniteSet(S)
    PROVE  /\ Listed(S) \in Seq(S)
           /\ \A x : Contains(Listed(S), x) <=> x \in S
           /\ Distinct(Listed(S))
  <1> DEFINE n == Cardinality(S)
             f == Listed(S)
  <1>1. n \in Nat /\ ExistsBijection(1..n, S)
    BY FS_CardinalityType
  <1>2. \E h \in [1..n -> S] : IsInjective(h)
    BY <1>1 DEF ExistsBijection, Bijection, Injection
  <1>3. f \in [1..n -> S] /\ IsInjective(f)
    BY <1>2, Zenon DEF Listed
  <1> HIDE DEF f
  <1>4. f \in Injection(1..n, S)
    BY <1>3 DEF Injection
  <1>5. Cardinality(1..n) = n
    BY <1>1, FS_Interval
  <1>6. f \in Surjection(1..n, S)
    <2> HIDE DEF n
    <2> QED BY <1>4, <1>5, FS_Injection DEF n
  <1>7. f \in Seq(S) /\ Len(f) = n
    BY <1>1, <1>3
  <1>8. \A x \in S : \E i \in 1..n : f[i] = x
    BY <1>6 DEF Surjection
  <1> QED BY <1>3, <1>7, <1>8 DEF f, Contains, Distinct, IsInjective

(* Where the first delimiter is                                            *)
LEMMA FirstDelimiter ==
    ASSUME NEW T, NEW q \in Seq(T), NEW k \in 1..Len(q), q[k] = Null,
           \A j \in 1..(k - 1) : q[j] # Null
    PROVE  FirstGroup(q) = SubSeq(q, 1, k - 1) /\ AfterGroup(q) = SubSeq(q, k, Len(q))
  <1>1. ASSUME NEW i \in 1..Len(q), q[i] = Null, \A j \in 1..(i - 1) : q[j] # Null
        PROVE  i = k
    <2>1. ~(i < k) /\ ~(k < i)
      BY <1>1
    <2> QED BY <2>1
  <1>2. Delimiter(q) = k
    BY <1>1, Zenon DEF Delimiter
  <1> QED BY <1>2, Zenon DEF FirstGroup, AfterGroup

(* A group followed by its delimiter is the first group.                   *)
LEMMA GroupFound ==
    ASSUME NEW T, NEW p \in Seq(T), NEW r \in Seq(T), r # <<>>, r[1] = Null,
           ~Contains(p, Null)
    PROVE  FirstGroup(p \o r) = p /\ AfterGroup(p \o r) = r
  <1> DEFINE q == p \o r
             k == Len(p) + 1
  <1>1. /\ q \in Seq(T) /\ Len(p) \in Nat /\ Len(r) \in Nat /\ Len(q) = Len(p) + Len(r)
        /\ Len(r) >= 1
        /\ \A i \in 1..Len(p) : q[i] = p[i]
        /\ \A i \in 1..Len(r) : q[Len(p) + i] = r[i]
    OBVIOUS
  <1> HIDE DEF q
  <1>2. k \in 1..Len(q) /\ q[k] = Null /\ \A j \in 1..(k - 1) : q[j] # Null
    <2>1. k \in 1..Len(q) /\ 1 \in 1..Len(r) /\ 1..(k - 1) = 1..Len(p)
      BY <1>1
    <2>2. q[k] = r[1]
      BY <1>1, <2>1
    <2>3. \A j \in 1..Len(p) : q[j] # Null
      BY <1>1, Zenon DEF Contains
    <2> QED BY <2>1, <2>2, <2>3, Zenon
  <1>3. FirstGroup(q) = SubSeq(q, 1, k - 1) /\ AfterGroup(q) = SubSeq(q, k, Len(q))
    BY <1>1, <1>2, FirstDelimiter, Zenon
  <1>4. SubSeq(q, 1, k - 1) = p
    BY <1>1
  <1>5. SubSeq(q, k, Len(q)) = r
    BY <1>1
  <1> QED BY <1>3, <1>4, <1>5 DEF q

(* A sequence with a delimiter begins with a group.                        *)
LEMMA GroupExists ==
    ASSUME NEW T, NEW q \in Seq(T), Contains(q, Null)
    PROVE  \E p, r \in Seq(T) :
              q = p \o r /\ r # <<>> /\ r[1] = Null /\ ~Contains(p, Null)
  <1> DEFINE I == {i \in 1..Len(q) : q[i] = Null}
  <1>1. I # {} /\ I \subseteq Nat
    BY DEF Contains
  <1>2. PICK k \in I : \A j \in I : ~(j < k)
    <2> HIDE DEF I
    <2>1. \E k \in I : \A j \in I : ~(<<j, k>> \in OpToRel(<, Nat))
      BY ONLY <1>1, NatLessThanWellFounded, WFMin, Zenon
    <2> QED BY <1>1, <2>1, Zenon DEF OpToRel
  <1> DEFINE p == SubSeq(q, 1, k - 1)
             r == SubSeq(q, k, Len(q))
  <1>3. k \in 1..Len(q) /\ q[k] = Null /\ Len(q) \in Nat
    OBVIOUS
  <1>4. p \in Seq(T) /\ Len(p) = k - 1 /\ \A i \in 1..(k - 1) : p[i] = q[i]
    BY <1>3
  <1>5. /\ r \in Seq(T) /\ Len(r) = Len(q) - k + 1
        /\ \A i \in 1..(Len(q) - k + 1) : r[i] = q[k + i - 1]
    BY <1>3
  <1>6. ~Contains(p, Null)
    BY <1>2, <1>3, <1>4 DEF Contains
  <1>7. r # <<>> /\ r[1] = Null
    BY <1>3, <1>5
  <1>8. q = p \o r
    BY <1>3, <1>4, <1>5
  <1> QED BY <1>4, <1>5, <1>6, <1>7, <1>8, Zenon

(* flat[i] is the first i of the sequences, one after the other.           *)
Joins(flat, T, seqs) ==
    /\ flat \in [1..Len(seqs) -> Seq(T)]
    /\ flat[1] = seqs[1]
    /\ \A i \in 2..Len(seqs) : flat[i] = flat[i - 1] \o seqs[i]
    /\ Joined(seqs) = flat[Len(seqs)]

LEMMA JoinedSteps ==
    ASSUME NEW T, NEW seqs \in Seq(Seq(T)), seqs # <<>>
    PROVE  \E flat : Joins(flat, T, seqs)
  <1> DEFINE n == Len(seqs)
             V == Seq(T)
             After(i, s) == s \o seqs[i]
             Body(h) == [i \in 1..n |-> IF i = 1 THEN seqs[i] ELSE h[i - 1] \o seqs[i]]
             f == CHOOSE h : h = Body(h)
             e == seqs[1]
  <1>1. n \in Nat /\ 1 <= n /\ e \in V /\ \A i \in 1..n : seqs[i] \in V
    OBVIOUS
  <1>2. \A i \in 1..n : \A s \in V : After(i, s) \in V
    BY <1>1
  <1>3. Joined(seqs) = f[n]
    BY <1>1 DEF Joined
  <1>4. \A h : Body(h) = [i \in 1..n |-> IF i = 1 THEN e ELSE After(i, h[i - 1])]
    BY <1>1
  <1> HIDE DEF After, Body, V, n, e
  <1>5. \A h : /\ Body(h) = [i \in 1..n |-> Body(h)[i]]
               /\ Body(h)[1] = e
               /\ \A i \in 2..n : Body(h)[i] = After(i, h[i - 1])
    <2>1. 1 \in 1..n /\ \A i \in 2..n : i \in 1..n /\ i # 1
      BY <1>1
    <2> QED BY <1>4, <2>1, Zenon
  <1> DEFINE g == [p \in ((1 + 1)..n) \X V |-> After(p[1], p[2])]
  <1>6. /\ g \in Steps(1, n, V)
        /\ \A i \in 2..n : \A s \in V : g[<<i, s>>] = After(i, s)
        /\ (1 + 1)..n = 2..n
    BY <1>1, <1>2 DEF Steps
  <1> HIDE DEF g
  <1>7. ASSUME NEW h, Solves(h, 1, n, V, e, g)
        PROVE  Follows(f, 1, n, V, e, g)
    <2>1. h \in [1..n -> V] /\ h[1] = e /\ \A i \in 2..n : h[i] = g[<<i, h[i - 1]>>]
      BY <1>6, <1>7, Zenon DEF Solves
    <2>2. \A i \in 2..n : h[i - 1] \in V
      BY <1>1, <2>1
    <2>3. h = Body(h)
      <3>1. \A i \in 1..n : i = 1 \/ i \in 2..n
        BY <1>1
      <3>2. \A i \in 1..n : h[i] = Body(h)[i]
        BY <1>5, <1>6, <2>1, <2>2, <3>1, ZenonT(30)
      <3>3. h = [i \in 1..n |-> h[i]]
        BY <2>1
      <3> QED BY <1>5, <3>2, <3>3, Zenon
    <2>4. f = Body(f)
      BY <2>3, Zenon
    <2> HIDE DEF f
    <2>5. f = [i \in 1..n |-> f[i]]
      BY <1>5, <2>4, Zenon
    <2>6. f[1] = e
      BY <1>5, <2>4, Zenon
    <2>7. \A i \in 2..n : f[i] = After(i, f[i - 1])
      BY <1>5, <2>4, Zenon
    <2> QED BY <1>6, <2>5, <2>6, <2>7, Zenon DEF Follows
  <1> HIDE DEF f
  <1>8. Solves(f, 1, n, V, e, g)
    <2>1. 1 \in Nat
      OBVIOUS
    <2> QED BY <1>1, <1>6, <1>7, <2>1, RecursiveFunction, Zenon
  <1>9. f \in [1..n -> V] /\ f[1] = e /\ \A i \in 2..n : f[i] = g[<<i, f[i - 1]>>]
    BY <1>6, <1>8, Zenon DEF Solves
  <1>10. \A i \in 2..n : f[i] = After(i, f[i - 1])
    <2>1. \A i \in 2..n : f[i - 1] \in V
      BY <1>1, <1>9
    <2> QED BY <1>6, <1>9, <2>1, Zenon
  <1> QED BY <1>3, <1>9, <1>10, Zenon DEF After, V, n, e, Joins

(* s has the entries of the first i sequences, is closed by a delimiter    *)
(* when they are, and has no request twice when no two of them share one.  *)
Flat(s, seqs, i) ==
    /\ \A x : Contains(s, x) <=> \E k \in 1..i : Contains(seqs[k], x)
    /\ (\A k \in 1..i : seqs[k] # <<>> /\ seqs[k][Len(seqs[k])] = Null)
          => s # <<>> /\ s[Len(s)] = Null
    /\ (/\ \A k \in 1..i : Distinct(seqs[k])
        /\ \A k, l \in 1..i : \A x : Contains(seqs[k], x) /\ Contains(seqs[l], x) /\ x # Null => k = l)
          => Distinct(s)

(* The entries of two sequences, one after the other                       *)
LEMMA ContainsConcat ==
    ASSUME NEW T, NEW s \in Seq(T), NEW t \in Seq(T)
    PROVE  \A x : Contains(s \o t, x) <=> Contains(s, x) \/ Contains(t, x)
  <1>1. /\ Len(s) \in Nat /\ Len(t) \in Nat /\ Len(s \o t) = Len(s) + Len(t)
        /\ \A i \in 1..Len(s) : (s \o t)[i] = s[i]
        /\ \A i \in 1..Len(t) : (s \o t)[Len(s) + i] = t[i]
    OBVIOUS
  <1>2. \A i \in 1..(Len(s) + Len(t)) : i \in 1..Len(s) \/ (i - Len(s) \in 1..Len(t) /\ i = Len(s) + (i - Len(s)))
    BY <1>1
  <1>3. /\ \A i \in 1..Len(s) : i \in 1..(Len(s) + Len(t))
        /\ \A i \in 1..Len(t) : Len(s) + i \in 1..(Len(s) + Len(t))
    BY <1>1
  <1> DEFINE u == s \o t
  <1> HIDE DEF u
  <1>4. \A x : Contains(u, x) => Contains(s, x) \/ Contains(t, x)
    BY <1>1, <1>2 DEF Contains, u
  <1>5. \A x : Contains(s, x) \/ Contains(t, x) => Contains(u, x)
    BY <1>1, <1>3 DEF Contains, u
  <1> QED BY <1>4, <1>5 DEF u

LEMMA DistinctConcat ==
    ASSUME NEW T, NEW s \in Seq(T), NEW t \in Seq(T), Distinct(s), Distinct(t),
           \A x : Contains(s, x) /\ Contains(t, x) => x = Null
    PROVE  Distinct(s \o t)
  <1> DEFINE u == s \o t
  <1>1. /\ Len(s) \in Nat /\ Len(t) \in Nat /\ Len(u) = Len(s) + Len(t)
        /\ \A i \in 1..Len(s) : u[i] = s[i]
        /\ \A i \in 1..Len(t) : u[Len(s) + i] = t[i]
    OBVIOUS
  <1> HIDE DEF u
  <1>2. ASSUME NEW i \in 1..Len(u)
        PROVE  \/ i \in 1..Len(s) /\ u[i] = s[i]
               \/ i - Len(s) \in 1..Len(t) /\ u[i] = t[i - Len(s)]
    <2> SUFFICES ASSUME i \notin 1..Len(s)
                 PROVE  i - Len(s) \in 1..Len(t) /\ u[i] = t[i - Len(s)]
      BY <1>1
    <2>1. i - Len(s) \in 1..Len(t) /\ Len(s) + (i - Len(s)) = i
      BY <1>1
    <2> QED BY <1>1, <2>1
  <1>3. SUFFICES ASSUME NEW i \in 1..Len(u), NEW j \in 1..Len(u), u[i] = u[j], u[i] # Null
                 PROVE  i = j
    BY DEF Distinct, u
  <1>4. CASE i \in 1..Len(s) /\ u[i] = s[i] /\ j \in 1..Len(s) /\ u[j] = s[j]
    BY <1>3, <1>4, Zenon DEF Distinct
  <1>5. CASE /\ i - Len(s) \in 1..Len(t) /\ u[i] = t[i - Len(s)]
             /\ j - Len(s) \in 1..Len(t) /\ u[j] = t[j - Len(s)]
    <2>1. i - Len(s) = j - Len(s)
      BY <1>3, <1>5, Zenon DEF Distinct
    <2> QED BY <1>1, <2>1
  <1>6. \A k \in 1..Len(s), l \in 1..Len(t) : s[k] = t[l] => s[k] = Null
    BY Zenon DEF Contains
  <1> QED BY <1>2, <1>3, <1>4, <1>5, <1>6, Zenon

LEMMA FlatNext ==
    ASSUME NEW T, NEW seqs \in Seq(Seq(T)), NEW i \in 1..(Len(seqs) - 1),
           NEW s \in Seq(T), Flat(s, seqs, i)
    PROVE  Flat(s \o seqs[i + 1], seqs, i + 1)
  <1> DEFINE t == seqs[i + 1]
             u == s \o t
  <1>1. t \in Seq(T) /\ u \in Seq(T) /\ i \in Nat
    OBVIOUS
  <1>2. \A x : Contains(u, x) <=> Contains(s, x) \/ Contains(t, x)
    <2> HIDE DEF t
    <2> QED BY <1>1, ContainsConcat, Zenon
  <1>3. \A k \in 1..(i + 1) : k \in 1..i \/ k = i + 1
    BY <1>1
  <1>4. i + 1 \in 1..(i + 1) /\ i + 1 \notin 1..i /\ \A k \in 1..i : k \in 1..(i + 1)
    BY <1>1
  <1>5. \A x : Contains(u, x) <=> \E k \in 1..(i + 1) : Contains(seqs[k], x)
    <2> HIDE DEF u
    <2> QED BY <1>2, <1>3, <1>4, Zenon DEF Flat, t
  <1>6. ASSUME t # <<>>, t[Len(t)] = Null PROVE u # <<>> /\ u[Len(u)] = Null
    <2>1. Len(t) \in Nat \ {0} /\ Len(s) \in Nat /\ Len(u) = Len(s) + Len(t)
      BY <1>1, <1>6
    <2>2. \A k \in 1..Len(t) : u[Len(s) + k] = t[k]
      BY <1>1
    <2>3. Len(t) \in 1..Len(t)
      BY <2>1
    <2> QED BY <1>1, <1>6, <2>1, <2>2, <2>3
  <1>7. ASSUME \A k \in 1..(i + 1) : Distinct(seqs[k]),
               \A k, l \in 1..(i + 1) : \A x : Contains(seqs[k], x) /\ Contains(seqs[l], x) /\ x # Null => k = l
        PROVE  Distinct(u)
    <2> HIDE DEF t
    <2>1. Distinct(s)
      BY <1>4, <1>7, Zenon DEF Flat
    <2>2. Distinct(t)
      BY <1>4, <1>7, Zenon DEF t
    <2>3. \A x : Contains(s, x) /\ Contains(t, x) => x = Null
      BY <1>4, <1>7, Zenon DEF Flat, t
    <2> QED BY <1>1, <2>1, <2>2, <2>3, DistinctConcat, Zenon
  <1> HIDE DEF u
  <1>8. Flat(u, seqs, i + 1)
    BY <1>4, <1>5, <1>6, <1>7, Zenon DEF Flat, t
  <1> QED BY <1>8 DEF u

(* What Joined returns.                                                *)
LEMMA JoinedProperties ==
    ASSUME NEW T, NEW seqs \in Seq(Seq(T)), seqs # <<>>
    PROVE  Joined(seqs) \in Seq(T) /\ Flat(Joined(seqs), seqs, Len(seqs))
  <1> DEFINE n == Len(seqs)
  <1>1. PICK flat : Joins(flat, T, seqs)
    BY JoinedSteps, Zenon
  <1>2. /\ flat \in [1..n -> Seq(T)]
        /\ flat[1] = seqs[1]
        /\ \A i \in 2..n : flat[i] = flat[i - 1] \o seqs[i]
        /\ Joined(seqs) = flat[n]
    BY <1>1, Zenon DEF Joins
  <1>3. n \in Nat /\ 1 \in 1..n /\ n \in 1..n /\ 1 \in Nat
    OBVIOUS
  <1> DEFINE K == {i \in 1..n : Flat(flat[i], seqs, i)}
  <1>4. 1 \in K
    <2>1. \A k \in 1..1 : k = 1
      OBVIOUS
    <2>2. 1 \in 1..1
      OBVIOUS
    <2>3. Flat(seqs[1], seqs, 1)
      BY <2>1, <2>2, Zenon DEF Flat
    <2> QED BY <1>2, <1>3, <2>3, Zenon
  <1>5. ASSUME NEW i \in 1..(n - 1), i \in K PROVE i + 1 \in K
    <2>1. i \in 1..n /\ i + 1 \in 1..n /\ i + 1 \in 2..n /\ (i + 1) - 1 = i
      BY <1>3
    <2> HIDE DEF n
    <2>2. flat[i] \in Seq(T) /\ Flat(flat[i], seqs, i)
      BY <1>2, <1>5, <2>1
    <2>3. flat[i + 1] = flat[i] \o seqs[i + 1]
      BY <1>2, <2>1, Zenon
    <2>4. Flat(flat[i + 1], seqs, i + 1)
      BY <2>2, <2>3, FlatNext, Zenon DEF n
    <2> QED BY <2>1, <2>4
  <1>6. flat[n] \in Seq(T) /\ Flat(flat[n], seqs, n)
    <2> HIDE DEF K, n
    <2>1. \A i \in 1..n : i \in K
      BY <1>3, <1>4, <1>5, IntervalInduction, Zenon
    <2> QED BY <1>2, <1>3, <2>1, Zenon DEF K
  <1> QED BY <1>2, <1>6, Zenon

-----------------------------------------------------------------------------
(* GenerateSubsets                                                         *)

Group(n, B) == [delegates : SUBSET B, requests : SUBSET (1..n)]

(* The groups cover the requests in E, each in one group, have different   *)
(* delegates, and their delegates support all of the group.                *)
Grouped(groups, E, who) ==
    /\ \A e \in E : \E g \in 1..Len(groups) : e \in groups[g].requests
    /\ \A g \in 1..Len(groups) : \A e \in groups[g].requests :
          e \in E /\ groups[g].delegates \subseteq who[e]
    /\ \A g, h \in 1..Len(groups) : \A e :
          e \in groups[g].requests /\ e \in groups[h].requests => g = h
    /\ \A g, h \in 1..Len(groups) : groups[g].delegates = groups[h].delegates => g = h

(* A request joins a group of its delegates or opens one.                  *)
LEMMA AddToGroupKeeps ==
    ASSUME NEW n, NEW B, NEW groups \in Seq(Group(n, B)), NEW E, NEW who,
           Grouped(groups, E, who), NEW i \in 1..n, i \notin E, who[i] \in SUBSET B
    PROVE  /\ AddToGroup(groups, i, who[i]) \in Seq(Group(n, B))
           /\ Grouped(AddToGroup(groups, i, who[i]), E \cup {i}, who)
  <1> DEFINE w == AddToGroup(groups, i, who[i])
             G == Group(n, B)
  <1>1. Len(groups) \in Nat /\ \A k \in 1..Len(groups) : groups[k] \in G
    OBVIOUS
  <1>2. CASE \E g \in 1..Len(groups) : groups[g].delegates = who[i]
    <2>1. PICK g \in 1..Len(groups) : /\ groups[g].delegates = who[i]
                                      /\ w = [groups EXCEPT ![g].requests = @ \cup {i}]
      <3> DEFINE g == CHOOSE g \in 1..Len(groups) : groups[g].delegates = who[i]
      <3>1. g \in 1..Len(groups) /\ groups[g].delegates = who[i]
        BY <1>2, Zenon
      <3>2. w = [groups EXCEPT ![g].requests = @ \cup {i}]
        BY <1>2 DEF AddToGroup
      <3> HIDE DEF g, w
      <3> QED BY <3>1, <3>2, Zenon
    <2> HIDE DEF w
    <2> DEFINE x == [groups[g] EXCEPT !.requests = @ \cup {i}]
    <2>2. groups[g] \in [delegates : SUBSET B, requests : SUBSET (1..n)]
      BY <1>1 DEF Group
    <2>3. x \in G /\ x.delegates = who[i] /\ x.requests = groups[g].requests \cup {i}
      BY <2>1, <2>2 DEF Group
    <2>4. w = [groups EXCEPT ![g] = x]
      BY <2>1
    <2> HIDE DEF x, G
    <2>5. /\ w \in Seq(G) /\ Len(w) = Len(groups)
          /\ w[g] = x /\ \A k \in 1..Len(groups) : k # g => w[k] = groups[k]
      BY <2>3, <2>4 DEF G
    <2>6. \A k \in 1..Len(w) : w[k].delegates = groups[k].delegates
      BY <2>1, <2>3, <2>5
    <2>7. \A k \in 1..Len(w) : \A e : e \in w[k].requests <=> e \in groups[k].requests \/ (k = g /\ e = i)
      BY <2>3, <2>5
    <2>8. \A k \in 1..Len(groups) : i \notin groups[k].requests
      BY Zenon DEF Grouped
    <2>9. Grouped(w, E \cup {i}, who)
      <3>1. \A e \in E \cup {i} : \E k \in 1..Len(w) : e \in w[k].requests
        BY <2>5, <2>7, Zenon DEF Grouped
      <3>2. \A k \in 1..Len(w) : \A e \in w[k].requests :
               e \in E \cup {i} /\ w[k].delegates \subseteq who[e]
        BY <2>1, <2>5, <2>6, <2>7 DEF Grouped
      <3>3. ASSUME NEW k \in 1..Len(w), NEW l \in 1..Len(w), NEW e,
                   e \in w[k].requests, e \in w[l].requests
            PROVE  k = l
        <4>1. CASE e = i
          BY <2>5, <2>7, <2>8, <3>3, <4>1, Zenon
        <4>2. CASE e # i
          BY <2>5, <2>7, <3>3, <4>2, Zenon DEF Grouped
        <4> QED BY <4>1, <4>2
      <3>4. \A k, l \in 1..Len(w) : w[k].delegates = w[l].delegates => k = l
        BY <2>5, <2>6, Zenon DEF Grouped
      <3> QED BY <3>1, <3>2, <3>3, <3>4, Zenon DEF Grouped
    <2> QED BY <2>5, <2>9 DEF w, G
  <1>3. CASE ~\E g \in 1..Len(groups) : groups[g].delegates = who[i]
    <2> DEFINE x == [delegates |-> who[i], requests |-> {i}]
    <2>1. w = Append(groups, x)
      BY <1>3 DEF AddToGroup
    <2>2. x \in G /\ x.delegates = who[i] /\ x.requests = {i}
      BY DEF Group
    <2> HIDE DEF w, x, G
    <2>3. /\ w \in Seq(G) /\ Len(w) = Len(groups) + 1
          /\ w[Len(groups) + 1] = x /\ \A k \in 1..Len(groups) : w[k] = groups[k]
      BY <2>1, <2>2 DEF G
    <2>4. /\ Len(groups) + 1 \in 1..Len(w) /\ Len(groups) + 1 \notin 1..Len(groups)
          /\ \A k \in 1..Len(w) : k \in 1..Len(groups) \/ k = Len(groups) + 1
          /\ \A k \in 1..Len(groups) : k \in 1..Len(w)
      BY <1>1, <2>3
    <2>6. \A k \in 1..Len(groups) : i \notin groups[k].requests
      BY Zenon DEF Grouped
    <2>5. Grouped(w, E \cup {i}, who)
      <3>1. \A e \in E \cup {i} : \E k \in 1..Len(w) : e \in w[k].requests
        BY <2>2, <2>3, <2>4, Zenon DEF Grouped
      <3>2. \A k \in 1..Len(w) : \A e \in w[k].requests :
               e \in E \cup {i} /\ w[k].delegates \subseteq who[e]
        BY <2>2, <2>3, <2>4 DEF Grouped
      <3>3. ASSUME NEW k \in 1..Len(w), NEW l \in 1..Len(w), NEW e,
                   e \in w[k].requests, e \in w[l].requests
            PROVE  k = l
        <4>1. CASE e = i
          BY <2>3, <2>4, <2>6, <3>3, <4>1, Zenon
        <4>2. CASE e # i
          <5>1. k \in 1..Len(groups) /\ l \in 1..Len(groups)
            BY <2>2, <2>3, <2>4, <3>3, <4>2, Zenon
          <5> QED BY <2>3, <3>3, <5>1, Zenon DEF Grouped
        <4> QED BY <4>1, <4>2
      <3>4. ASSUME NEW k \in 1..Len(w), NEW l \in 1..Len(w), w[k].delegates = w[l].delegates
            PROVE  k = l
        <4>1. CASE k \in 1..Len(groups) /\ l \in 1..Len(groups)
          BY <2>3, <3>4, <4>1, Zenon DEF Grouped
        <4>2. CASE k = Len(groups) + 1 \/ l = Len(groups) + 1
          <5>1. \A j \in 1..Len(groups) : w[j].delegates # who[i]
            BY <1>3, <2>3, Zenon
          <5>2. w[Len(groups) + 1].delegates = who[i]
            BY <2>2, <2>3, Zenon
          <5> QED BY <2>4, <3>4, <4>2, <5>1, <5>2, Zenon
        <4> QED BY <2>4, <4>1, <4>2, Zenon
      <3> QED BY <3>1, <3>2, <3>3, <3>4, Zenon DEF Grouped
    <2> QED BY <2>3, <2>5 DEF w, G
  <1> QED BY <1>2, <1>3

LEMMA AddToGroupType ==
    ASSUME NEW n, NEW B, NEW groups \in Seq(Group(n, B)), NEW i \in 1..n, NEW D \in SUBSET B
    PROVE  AddToGroup(groups, i, D) \in Seq(Group(n, B))
  <1>1. CASE \E g \in 1..Len(groups) : groups[g].delegates = D
    <2> DEFINE g == CHOOSE g \in 1..Len(groups) : groups[g].delegates = D
    <2>1. g \in 1..Len(groups)
      BY <1>1, Zenon
    <2>2. AddToGroup(groups, i, D) = [groups EXCEPT ![g].requests = @ \cup {i}]
      BY <1>1 DEF AddToGroup
    <2> HIDE DEF g
    <2> DEFINE x == [groups[g] EXCEPT !.requests = @ \cup {i}]
    <2>3. groups[g] \in [delegates : SUBSET B, requests : SUBSET (1..n)]
      <3>1. groups[g] \in Group(n, B)
        BY <2>1
      <3> QED BY <3>1 DEF Group
    <2>4. x \in Group(n, B)
      BY <2>3 DEF Group
    <2> HIDE DEF x
    <2>5. AddToGroup(groups, i, D) = [groups EXCEPT ![g] = x]
      BY <2>2 DEF x
    <2> QED BY <2>1, <2>4, <2>5
  <1>2. CASE ~\E g \in 1..Len(groups) : groups[g].delegates = D
    <2> DEFINE x == [delegates |-> D, requests |-> {i}]
    <2>1. AddToGroup(groups, i, D) = Append(groups, x)
      BY <1>2 DEF AddToGroup
    <2>2. x \in Group(n, B)
      BY DEF Group
    <2> HIDE DEF x
    <2> QED BY <2>1, <2>2
  <1> QED BY <1>1, <1>2

(* all[i] are the groups after i requests.                                 *)
Collects(all, n, B, enough, who) ==
    /\ all \in [0..n -> Seq(Group(n, B))]
    /\ all[0] = <<>>
    /\ \A i \in 1..n :
          all[i] = IF i \in enough THEN AddToGroup(all[i - 1], i, who[i]) ELSE all[i - 1]
    /\ Collect(n, enough, who) = all[n]

LEMMA CollectSteps ==
    ASSUME NEW n \in Nat, NEW B, NEW enough, NEW who, \A i \in 1..n : who[i] \in SUBSET B
    PROVE  \E all : Collects(all, n, B, enough, who)
  <1> DEFINE V == Seq(Group(n, B))
             After(i, s) == IF i \in enough THEN AddToGroup(s, i, who[i]) ELSE s
             Body(h) == [i \in 0..n |-> IF i = 0 THEN <<>>
                                        ELSE IF i \in enough THEN AddToGroup(h[i - 1], i, who[i])
                                        ELSE h[i - 1]]
             f == CHOOSE h : h = Body(h)
             e == <<>>
  <1>1. e \in V
    OBVIOUS
  <1>2. \A i \in 1..n : \A s \in V : After(i, s) \in V
    BY AddToGroupType, Zenon
  <1>3. Collect(n, enough, who) = f[n]
    BY DEF Collect
  <1>4. \A h : Body(h) = [i \in 0..n |-> IF i = 0 THEN e ELSE After(i, h[i - 1])]
    OBVIOUS
  <1> HIDE DEF After, Body, V, e
  <1>5. \A h : /\ Body(h) = [i \in 0..n |-> Body(h)[i]]
               /\ Body(h)[0] = e
               /\ \A i \in 1..n : Body(h)[i] = After(i, h[i - 1])
    <2>1. 0 \in 0..n /\ \A i \in 1..n : i \in 0..n /\ i # 0
      OBVIOUS
    <2> QED BY <1>4, <2>1
  <1> DEFINE g == [p \in ((0 + 1)..n) \X V |-> After(p[1], p[2])]
  <1>6. /\ g \in Steps(0, n, V)
        /\ \A i \in 1..n : \A s \in V : g[<<i, s>>] = After(i, s)
        /\ (0 + 1)..n = 1..n
    BY <1>2 DEF Steps
  <1> HIDE DEF g
  <1>7. ASSUME NEW h, Solves(h, 0, n, V, e, g)
        PROVE  Follows(f, 0, n, V, e, g)
    <2>1. h \in [0..n -> V] /\ h[0] = e /\ \A i \in 1..n : h[i] = g[<<i, h[i - 1]>>]
      BY <1>6, <1>7, Zenon DEF Solves
    <2>2. \A i \in 1..n : h[i - 1] \in V
      BY <2>1
    <2>3. h = Body(h)
      <3>1. \A i \in 0..n : i = 0 \/ i \in 1..n
        OBVIOUS
      <3>2. \A i \in 0..n : h[i] = Body(h)[i]
        BY <1>5, <1>6, <2>1, <2>2, <3>1, ZenonT(30)
      <3>3. h = [i \in 0..n |-> h[i]]
        BY <2>1
      <3> QED BY <1>5, <3>2, <3>3, Zenon
    <2>4. f = Body(f)
      BY <2>3, Zenon
    <2> HIDE DEF f
    <2>5. f = [i \in 0..n |-> f[i]]
      BY <1>5, <2>4, Zenon
    <2>6. f[0] = e
      BY <1>5, <2>4, Zenon
    <2>7. \A i \in 1..n : f[i] = After(i, f[i - 1])
      BY <1>5, <2>4, Zenon
    <2> QED BY <1>6, <2>5, <2>6, <2>7, Zenon DEF Follows
  <1> HIDE DEF f
  <1>8. Solves(f, 0, n, V, e, g)
    <2>1. 0 \in Nat /\ 0 <= n
      OBVIOUS
    <2> QED BY <1>1, <1>6, <1>7, <2>1, RecursiveFunction, Zenon
  <1>9. f \in [0..n -> V] /\ f[0] = e /\ \A i \in 1..n : f[i] = g[<<i, f[i - 1]>>]
    BY <1>6, <1>8, Zenon DEF Solves
  <1>10. \A i \in 1..n : f[i] = After(i, f[i - 1])
    <2>1. \A i \in 1..n : f[i - 1] \in V
      BY <1>9
    <2> QED BY <1>6, <1>9, <2>1, Zenon
  <1> QED BY <1>3, <1>9, <1>10, Zenon DEF After, V, e, Collects

LEMMA Successor ==
    \A i, e \in Nat :
        ~(i + 1 <= i) /\ (e <= i + 1 <=> e <= i \/ e = i + 1)
  OBVIOUS

(* The first loop groups the requests with enough support.                 *)
LEMMA CollectGroups ==
    ASSUME NEW n \in Nat, NEW B, NEW enough \in SUBSET (1..n), NEW who,
           \A i \in 1..n : who[i] \in SUBSET B
    PROVE  /\ Collect(n, enough, who) \in Seq(Group(n, B))
           /\ Grouped(Collect(n, enough, who), enough, who)
  <1>1. PICK all : Collects(all, n, B, enough, who)
    BY CollectSteps, Zenon
  <1>2. /\ all \in [0..n -> Seq(Group(n, B))]
        /\ all[0] = <<>>
        /\ \A i \in 1..n :
              all[i] = IF i \in enough THEN AddToGroup(all[i - 1], i, who[i]) ELSE all[i - 1]
        /\ Collect(n, enough, who) = all[n]
    BY <1>1, Zenon DEF Collects
  <1> DEFINE Upto(i) == {e \in enough : e <= i}
             K == {i \in 0..n : Grouped(all[i], Upto(i), who)}
  <1>3. 0 \in K
    <2>1. Grouped(<<>>, Upto(0), who)
      BY DEF Grouped
    <2> QED BY <1>2, <2>1
  <1>4. ASSUME NEW i \in 0..(n - 1), i \in K PROVE i + 1 \in K
    <2>1. i \in 0..n /\ i + 1 \in 0..n /\ i + 1 \in 1..n /\ (i + 1) - 1 = i
      OBVIOUS
    <2>2. all[i] \in Seq(Group(n, B)) /\ Grouped(all[i], Upto(i), who)
      BY <1>2, <1>4, <2>1
    <2>3. all[i + 1] = IF i + 1 \in enough THEN AddToGroup(all[i], i + 1, who[i + 1]) ELSE all[i]
      BY <1>2, <2>1
    <2>4. i + 1 \notin Upto(i) /\ Upto(i + 1) = IF i + 1 \in enough THEN Upto(i) \cup {i + 1} ELSE Upto(i)
      <3>1. i \in Nat /\ \A e \in enough : e \in Nat
        OBVIOUS
      <3>2. ~(i + 1 <= i) /\ \A e \in enough : e <= i + 1 <=> e <= i \/ e = i + 1
        BY <3>1, Successor, Zenon
      <3>3. i + 1 <= i + 1
        BY <3>1
      <3> QED BY <3>2, <3>3, Zenon
    <2> HIDE DEF Upto
    <2>5. Grouped(all[i + 1], Upto(i + 1), who)
      <3>1. CASE i + 1 \in enough
        <4>1. Grouped(AddToGroup(all[i], i + 1, who[i + 1]), Upto(i) \cup {i + 1}, who)
          BY <2>1, <2>2, <2>4, AddToGroupKeeps, Zenon
        <4> QED BY <2>3, <2>4, <3>1, <4>1, Zenon
      <3>2. CASE i + 1 \notin enough
        BY <2>2, <2>3, <2>4, <3>2, Zenon
      <3> QED BY <3>1, <3>2
    <2> QED BY <2>1, <2>5
  <1>5. all[n] \in Seq(Group(n, B)) /\ Grouped(all[n], Upto(n), who)
    <2> HIDE DEF K, Upto
    <2>1. \A i \in 0..n : i \in K
      BY <1>3, <1>4, IntervalInduction, Zenon
    <2>2. n \in 0..n
      OBVIOUS
    <2> QED BY <1>2, <2>1, <2>2, Zenon DEF K
  <1>6. Upto(n) = enough
    <2>1. \A e \in enough : e <= n
      OBVIOUS
    <2> QED BY <2>1, Zenon
  <1> QED BY <1>2, <1>5, <1>6, Zenon

(* The iterators and the list of the second loop                           *)
Run(n, B) == [groups : Seq(Group(n, B)), a : Nat \ {0}, b : Nat \ {0}, defined : BOOLEAN]

(* Erasing a group moves the later ones.                                   *)
LEMMA EraseProperties ==
    ASSUME NEW T, NEW s \in Seq(T), NEW i \in 1..Len(s)
    PROVE  /\ Erase(s, i) \in Seq(T)
           /\ Len(Erase(s, i)) = Len(s) - 1
           /\ \A j \in 1..(Len(s) - 1) : Erase(s, i)[j] = IF j < i THEN s[j] ELSE s[j + 1]
  <1> DEFINE p == SubSeq(s, 1, i - 1)
             r == SubSeq(s, i + 1, Len(s))
  <1>1. Len(s) \in Nat /\ i \in Nat /\ 1 <= i /\ i <= Len(s)
    OBVIOUS
  <1>2. p \in Seq(T) /\ Len(p) = i - 1 /\ \A j \in 1..(i - 1) : p[j] = s[j]
    BY <1>1
  <1>3. r \in Seq(T) /\ Len(r) = Len(s) - i /\ \A j \in 1..(Len(s) - i) : r[j] = s[i + j]
    BY <1>1
  <1>4. Erase(s, i) = p \o r
    BY DEF Erase
  <1> HIDE DEF p, r
  <1>5. /\ p \o r \in Seq(T) /\ Len(p \o r) = Len(s) - 1
        /\ \A j \in 1..(Len(s) - 1) : (p \o r)[j] = IF j <= Len(p) THEN p[j] ELSE r[j - Len(p)]
    <2>1. /\ p \o r \in Seq(T) /\ Len(p \o r) = Len(p) + Len(r)
          /\ \A j \in 1..(Len(p) + Len(r)) : (p \o r)[j] = IF j <= Len(p) THEN p[j] ELSE r[j - Len(p)]
      BY <1>2, <1>3, Concatenation, Zenon
    <2>2. Len(p) + Len(r) = Len(s) - 1
      BY <1>1, <1>2, <1>3
    <2> QED BY <2>1, <2>2, Zenon
  <1>6. ASSUME NEW j \in 1..(Len(s) - 1)
        PROVE  (p \o r)[j] = IF j < i THEN s[j] ELSE s[j + 1]
    <2>1. CASE j < i
      BY <1>1, <1>2, <1>5, <2>1
    <2>2. CASE ~(j < i)
      <3>1. j - Len(p) \in 1..(Len(s) - i) /\ i + (j - Len(p)) = j + 1 /\ ~(j <= Len(p))
        BY <1>1, <1>2, <2>2
      <3> QED BY <1>3, <1>5, <2>2, <3>1, Zenon
    <2> QED BY <2>1, <2>2, Zenon
  <1> QED BY <1>4, <1>5, <1>6

(* m is what nested groups x and y are merged into.                        *)
Combines(m, x, y) ==
    /\ m.requests = x.requests \cup y.requests
    /\ m.delegates \in {x.delegates, y.delegates}
    /\ Nested(x, y) => m.delegates \subseteq x.delegates /\ m.delegates \subseteq y.delegates

LEMMA MergeProperties ==
    ASSUME NEW n, NEW B, NEW x \in Group(n, B), NEW y \in Group(n, B)
    PROVE  Merge(x, y) \in Group(n, B) /\ Combines(Merge(x, y), x, y)
  BY DEF Merge, Nested, Group, Combines

(* The list of the groups after groups a and b are merged                  *)
Merged(groups, a, b) == Erase([groups EXCEPT ![a] = Merge(groups[a], groups[b])], b)

(* Where group j of that list was before                                   *)
Was(j, b) == IF j < b THEN j ELSE j + 1

Erases(w, groups, a, b) ==
    /\ Len(w) = Len(groups) - 1
    /\ \A j \in 1..Len(w) :
          w[j] = IF Was(j, b) = a THEN Merge(groups[a], groups[b]) ELSE groups[Was(j, b)]

LEMMA MergedGroups ==
    ASSUME NEW n, NEW B, NEW groups \in Seq(Group(n, B)),
           NEW a \in 1..Len(groups), NEW b \in 1..Len(groups)
    PROVE  Merged(groups, a, b) \in Seq(Group(n, B)) /\ Erases(Merged(groups, a, b), groups, a, b)
  <1> DEFINE m == Merge(groups[a], groups[b])
             s == [groups EXCEPT ![a] = m]
             w == Merged(groups, a, b)
  <1>1. Len(groups) \in Nat /\ groups[a] \in Group(n, B) /\ groups[b] \in Group(n, B)
    OBVIOUS
  <1>2. m \in Group(n, B)
    BY <1>1, MergeProperties, Zenon
  <1>4. w = Erase(s, b)
    BY DEF Merged
  <1> HIDE DEF m, w
  <1>3. /\ s \in Seq(Group(n, B)) /\ Len(s) = Len(groups)
        /\ \A k \in 1..Len(groups) : s[k] = IF k = a THEN m ELSE groups[k]
    BY <1>2
  <1> HIDE DEF s
  <1>5. /\ w \in Seq(Group(n, B)) /\ Len(w) = Len(s) - 1
        /\ \A j \in 1..(Len(s) - 1) : w[j] = IF j < b THEN s[j] ELSE s[j + 1]
    <2>1. s \in Seq(Group(n, B)) /\ b \in 1..Len(s)
      BY <1>3
    <2> QED BY <1>4, <2>1, EraseProperties, Zenon
  <1>6. \A j \in 1..(Len(s) - 1) : j \in 1..Len(groups) /\ j + 1 \in 1..Len(groups)
    BY <1>1, <1>3
  <1>7. ASSUME NEW j \in 1..Len(w)
        PROVE  w[j] = IF Was(j, b) = a THEN m ELSE groups[Was(j, b)]
    <2>1. j \in 1..(Len(s) - 1)
      BY <1>5, Zenon
    <2>2. Was(j, b) \in 1..Len(groups) /\ w[j] = s[Was(j, b)]
      BY <1>5, <1>6, <2>1 DEF Was
    <2> QED BY <1>3, <2>2, Zenon
  <1> QED BY <1>3, <1>5, <1>7, Zenon DEF m, w, Erases

(* Merging two nested groups keeps the requests grouped.                   *)
LEMMA MergedKeeps ==
    ASSUME NEW n, NEW B, NEW groups \in Seq(Group(n, B)), NEW E, NEW who, Grouped(groups, E, who),
           NEW a \in 1..Len(groups), NEW b \in 1..Len(groups), a # b,
           Nested(groups[a], groups[b])
    PROVE  Grouped(Merged(groups, a, b), E, who)
  <1> DEFINE m == Merge(groups[a], groups[b])
             At(j) == Was(j, b)
             w == Merged(groups, a, b)
  <1>1. /\ Len(w) = Len(groups) - 1
        /\ \A j \in 1..Len(w) : w[j] = IF At(j) = a THEN m ELSE groups[At(j)]
    <2>1. Erases(w, groups, a, b)
      BY MergedGroups, Zenon
    <2> HIDE DEF w
    <2> QED BY <2>1, Zenon DEF Erases
  <1> HIDE DEF w
  <1>2. /\ m.requests = groups[a].requests \cup groups[b].requests
        /\ m.delegates \in {groups[a].delegates, groups[b].delegates}
        /\ m.delegates \subseteq groups[a].delegates /\ m.delegates \subseteq groups[b].delegates
    <2>1. groups[a] \in Group(n, B) /\ groups[b] \in Group(n, B)
      OBVIOUS
    <2>2. Combines(m, groups[a], groups[b])
      BY <2>1, MergeProperties, Zenon
    <2> HIDE DEF m
    <2> QED BY <2>2, Zenon DEF Combines
  <1>3. Len(groups) \in Nat
    OBVIOUS
  <1>4. /\ \A j \in 1..Len(w) : At(j) \in 1..Len(groups) /\ At(j) # b
        /\ \A j, l \in 1..Len(w) : At(j) = At(l) => j = l
    BY <1>1, <1>3 DEF Was
  <1>5. ASSUME NEW k \in 1..Len(groups), k # b
        PROVE  \E j \in 1..Len(w) : At(j) = k
    <2>1. CASE k < b
      <3>1. k \in 1..Len(w) /\ At(k) = k
        BY <1>1, <1>3, <2>1 DEF Was
      <3> QED BY <3>1, Zenon
    <2>2. CASE ~(k < b)
      <3>1. k - 1 \in 1..Len(w) /\ At(k - 1) = k
        BY <1>1, <1>3, <1>5, <2>2 DEF Was
      <3> QED BY <3>1, Zenon
    <2> QED BY <2>1, <2>2
  <1> HIDE DEF m, At
  <1>6. \A j \in 1..Len(w) : \A e : e \in w[j].requests <=>
           e \in groups[At(j)].requests \/ (At(j) = a /\ e \in groups[b].requests)
    BY <1>1, <1>2
  <1>7. \A j \in 1..Len(w) : \/ w[j].delegates = groups[At(j)].delegates
                             \/ At(j) = a /\ w[j].delegates = groups[b].delegates
    BY <1>1, <1>2
  <1>8. \A e \in E : \E j \in 1..Len(w) : e \in w[j].requests
    <2> SUFFICES ASSUME NEW e \in E PROVE \E j \in 1..Len(w) : e \in w[j].requests
      OBVIOUS
    <2>1. PICK k \in 1..Len(groups) : e \in groups[k].requests
      BY Zenon DEF Grouped
    <2>2. CASE k = b
      BY <1>5, <1>6, <2>1, <2>2, Zenon
    <2>3. CASE k # b
      BY <1>5, <1>6, <2>1, <2>3, Zenon
    <2> QED BY <2>2, <2>3
  <1>9. ASSUME NEW j \in 1..Len(w), NEW e \in w[j].requests
        PROVE  e \in E /\ w[j].delegates \subseteq who[e]
    <2>1. CASE At(j) = a
      <3>1. w[j].delegates \subseteq groups[a].delegates /\ w[j].delegates \subseteq groups[b].delegates
        BY <1>1, <1>2, <2>1, Zenon
      <3>2. e \in groups[a].requests \/ e \in groups[b].requests
        BY <1>6, <1>9, <2>1, Zenon
      <3> QED BY <3>1, <3>2, Zenon DEF Grouped
    <2>2. CASE At(j) # a
      <3>1. w[j].delegates = groups[At(j)].delegates /\ e \in groups[At(j)].requests
        BY <1>6, <1>7, <1>9, <2>2, Zenon
      <3> QED BY <1>4, <3>1, Zenon DEF Grouped
    <2> QED BY <2>1, <2>2
  <1>10. ASSUME NEW j \in 1..Len(w), NEW l \in 1..Len(w), NEW e,
                e \in w[j].requests, e \in w[l].requests
         PROVE  j = l
    <2>1. CASE e \in groups[b].requests
      <3>1. \A k \in 1..Len(groups) : e \in groups[k].requests => k = b
        BY <2>1, Zenon DEF Grouped
      <3>2. At(j) = a /\ At(l) = a
        BY <1>4, <1>6, <1>10, <3>1, Zenon
      <3> QED BY <1>4, <3>2, Zenon
    <2>2. CASE e \notin groups[b].requests
      <3>1. e \in groups[At(j)].requests /\ e \in groups[At(l)].requests
        BY <1>6, <1>10, <2>2, Zenon
      <3>2. At(j) = At(l)
        BY <1>4, <3>1, Zenon DEF Grouped
      <3> QED BY <1>4, <3>2, Zenon
    <2> QED BY <2>1, <2>2
  <1>11. ASSUME NEW j \in 1..Len(w), NEW l \in 1..Len(w), w[j].delegates = w[l].delegates
         PROVE  j = l
    <2>1. \A k, i \in 1..Len(groups) : groups[k].delegates = groups[i].delegates => k = i
      BY Zenon DEF Grouped
    <2>2. At(j) = At(l)
      <3>1. CASE w[j].delegates = groups[At(j)].delegates /\ w[l].delegates = groups[At(l)].delegates
        BY <1>4, <1>11, <2>1, <3>1, Zenon
      <3>2. CASE At(j) = a /\ w[j].delegates = groups[b].delegates
        <4>1. groups[At(l)].delegates # groups[b].delegates
          BY <1>4, <2>1, Zenon
        <4> QED BY <1>7, <1>11, <3>2, <4>1, Zenon
      <3>3. CASE At(l) = a /\ w[l].delegates = groups[b].delegates
        <4>1. groups[At(j)].delegates # groups[b].delegates
          BY <1>4, <2>1, Zenon
        <4> QED BY <1>7, <1>11, <3>3, <4>1, Zenon
      <3> QED BY <1>7, <3>1, <3>2, <3>3, Zenon
    <2> QED BY <1>4, <2>2, Zenon
  <1> QED BY <1>8, <1>9, <1>10, <1>11, Zenon DEF Grouped, w

(* What a turn of the second loop makes of s: nothing once it has ended,   *)
(* the next a, the next b, or the groups at a and b merged                 *)
Turns(s, t) ==
    \/ Ended(s) /\ t = s
    \/ /\ ~Ended(s) /\ s.b > Len(s.groups)
       /\ t.groups = s.groups /\ t.a = s.a + 1 /\ t.b = s.a + 2 /\ t.defined = s.defined
    \/ /\ ~Ended(s) /\ s.b <= Len(s.groups)
       /\ t.groups = s.groups /\ t.a = s.a /\ t.b = s.b + 1 /\ t.defined = s.defined
    \/ /\ ~Ended(s) /\ s.b <= Len(s.groups) /\ Nested(s.groups[s.a], s.groups[s.b])
       /\ t.groups = Merged(s.groups, s.a, s.b) /\ t.a = s.a /\ t.b = s.b + 1
       /\ t.defined = (s.b <= Len(t.groups))

LEMMA TurnCases ==
    ASSUME NEW n, NEW B, NEW s \in Run(n, B)
    PROVE  Turn(s) \in Run(n, B) /\ Turns(s, Turn(s))
  <1> DEFINE S == Seq(Group(n, B))
             merged == Merged(s.groups, s.a, s.b)
             d == s.b <= Len(merged)
  <1>1. s \in [groups : S, a : Nat \ {0}, b : Nat \ {0}, defined : BOOLEAN]
    BY DEF Run
  <1>2. s.groups \in S /\ s.a \in Nat \ {0} /\ s.b \in Nat \ {0} /\ s.defined \in BOOLEAN /\ Len(s.groups) \in Nat
    BY <1>1
  <1>3. Ended(s) \in BOOLEAN /\ (~Ended(s) => s.a <= Len(s.groups))
    BY <1>2 DEF Ended
  <1>4. CASE Ended(s)
    <2>1. Turn(s) = s
      BY <1>4 DEF Turn
    <2> QED BY <1>4, <2>1, Zenon DEF Turns
  <1>5. CASE ~Ended(s) /\ s.b > Len(s.groups)
    <2> DEFINE t == [groups |-> s.groups, a |-> s.a + 1, b |-> s.a + 2, defined |-> s.defined]
    <2>1. Turn(s) = [s EXCEPT !.a = @ + 1, !.b = s.a + 2]
      <3>1. ~(s.b <= Len(s.groups))
        BY <1>2, <1>5
      <3> QED BY <1>5, <3>1 DEF Turn
    <2> HIDE DEF S
    <2>2. Turn(s) = t
      BY <1>1, <2>1, Zenon
    <2>3. t \in [groups : S, a : Nat \ {0}, b : Nat \ {0}, defined : BOOLEAN]
      BY <1>2
    <2>4. t.groups = s.groups /\ t.a = s.a + 1 /\ t.b = s.a + 2 /\ t.defined = s.defined
      OBVIOUS
    <2> HIDE DEF t
    <2> QED BY <1>5, <2>2, <2>3, <2>4, Zenon DEF Turns, Run, S
  <1>6. CASE ~Ended(s) /\ s.b <= Len(s.groups) /\ ~Nested(s.groups[s.a], s.groups[s.b])
    <2> DEFINE t == [groups |-> s.groups, a |-> s.a, b |-> s.b + 1, defined |-> s.defined]
    <2>1. Turn(s) = [s EXCEPT !.b = @ + 1]
      <3>1. ~(s.b > Len(s.groups))
        BY <1>2, <1>6
      <3> QED BY <1>6, <3>1 DEF Turn
    <2> HIDE DEF S
    <2>2. Turn(s) = t
      BY <1>1, <2>1
    <2>3. t \in [groups : S, a : Nat \ {0}, b : Nat \ {0}, defined : BOOLEAN]
      BY <1>2
    <2>4. t.groups = s.groups /\ t.a = s.a /\ t.b = s.b + 1 /\ t.defined = s.defined
      OBVIOUS
    <2> HIDE DEF t
    <2> QED BY <1>6, <2>2, <2>3, <2>4, Zenon DEF Turns, Run, S
  <1>7. CASE ~Ended(s) /\ s.b <= Len(s.groups) /\ Nested(s.groups[s.a], s.groups[s.b])
    <2> DEFINE t == [groups |-> merged, a |-> s.a, b |-> s.b + 1, defined |-> d]
    <2>1. Turn(s) = [s EXCEPT !.groups = merged, !.b = @ + 1, !.defined = d]
      <3>1. ~(s.b > Len(s.groups))
        BY <1>2, <1>7
      <3> QED BY <1>7, <3>1 DEF Turn, Merged
    <2>2. merged \in S
      <3>1. s.a \in 1..Len(s.groups) /\ s.b \in 1..Len(s.groups)
        BY <1>2, <1>3, <1>7
      <3> QED BY <1>2, <3>1, MergedGroups, Zenon
    <2>3. d \in BOOLEAN
      <3>1. Len(merged) \in Nat
        <4> HIDE DEF merged
        <4> QED BY <2>2
      <3> HIDE DEF merged
      <3> QED BY <1>2, <3>1
    <2> HIDE DEF S, merged, d
    <2>4. Turn(s) = t
      BY <1>1, <2>1, Zenon
    <2>5. t \in [groups : S, a : Nat \ {0}, b : Nat \ {0}, defined : BOOLEAN]
      BY <1>2, <2>2, <2>3
    <2>6. t.groups = merged /\ t.a = s.a /\ t.b = s.b + 1 /\ t.defined = d
      OBVIOUS
    <2> HIDE DEF t
    <2> QED BY <1>7, <2>4, <2>5, <2>6, Zenon DEF Turns, Run, S, d, merged
  <1>8. s.b > Len(s.groups) \/ s.b <= Len(s.groups)
    BY <1>2
  <1> QED BY <1>4, <1>5, <1>6, <1>7, <1>8, Zenon

(* What is true of the groups before and after every turn, and how many    *)
(* turns the iterators allow for a list that had L groups                  *)
Looping(s, E, who) == Grouped(s.groups, E, who) /\ s.a < s.b

Budget(a, b, L) == (a - 1) * L + ((b - a) - 1)

Progress(s, i, L) ==
    /\ Len(s.groups) <= L /\ s.a < s.b
    /\ Ended(s) \/ (s.b <= Len(s.groups) + 1 /\ i <= Budget(s.a, s.b, L))

LEMMA Budgets ==
    ASSUME NEW a \in Nat, NEW b \in Nat, NEW L \in Nat, a # 0
    PROVE  /\ Budget(a, b, L) \in Int /\ Budget(a + 1, a + 2, L) \in Int
           /\ Budget(a, b + 1, L) = Budget(a, b, L) + 1
           /\ b <= L + 1 => Budget(a, b, L) + 1 <= Budget(a + 1, a + 2, L)
           /\ Budget(1, 2, L) = 0
           /\ a <= L /\ b <= L + 1 => Budget(a, b, L) < L * L
  <1> DEFINE P == (a - 1) * L
             Q == (L - 1) * L
  <1>1. P \in Int /\ Q \in Int /\ ((a + 1) - 1) * L = P + L /\ L * L = Q + L
    OBVIOUS
  <1>2. a <= L => P <= Q
    OBVIOUS
  <1>3. (1 - 1) * L = 0
    OBVIOUS
  <1>4. /\ Budget(a, b, L) = P + ((b - a) - 1)
        /\ Budget(a, b + 1, L) = P + (((b + 1) - a) - 1)
        /\ Budget(a + 1, a + 2, L) = (P + L) + (((a + 2) - (a + 1)) - 1)
    BY <1>1 DEF Budget
  <1>5. Budget(1, 2, L) = 0
    BY <1>3 DEF Budget
  <1> HIDE DEF P, Q
  <1> QED BY <1>1, <1>2, <1>4, <1>5

LEMMA RunType ==
    ASSUME NEW n, NEW B, NEW s \in Run(n, B)
    PROVE  /\ s.groups \in Seq(Group(n, B)) /\ Len(s.groups) \in Nat
           /\ s.a \in Nat /\ s.a # 0 /\ s.b \in Nat /\ s.b # 0 /\ s.defined \in BOOLEAN
  <1> DEFINE S == Seq(Group(n, B))
  <1>1. s \in [groups : S, a : Nat \ {0}, b : Nat \ {0}, defined : BOOLEAN]
    BY DEF Run
  <1> HIDE DEF S
  <1>2. s.groups \in S /\ s.a \in Nat \ {0} /\ s.b \in Nat \ {0} /\ s.defined \in BOOLEAN
    BY <1>1
  <1>3. Len(s.groups) \in Nat
    BY <1>2 DEF S
  <1> QED BY <1>2, <1>3 DEF S

LEMMA TurnKeeps ==
    ASSUME NEW n, NEW B, NEW s \in Run(n, B), NEW E, NEW who, Looping(s, E, who)
    PROVE  Looping(Turn(s), E, who)
  <1> DEFINE t == Turn(s)
  <1>1. Turns(s, t)
    BY TurnCases, Zenon
  <1> HIDE DEF t
  <1>2. /\ s.groups \in Seq(Group(n, B)) /\ Len(s.groups) \in Nat
        /\ s.a \in Nat /\ s.a # 0 /\ s.b \in Nat /\ s.b # 0
    BY RunType, Zenon
  <1>3. Grouped(s.groups, E, who) /\ s.a < s.b
    BY Zenon DEF Looping
  <1>4. CASE t = s
    BY <1>3, <1>4, Zenon DEF Looping, t
  <1>5. CASE t.groups = s.groups /\ t.a = s.a + 1 /\ t.b = s.a + 2
    <2>1. t.a < t.b
      BY <1>2, <1>5
    <2> QED BY <1>3, <1>5, <2>1, Zenon DEF Looping, t
  <1>6. CASE t.groups = s.groups /\ t.a = s.a /\ t.b = s.b + 1
    <2>1. t.a < t.b
      BY <1>2, <1>3, <1>6
    <2> QED BY <1>3, <1>6, <2>1, Zenon DEF Looping, t
  <1>7. CASE /\ s.b <= Len(s.groups) /\ Nested(s.groups[s.a], s.groups[s.b])
             /\ t.groups = Merged(s.groups, s.a, s.b) /\ t.a = s.a /\ t.b = s.b + 1
    <2>1. t.a < t.b /\ s.a \in 1..Len(s.groups) /\ s.b \in 1..Len(s.groups) /\ s.a # s.b
      BY <1>2, <1>3, <1>7
    <2>2. Grouped(t.groups, E, who)
      BY <1>2, <1>3, <1>7, <2>1, MergedKeeps, Zenon
    <2> QED BY <2>1, <2>2, Zenon DEF Looping, t
  <1> QED BY <1>1, <1>4, <1>5, <1>6, <1>7, Zenon DEF Turns

LEMMA TurnProgress ==
    ASSUME NEW n, NEW B, NEW s \in Run(n, B), NEW L \in Nat, NEW i \in Nat, Progress(s, i, L)
    PROVE  Progress(Turn(s), i + 1, L)
  <1> DEFINE t == Turn(s)
  <1>1. Turns(s, t) /\ t \in Run(n, B)
    BY TurnCases, Zenon
  <1> HIDE DEF t
  <1>2. /\ s.groups \in Seq(Group(n, B)) /\ Len(s.groups) \in Nat
        /\ s.a \in Nat /\ s.a # 0 /\ s.b \in Nat /\ s.b # 0
    BY RunType, Zenon
  <1>3. Len(s.groups) <= L /\ s.a < s.b
    BY Zenon DEF Progress
  <1>4. /\ Len(t.groups) \in Nat
        /\ Ended(t) <=> ~t.defined \/ t.a > Len(t.groups)
        /\ ~Ended(s) => s.a <= Len(s.groups)
    <2>1. Len(t.groups) \in Nat
      BY <1>1, RunType, Zenon
    <2> QED BY <1>2, <2>1 DEF Ended
  <1>5. /\ Budget(s.a, s.b, L) \in Int /\ Budget(s.a + 1, s.a + 2, L) \in Int
        /\ Budget(s.a, s.b + 1, L) = Budget(s.a, s.b, L) + 1
        /\ s.b <= L + 1 => Budget(s.a, s.b, L) + 1 <= Budget(s.a + 1, s.a + 2, L)
    BY <1>2, Budgets, ZenonT(30)
  <1>6. CASE Ended(s) /\ t = s
    <2>1. Progress(s, i + 1, L)
      BY <1>3, <1>6, Zenon DEF Progress
    <2> QED BY <1>6, <2>1, Zenon DEF t
  <1>7. CASE ~Ended(s)
    <2>1. s.b <= Len(s.groups) + 1 /\ i <= Budget(s.a, s.b, L)
      BY <1>7, Zenon DEF Progress
    <2>2. CASE s.b > Len(s.groups) /\ t.groups = s.groups /\ t.a = s.a + 1 /\ t.b = s.a + 2
      <3>1. Len(t.groups) <= L /\ t.a < t.b
        BY <1>2, <1>3, <2>2
      <3>3. Ended(t) \/ t.b <= Len(t.groups) + 1
        BY <1>2, <1>4, <2>2
      <3>4. i + 1 <= Budget(t.a, t.b, L)
        BY <1>2, <1>3, <1>5, <2>1, <2>2
      <3> QED BY <3>1, <3>3, <3>4, Zenon DEF Progress, t
    <2>3. CASE s.b <= Len(s.groups) /\ t.groups = s.groups /\ t.a = s.a /\ t.b = s.b + 1
      <3>1. Len(t.groups) <= L /\ t.a < t.b /\ t.b <= Len(t.groups) + 1
        BY <1>2, <1>3, <2>3
      <3>4. i + 1 <= Budget(t.a, t.b, L)
        BY <1>2, <1>3, <1>5, <2>1, <2>3
      <3> QED BY <3>1, <3>4, Zenon DEF Progress, t
    <2>4. CASE /\ s.b <= Len(s.groups) /\ Nested(s.groups[s.a], s.groups[s.b])
               /\ t.groups = Merged(s.groups, s.a, s.b) /\ t.a = s.a /\ t.b = s.b + 1
               /\ t.defined = (s.b <= Len(t.groups))
      <3>1. Len(t.groups) = Len(s.groups) - 1
        <4>1. s.a \in 1..Len(s.groups) /\ s.b \in 1..Len(s.groups)
          BY <1>2, <1>4, <1>7, <2>4
        <4>2. Erases(t.groups, s.groups, s.a, s.b)
          BY <1>2, <2>4, <4>1, MergedGroups, Zenon
        <4> QED BY <4>2, Zenon DEF Erases
      <3>2. Len(t.groups) <= L /\ t.a < t.b
        BY <1>2, <1>3, <2>4, <3>1
      <3>4. i + 1 <= Budget(t.a, t.b, L)
        BY <1>2, <1>3, <1>5, <2>1, <2>4
      <3>5. Ended(t) \/ t.b <= Len(t.groups) + 1
        <4>1. Ended(t) \/ s.b <= Len(t.groups)
          BY <1>4, <2>4, Zenon
        <4> QED BY <1>2, <1>4, <2>4, <4>1
      <3> QED BY <3>2, <3>4, <3>5, Zenon DEF Progress, t
    <2> QED BY <1>1, <1>7, <2>2, <2>3, <2>4, Zenon DEF Turns
  <1> QED BY <1>1, <1>6, <1>7, Zenon DEF Turns

(* all[i] is the state of the second loop after i turns.                   *)
Loops(all, initial, n, B) ==
    LET L == Len(initial) * Len(initial)
    IN  /\ all \in [0..L -> Run(n, B)]
        /\ all[0] = [groups |-> initial, a |-> 1, b |-> 2, defined |-> TRUE]
        /\ \A i \in 1..L : all[i] = Turn(all[i - 1])
        /\ MergeNested(initial) = all[L]

LEMMA MergeSteps ==
    ASSUME NEW n, NEW B, NEW initial \in Seq(Group(n, B))
    PROVE  \E all : Loops(all, initial, n, B)
  <1> DEFINE V == Run(n, B)
             L == Len(initial) * Len(initial)
             e == [groups |-> initial, a |-> 1, b |-> 2, defined |-> TRUE]
             Body(h) == [i \in 0..L |-> IF i = 0 THEN e ELSE Turn(h[i - 1])]
             f == CHOOSE h : h = Body(h)
  <1>1. e \in V
    <2> DEFINE S == Seq(Group(n, B))
    <2>1. initial \in S
      OBVIOUS
    <2> HIDE DEF S
    <2>2. e \in [groups : S, a : Nat \ {0}, b : Nat \ {0}, defined : BOOLEAN]
      BY <2>1
    <2> QED BY <2>2 DEF S, Run
  <1>2. \A s \in V : Turn(s) \in V
    BY TurnCases, Zenon
  <1>3. MergeNested(initial) = f[L]
    BY DEF MergeNested
  <1>4. L \in Nat
    OBVIOUS
  <1>5. \A h : /\ Body(h) = [i \in 0..L |-> Body(h)[i]]
               /\ Body(h)[0] = e
               /\ \A i \in 1..L : Body(h)[i] = Turn(h[i - 1])
    <2> HIDE DEF L, e
    <2>1. 0 \in 0..L /\ \A i \in 1..L : i \in 0..L /\ i # 0
      BY <1>4
    <2> QED BY <2>1
  <1> HIDE DEF Body, V, e, L
  <1> DEFINE g == [p \in ((0 + 1)..L) \X V |-> Turn(p[2])]
  <1>6. /\ g \in Steps(0, L, V)
        /\ \A i \in 1..L : \A s \in V : g[<<i, s>>] = Turn(s)
        /\ (0 + 1)..L = 1..L
    BY <1>2, <1>4 DEF Steps
  <1> HIDE DEF g
  <1>7. ASSUME NEW h, Solves(h, 0, L, V, e, g)
        PROVE  Follows(f, 0, L, V, e, g)
    <2>1. h \in [0..L -> V] /\ h[0] = e /\ \A i \in 1..L : h[i] = g[<<i, h[i - 1]>>]
      BY <1>6, <1>7, Zenon DEF Solves
    <2>2. \A i \in 1..L : h[i - 1] \in V
      BY <1>4, <2>1
    <2>3. h = Body(h)
      <3>1. \A i \in 0..L : i = 0 \/ i \in 1..L
        BY <1>4
      <3>2. \A i \in 0..L : h[i] = Body(h)[i]
        BY <1>5, <1>6, <2>1, <2>2, <3>1, ZenonT(30)
      <3>3. h = [i \in 0..L |-> h[i]]
        BY <2>1
      <3> QED BY <1>5, <3>2, <3>3, Zenon
    <2>4. f = Body(f)
      BY <2>3, Zenon
    <2> HIDE DEF f
    <2>5. f = [i \in 0..L |-> f[i]]
      BY <1>5, <2>4, Zenon
    <2>6. f[0] = e
      BY <1>5, <2>4, Zenon
    <2>7. \A i \in 1..L : f[i] = Turn(f[i - 1])
      BY <1>5, <2>4, Zenon
    <2> QED BY <1>6, <2>5, <2>6, <2>7, Zenon DEF Follows
  <1> HIDE DEF f
  <1>8. Solves(f, 0, L, V, e, g)
    <2>1. 0 \in Nat /\ 0 <= L
      BY <1>4
    <2> QED BY <1>1, <1>4, <1>6, <1>7, <2>1, RecursiveFunction, Zenon
  <1>9. f \in [0..L -> V] /\ f[0] = e /\ \A i \in 1..L : f[i] = g[<<i, f[i - 1]>>]
    BY <1>6, <1>8, Zenon DEF Solves
  <1>10. \A i \in 1..L : f[i] = Turn(f[i - 1])
    <2>1. \A i \in 1..L : f[i - 1] \in V
      BY <1>4, <1>9
    <2> QED BY <1>6, <1>9, <2>1, Zenon
  <1> QED BY <1>3, <1>9, <1>10, Zenon DEF V, e, L, Loops

(* The second loop keeps the requests grouped, and has ended by the last   *)
(* of the turns that MergeNested takes.                                    *)
LEMMA MergeGroups ==
    ASSUME NEW n, NEW B, NEW initial \in Seq(Group(n, B)), NEW E, NEW who, Grouped(initial, E, who)
    PROVE  /\ MergeNested(initial) \in Run(n, B)
           /\ Grouped(MergeNested(initial).groups, E, who)
           /\ Ended(MergeNested(initial))
  <1> DEFINE N0 == Len(initial)
             L == N0 * N0
             e == [groups |-> initial, a |-> 1, b |-> 2, defined |-> TRUE]
  <1>1. PICK all : Loops(all, initial, n, B)
    BY MergeSteps, Zenon
  <1>2. /\ all \in [0..L -> Run(n, B)] /\ all[0] = e
        /\ \A i \in 1..L : all[i] = Turn(all[i - 1])
        /\ MergeNested(initial) = all[L]
    BY <1>1, Zenon DEF Loops
  <1>3. N0 \in Nat /\ L \in Nat
    OBVIOUS
  <1>4. e.groups = initial /\ e.a = 1 /\ e.b = 2 /\ e.defined = TRUE
    OBVIOUS
  <1>5. Looping(e, E, who) /\ Progress(e, 0, N0)
    <2>1. e.a < e.b
      BY <1>4
    <2>2. Looping(e, E, who)
      BY <1>4, <2>1, Zenon DEF Looping
    <2>3. Budget(1, 2, N0) = 0
      <3>1. 1 \in Nat /\ 2 \in Nat /\ 1 # 0
        OBVIOUS
      <3> QED BY <1>3, <3>1, Budgets, Zenon
    <2>4. Len(e.groups) <= N0 /\ 0 <= Budget(e.a, e.b, N0)
      BY <1>3, <1>4, <2>3
    <2>5. Ended(e) \/ e.b <= Len(e.groups) + 1
      BY <1>3, <1>4 DEF Ended
    <2> QED BY <2>1, <2>2, <2>4, <2>5, Zenon DEF Progress
  <1> HIDE DEF e, L
  <1> DEFINE K == {i \in 0..L : Looping(all[i], E, who) /\ Progress(all[i], i, N0)}
  <1>6. 0 \in K
    BY <1>2, <1>3, <1>5
  <1>7. ASSUME NEW i \in 0..(L - 1), i \in K PROVE i + 1 \in K
    <2>1. i \in 0..L /\ i + 1 \in 0..L /\ i + 1 \in 1..L /\ (i + 1) - 1 = i /\ i \in Nat
      BY <1>3
    <2>2. all[i] \in Run(n, B) /\ all[i + 1] = Turn(all[i])
      BY <1>2, <2>1
    <2>3. Looping(all[i], E, who) /\ Progress(all[i], i, N0)
      BY <1>7, Zenon
    <2>4. Looping(all[i + 1], E, who)
      BY <2>2, <2>3, TurnKeeps, Zenon
    <2>5. Progress(all[i + 1], i + 1, N0)
      BY <1>3, <2>1, <2>2, <2>3, TurnProgress, Zenon
    <2> QED BY <2>1, <2>4, <2>5, Zenon
  <1>8. L \in 0..L /\ all[L] \in Run(n, B)
    BY <1>2, <1>3
  <1>9. Looping(all[L], E, who) /\ Progress(all[L], L, N0)
    <2> HIDE DEF K
    <2>1. \A i \in 0..L : i \in K
      BY <1>3, <1>6, <1>7, IntervalInduction, Zenon
    <2> QED BY <1>8, <2>1, Zenon DEF K
  <1>10. Ended(all[L])
    <2> SUFFICES ASSUME ~Ended(all[L]) PROVE FALSE
      BY Zenon
    <2> DEFINE s == all[L]
    <2>1. /\ Len(s.groups) \in Nat /\ s.a \in Nat /\ s.a # 0 /\ s.b \in Nat
      BY <1>8, RunType, Zenon
    <2>2. Len(s.groups) <= N0 /\ s.b <= Len(s.groups) + 1 /\ L <= Budget(s.a, s.b, N0)
      BY <1>9, Zenon DEF Progress
    <2>3. s.a <= Len(s.groups)
      BY <2>1 DEF Ended
    <2> HIDE DEF s, N0
    <2>4. s.a <= N0 /\ s.b <= N0 + 1
      BY <1>3, <2>1, <2>2, <2>3
    <2>5. Budget(s.a, s.b, N0) \in Int /\ Budget(s.a, s.b, N0) < N0 * N0
      BY <1>3, <2>1, <2>4, Budgets, Zenon
    <2>6. L = N0 * N0
      BY DEF L
    <2> QED BY <1>3, <2>2, <2>5, <2>6
  <1> QED BY <1>2, <1>8, <1>9, <1>10, Zenon DEF Looping

(* What GenerateSubsets returns                                            *)
LEMMA SubsetsGroups ==
    ASSUME NEW n \in Nat, NEW B, NEW enough \in SUBSET (1..n), NEW who,
           \A i \in 1..n : who[i] \in SUBSET B
    PROVE  /\ Subsets(n, enough, who).groups \in Seq(Group(n, B))
           /\ Grouped(Subsets(n, enough, who).groups, enough, who)
           /\ Ended(Subsets(n, enough, who))
  <1> DEFINE c == Collect(n, enough, who)
             m == MergeNested(c)
  <1>1. c \in Seq(Group(n, B)) /\ Grouped(c, enough, who)
    BY CollectGroups, Zenon
  <1>2. Subsets(n, enough, who) = m
    BY DEF Subsets
  <1> HIDE DEF c
  <1>3. m \in Run(n, B) /\ Grouped(m.groups, enough, who) /\ Ended(m)
    BY <1>1, MergeGroups, Zenon
  <1> HIDE DEF m
  <1>4. m.groups \in Seq(Group(n, B))
    BY <1>3, RunType, Zenon
  <1> QED BY <1>2, <1>3, <1>4, Zenon

LEMMA GroupedCorrect ==
    ASSUME NEW T, NEW groups \in Seq(T), NEW E, NEW who, Grouped(groups, E, who)
    PROVE  /\ UNION {g.requests : g \in Range(groups)} = E
           /\ \A g, h \in DOMAIN groups :
                 groups[g].requests \cap groups[h].requests # {} \/ groups[g].delegates = groups[h].delegates
                     => g = h
           /\ \A g \in Range(groups) : \A r \in g.requests : g.delegates \subseteq who[r]
  <1>1. DOMAIN groups = 1..Len(groups)
    OBVIOUS
  <1>2. \A x : x \in Range(groups) <=> \E i \in 1..Len(groups) : x = groups[i]
    BY <1>1, Zenon DEF Range
  <1>3. UNION {g.requests : g \in Range(groups)} = E
    <2>1. ASSUME NEW e \in UNION {g.requests : g \in Range(groups)} PROVE e \in E
      <3>1. PICK g \in Range(groups) : e \in g.requests
        BY <2>1, Zenon
      <3> QED BY <1>2, <3>1, ZenonT(30) DEF Grouped
    <2>2. ASSUME NEW e \in E PROVE e \in UNION {g.requests : g \in Range(groups)}
      <3>1. PICK i \in 1..Len(groups) : e \in groups[i].requests
        BY <2>2, Zenon DEF Grouped
      <3>2. groups[i] \in Range(groups)
        BY <1>2, <3>1, Zenon
      <3> QED BY <3>1, <3>2, Zenon
    <2> QED BY <2>1, <2>2, Zenon
  <1>4. \A g, h \in DOMAIN groups :
           groups[g].requests \cap groups[h].requests # {} \/ groups[g].delegates = groups[h].delegates
               => g = h
    BY <1>1, Zenon DEF Grouped
  <1>5. \A g \in Range(groups) : \A r \in g.requests : g.delegates \subseteq who[r]
    <2> SUFFICES ASSUME NEW g \in Range(groups), NEW r \in g.requests PROVE g.delegates \subseteq who[r]
      OBVIOUS
    <2>1. PICK i \in 1..Len(groups) : g = groups[i]
      BY <1>2, Zenon
    <2>2. r \in groups[i].requests
      BY <2>1, Zenon
    <2>3. groups[i].delegates \subseteq who[r]
      BY <2>2, Zenon DEF Grouped
    <2> QED BY <2>1, <2>3, Zenon
  <1> QED BY <1>3, <1>4, <1>5
=============================================================================
