---------------------------- MODULE Limits_proofs ----------------------------
(***************************************************************************)
(* Proofs about the rate limiters of Presence, for any limit, window and     *)
(* clock: that at most Limit timestamps are kept, how many messages a window *)
(* may have that were let through, and that nobody is refused before that.   *)
(*                                                                           *)
(* What the recursive After computes is shown with the least counterexample  *)
(* of a set of naturals, which the library gives without an operator         *)
(* parameter (WFMin).                                                        *)
(***************************************************************************)
EXTENDS Presence_proofs, WellFoundedInduction, FiniteSetTheorems

Ascending(s) == \A i, j \in DOMAIN s : i =< j => s[i] =< s[j]

(* s without its first m elements. *)
Suffix(s, m) == [j \in 1..(Len(s) - m) |-> s[m + j]]

(* What a limiter keeps at time t of the messages p that it let through, b of  *)
(* them before it was last cleared: the last ones, and all since then that are *)
(* in the window.                                                              *)
Keeps(h, p, b, t) ==
  /\ p \in Seq(0..t) /\ Ascending(p) /\ b \in 0..Len(p)
  /\ Len(h) =< Limit
  /\ \E n \in 0..Len(p) :
       b =< n /\ h = Suffix(p, n) /\ \A i \in (b + 1)..n : p[i] =< t - Window

(* The first b messages, or those after them, in the window that begins at    *)
(* start, and how often the limiter was cleared in it, k being the times.     *)
Before(p, b, start) == {i \in 1..b : p[i] \in start..(start + Window - 1)}
Since(p, b, start)  == {i \in (b + 1)..Len(p) : p[i] \in start..(start + Window - 1)}
Clears(k, start)    == Cardinality(InWindow(k, start))

(* A window that is not over: each clear in it accounts for Limit messages.    *)
Accounted(p, b, k, t) ==
  \A start \in 0..t :
    start > t - Window => Cardinality(Before(p, b, start)) =< Limit * Clears(k, start)

Bounded(p, k, t) ==
  \A start \in 0..t : Cardinality(InWindow(p, start)) =< Limit * (1 + Clears(k, start))

Counts(h, p, k, t) ==
  /\ k \in Seq(0..t)
  /\ Bounded(p, k, t)
  /\ \E b \in Nat : Keeps(h, p, b, t) /\ Accounted(p, b, k, t)

LimitersCount ==
  /\ hits \in [Limiters -> [Users -> Seq(Nat)]]
  /\ passed \in [Limiters -> [Users -> Seq(Nat)]]
  /\ cleared \in [Users -> Seq(Nat)]
  /\ \A l \in Limiters, u \in Users : Counts(hits[l][u], passed[l][u], cleared[u], now)

----------------------------------------------------------------------------
(* A set of naturals that is not empty has a least element. *)
LEMMA LeastNat ==
  ASSUME NEW T, T \subseteq Nat, T # {}
  PROVE  \E m \in T : \A k \in T : m =< k
<1> DEFINE Less == {ss \in Nat \X Nat : ss[1] < ss[2]}
<1>1. OpToRel(<, Nat) = Less
  BY Zenon DEF OpToRel
<1>2. IsWellFoundedOn(Less, Nat)
  BY <1>1, NatLessThanWellFounded, Zenon
<1> HIDE DEF Less
<1>3. \E x \in T : \A y \in T : ~ (<<y, x>> \in Less)
  BY <1>2, WFMin, Zenon
<1>4. PICK x \in T : \A y \in T : ~ (<<y, x>> \in Less)
  BY <1>3
<1>5. ASSUME NEW y \in T PROVE x =< y
  <2>1. x \in Nat /\ y \in Nat /\ <<y, x>> \notin Less
    BY <1>4
  <2>2. ~ (y < x)
    BY <2>1 DEF Less
  <2> QED BY <2>1, <2>2
<1> QED BY <1>5

(* f is the function that After defines. *)
Filters(f, s, w) ==
  f = [i \in 0..Len(s) |->
         IF i = 0 THEN <<>> ELSE IF s[i] > w THEN Append(f[i - 1], s[i]) ELSE f[i - 1]]

(* If there is such a function After takes its last value ... *)
LEMMA AfterFilters ==
  ASSUME NEW s, NEW w, NEW g, Filters(g, s, w)
  PROVE  \E f : Filters(f, s, w) /\ After(s, w) = f[Len(s)]
<1> DEFINE f == CHOOSE h : Filters(h, s, w)
<1>1. Filters(f, s, w)
  BY Zenon
<1>2. After(s, w) = f[Len(s)]
  BY Zenon DEF After, Filters
<1> QED BY <1>1, <1>2, Zenon

(* ... and there is one at most. *)
LEMMA FiltersUnique ==
  ASSUME NEW s \in Seq(Int), NEW w \in Int, NEW f, NEW g, Filters(f, s, w), Filters(g, s, w)
  PROVE  f[Len(s)] = g[Len(s)]
<1> DEFINE T == {i \in 0..Len(s) : f[i] # g[i]}
<1>0. Len(s) \in Nat
  OBVIOUS
<1>1. SUFFICES ASSUME T # {} PROVE FALSE
  BY <1>0
<1>2. PICK m \in T : \A k \in T : m =< k
  <2>1. T \subseteq Nat
    BY <1>0
  <2> HIDE DEF T
  <2> QED BY <1>1, <2>1, LeastNat
<1>3. m \in 0..Len(s) /\ f[m] # g[m]
  OBVIOUS
<1>4. m # 0
  BY <1>0, <1>3 DEF Filters
<1>5. f[m - 1] = g[m - 1]
  BY <1>0, <1>2, <1>3, <1>4
<1>6. /\ f[m] = IF s[m] > w THEN Append(f[m - 1], s[m]) ELSE f[m - 1]
      /\ g[m] = IF s[m] > w THEN Append(g[m - 1], s[m]) ELSE g[m - 1]
  BY <1>0, <1>3, <1>4 DEF Filters
<1> QED BY <1>3, <1>5, <1>6

(* Of timestamps in order After keeps a suffix, those later than w. *)
LEMMA AfterAscending ==
  ASSUME NEW s \in Seq(Int), Ascending(s), NEW w \in Int
  PROVE  \E m \in 0..Len(s) :
           /\ After(s, w) = Suffix(s, m)
           /\ \A i \in 1..m : s[i] =< w
           /\ \A i \in (m + 1)..Len(s) : s[i] > w
<1> DEFINE T == {j \in 0..Len(s) : \A i \in (j + 1)..Len(s) : s[i] > w}
<1>0. Len(s) \in Nat /\ DOMAIN s = 1..Len(s) /\ \A i \in 1..Len(s) : s[i] \in Int
  OBVIOUS
<1>1. Len(s) \in T
  BY <1>0
<1>2. PICK m \in T : \A k \in T : m =< k
  <2>1. T \subseteq Nat /\ T # {}
    BY <1>0, <1>1
  <2> HIDE DEF T
  <2> QED BY <2>1, LeastNat
<1>3. m \in 0..Len(s) /\ \A i \in (m + 1)..Len(s) : s[i] > w
  OBVIOUS
<1>4. \A i \in 1..m : s[i] =< w
  <2>1. CASE m = 0
    BY <2>1
  <2>2. CASE m # 0
    <3>1. m - 1 \notin T
      <4> HIDE DEF T
      <4> QED BY <1>0, <1>2, <1>3, <2>2
    <3>2. s[m] =< w
      BY <1>0, <1>3, <2>2, <3>1
    <3> QED BY <1>0, <1>3, <3>2 DEF Ascending
  <2> QED BY <2>1, <2>2
<1> HIDE DEF T
<1> DEFINE g == [i \in 0..Len(s) |-> IF i =< m THEN <<>> ELSE [j \in 1..(i - m) |-> s[m + j]]]
<1>5. Filters(g, s, w)
  <2> SUFFICES ASSUME NEW i \in 0..Len(s)
               PROVE  g[i] = IF i = 0 THEN <<>> ELSE IF s[i] > w THEN Append(g[i - 1], s[i]) ELSE g[i - 1]
    BY Zenon DEF Filters
  <2>1. CASE i =< m
    BY <1>0, <1>3, <1>4, <2>1
  <2>2. CASE i = m + 1
    <3>1. g[i - 1] = <<>> /\ s[i] > w /\ i # 0
      BY <1>0, <1>3, <2>2
    <3>2. g[i] = [j \in 1..1 |-> s[m + j]]
      BY <1>0, <1>3, <2>2
    <3>3. Append(<<>>, s[i]) = [j \in 1..1 |-> s[m + j]]
      BY <1>0, <1>3, <2>2
    <3> QED BY <3>1, <3>2, <3>3
  <2>3. CASE i > m + 1
    <3> DEFINE q == [j \in 1..(i - 1 - m) |-> s[m + j]]
    <3>1. g[i - 1] = q /\ s[i] > w /\ i # 0
      BY <1>0, <1>3, <2>3
    <3>2. g[i] = [j \in 1..(i - m) |-> s[m + j]]
      BY <1>0, <1>3, <2>3
    <3>3. q \in Seq(Int) /\ Len(q) = i - 1 - m
      BY <1>0, <1>3, <2>3
    <3>4. Append(q, s[i]) = [j \in 1..(i - m) |-> s[m + j]]
      BY <1>0, <1>3, <2>3, <3>3
    <3> QED BY <3>1, <3>2, <3>4
  <2> QED BY <1>0, <1>3, <2>1, <2>2, <2>3
<1>6. After(s, w) = g[Len(s)]
  BY <1>5, AfterFilters, FiltersUnique
<1>7. g[Len(s)] = Suffix(s, m)
  BY <1>0, <1>3 DEF Suffix
<1> QED BY <1>3, <1>4, <1>6, <1>7
----------------------------------------------------------------------------
LEMMA AppendFacts ==
  ASSUME NEW S, NEW s \in Seq(S), NEW x \in S
  PROVE  /\ Append(s, x) \in Seq(S) /\ Len(Append(s, x)) = Len(s) + 1
         /\ \A i \in 1..Len(s) : Append(s, x)[i] = s[i] /\ s[i] \in S
         /\ Append(s, x)[Len(s) + 1] = x
OBVIOUS

LEMMA SequenceIs ==
  ASSUME NEW S, NEW s \in Seq(S)
  PROVE  Len(s) \in Nat /\ DOMAIN s = 1..Len(s) /\ s = [j \in 1..Len(s) |-> s[j]]
OBVIOUS

(* A suffix of a suffix is one, and so is one with an element more. *)
LEMMA SuffixFacts ==
  ASSUME NEW S, NEW p \in Seq(S), NEW n \in 0..Len(p)
  PROVE  /\ Suffix(p, n) \in Seq(S) /\ Len(Suffix(p, n)) = Len(p) - n
         /\ \A m \in 0..(Len(p) - n) : Suffix(Suffix(p, n), m) = Suffix(p, n + m)
         /\ \A x \in S : Append(Suffix(p, n), x) = Suffix(Append(p, x), n)
<1> DEFINE k == Len(p)
           q == Suffix(p, n)
<1>0. k \in Nat /\ n \in 0..k /\ \A i \in 1..k : p[i] \in S
  OBVIOUS
<1>1. q \in Seq(S) /\ Len(q) = k - n /\ \A j \in 1..(k - n) : q[j] = p[n + j]
  BY <1>0 DEF Suffix
<1>2. ASSUME NEW m \in 0..(k - n) PROVE Suffix(q, m) = Suffix(p, n + m)
  <2> HIDE DEF q
  <2>1. \A j \in 1..(k - n - m) : q[m + j] = p[(n + m) + j]
    <3> TAKE j \in 1..(k - n - m)
    <3>1. m + j \in 1..(k - n) /\ n + (m + j) = (n + m) + j
      BY <1>0
    <3> QED BY <1>1, <3>1
  <2>2. (k - n) - m = k - n - m /\ k - (n + m) = k - n - m
    BY <1>0
  <2> QED BY <1>0, <1>1, <2>1, <2>2 DEF Suffix
<1>3. ASSUME NEW x \in S PROVE Append(q, x) = Suffix(Append(p, x), n)
  <2>1. /\ Append(p, x) \in Seq(S) /\ Len(Append(p, x)) = k + 1
        /\ \A i \in 1..k : Append(p, x)[i] = p[i]
        /\ Append(p, x)[k + 1] = x
    BY <1>0
  <2>2. /\ Append(q, x) \in Seq(S) /\ Len(Append(q, x)) = k + 1 - n
        /\ \A i \in 1..(k - n) : Append(q, x)[i] = q[i]
        /\ Append(q, x)[k - n + 1] = x
    BY <1>0, <1>1
  <2>3. /\ Suffix(Append(p, x), n) = [j \in 1..(k + 1 - n) |-> Append(p, x)[n + j]]
    BY <2>1 DEF Suffix
  <2>4. \A j \in 1..(k + 1 - n) : Append(q, x)[j] = Append(p, x)[n + j]
    <3> TAKE j \in 1..(k + 1 - n)
    <3>1. CASE j = k - n + 1
      <4>1. n + j = k + 1
        BY <1>0, <3>1
      <4> QED BY <2>1, <2>2, <3>1, <4>1
    <3>2. CASE j \in 1..(k - n)
      <4>1. n + j \in 1..k
        BY <1>0, <3>2
      <4> QED BY <1>1, <2>1, <2>2, <3>2, <4>1
    <3>3. j = k - n + 1 \/ j \in 1..(k - n)
      <4> HIDE DEF k
      <4> QED BY <1>0
    <3> QED BY <3>1, <3>2, <3>3
  <2>5. Append(q, x) = [j \in 1..(k + 1 - n) |-> Append(q, x)[j]]
    <3> DEFINE aq == Append(q, x)
    <3>1. aq \in Seq(S) /\ Len(aq) = k + 1 - n
      BY <2>2
    <3> HIDE DEF aq
    <3>2. aq = [j \in 1..(k + 1 - n) |-> aq[j]]
      BY <3>1, SequenceIs
    <3> QED BY <3>2 DEF aq
  <2> QED BY <2>3, <2>4, <2>5
<1> QED BY <1>1, <1>2, <1>3

LEMMA SuffixAscends ==
  ASSUME NEW t \in Nat, NEW p \in Seq(0..t), Ascending(p), NEW n \in 0..Len(p)
  PROVE  Suffix(p, n) \in Seq(Int) /\ Ascending(Suffix(p, n))
<1>1. /\ Len(p) \in Nat /\ DOMAIN p = 1..Len(p) /\ p \in Seq(Int)
  OBVIOUS
<1>2. /\ DOMAIN Suffix(p, n) = 1..(Len(p) - n)
      /\ \A j \in 1..(Len(p) - n) : Suffix(p, n)[j] = p[n + j] /\ n + j \in 1..Len(p)
  BY <1>1 DEF Suffix
<1>3. Ascending(Suffix(p, n))
  <2> SUFFICES ASSUME NEW i \in 1..(Len(p) - n), NEW j \in 1..(Len(p) - n), i =< j
               PROVE  Suffix(p, n)[i] =< Suffix(p, n)[j]
    BY <1>2 DEF Ascending
  <2>1. n + i \in DOMAIN p /\ n + j \in DOMAIN p /\ n + i =< n + j
    BY <1>1, <1>2
  <2>2. p[n + i] =< p[n + j]
    BY <2>1 DEF Ascending
  <2> QED BY <1>2, <2>2
<1> QED BY <1>1, <1>3, SuffixFacts

LEMMA KeptTypes ==
  ASSUME NEW t \in Nat, NEW h, NEW p, NEW b, Keeps(h, p, b, t)
  PROVE  h \in Seq(0..t) /\ h \in Seq(Nat) /\ p \in Seq(Nat) /\ Len(h) =< Limit
<1>1. PICK n \in 0..Len(p) : h = Suffix(p, n)
  BY DEF Keeps
<1>2. p \in Seq(0..t) /\ Len(h) =< Limit
  BY DEF Keeps
<1>3. h \in Seq(0..t)
  BY <1>1, <1>2, SuffixFacts
<1>4. \A s \in Seq(0..t) : s \in Seq(Nat)
  OBVIOUS
<1> QED BY <1>2, <1>3, <1>4

(* The timestamps that count are the last messages let through. *)
LEMMA RecentKeeps ==
  ASSUME NEW t \in Nat, NEW h, NEW p, NEW b, Keeps(h, p, b, t)
  PROVE  /\ Keeps(Recent(h, t), p, b, t)
         /\ Len(h) \in Nat /\ Len(Recent(h, t)) \in Nat
         /\ \E k \in 0..Len(p) : /\ Len(Recent(h, t)) = Len(p) - k
                                /\ \A i \in (k + 1)..Len(p) : p[i] > t - Window
<1>0. p \in Seq(0..t) /\ Ascending(p) /\ Len(p) \in Nat /\ p \in Seq(Int)
      /\ t - Window \in Int /\ b \in 0..Len(p)
  BY LimiterAssumption DEF Keeps
<1>1. PICK n \in 0..Len(p) :
        b =< n /\ h = Suffix(p, n) /\ \A i \in (b + 1)..n : p[i] =< t - Window
  BY DEF Keeps
<1>2. h \in Seq(Int) /\ Ascending(h) /\ Len(h) = Len(p) - n
  BY <1>0, <1>1, SuffixAscends, SuffixFacts
<1>3. PICK m \in 0..Len(h) : /\ After(h, t - Window) = Suffix(h, m)
                             /\ \A i \in 1..m : h[i] =< t - Window
                             /\ \A i \in (m + 1)..Len(h) : h[i] > t - Window
  BY <1>0, <1>2, AfterAscending
<1>4. Recent(h, t) = Suffix(p, n + m) /\ n + m \in 0..Len(p)
  BY <1>0, <1>1, <1>2, <1>3, SuffixFacts DEF Recent
<1>5. Len(Recent(h, t)) = Len(p) - (n + m)
  BY <1>0, <1>4, SuffixFacts
<1>6. b =< n + m /\ \A i \in (b + 1)..(n + m) : p[i] =< t - Window
  <2>0. b =< n + m
    BY <1>0, <1>1, <1>2, <1>3
  <2> SUFFICES ASSUME NEW i \in (b + 1)..(n + m) PROVE p[i] =< t - Window
    BY <2>0
  <2>1. CASE i \in (b + 1)..n
    BY <1>1, <2>1
  <2>2. CASE i \in (n + 1)..(n + m)
    <3>1. i - n \in 1..m /\ i - n \in 1..(Len(p) - n) /\ n + (i - n) = i
      BY <1>0, <1>2, <1>3, <2>2
    <3>2. h[i - n] = p[i]
      BY <1>1, <3>1 DEF Suffix
    <3> QED BY <1>3, <3>1, <3>2
  <2> QED BY <1>0, <1>2, <2>1, <2>2
<1>7. Len(Recent(h, t)) =< Limit
  BY <1>0, <1>2, <1>4, <1>5, LimiterAssumption DEF Keeps
<1>8. \A i \in ((n + m) + 1)..Len(p) : p[i] > t - Window
  <2> TAKE i \in ((n + m) + 1)..Len(p)
  <2>1. i - n \in (m + 1)..Len(h) /\ i - n \in 1..(Len(p) - n) /\ n + (i - n) = i
    BY <1>0, <1>2, <1>3
  <2>2. h[i - n] = p[i]
    BY <1>1, <2>1 DEF Suffix
  <2> QED BY <1>3, <2>1, <2>2
<1>9. Keeps(Recent(h, t), p, b, t)
  BY <1>0, <1>4, <1>6, <1>7 DEF Keeps
<1>10. Len(h) \in Nat /\ Len(Recent(h, t)) \in Nat
  BY <1>0, <1>2, <1>4, <1>5
<1>11. \E k \in 0..Len(p) : /\ Len(Recent(h, t)) = Len(p) - k
                            /\ \A i \in (k + 1)..Len(p) : p[i] > t - Window
  BY <1>4, <1>5, <1>8, Zenon
<1> QED BY <1>9, <1>10, <1>11

LEMMA IntervalSize ==
  ASSUME NEW b \in Nat, NEW n \in 0..b
  PROVE  IsFiniteSet((n + 1)..b) /\ Cardinality((n + 1)..b) = b - n
<1> DEFINE a == n + 1
<1>1. a \in Int /\ b \in Int /\ (IF a > b THEN 0 ELSE b - a + 1) = b - n
  OBVIOUS
<1> HIDE DEF a
<1>2. IsFiniteSet(a..b) /\ Cardinality(a..b) = b - n
  BY <1>1, FS_Interval
<1> QED BY <1>2 DEF a

(* Every timestamp that counts is of a message let through in the window. *)
LEMMA RecentWerePassed ==
  ASSUME NEW t \in Nat, NEW h, NEW p, NEW b, Keeps(h, p, b, t)
  PROVE  /\ Cardinality({i \in DOMAIN p : p[i] > t - Window}) \in Nat
         /\ Cardinality({i \in DOMAIN p : p[i] > t - Window}) >= Len(Recent(h, t))
<1> DEFINE W == {i \in DOMAIN p : p[i] > t - Window}
<1>1. p \in Seq(0..t) /\ Len(p) \in Nat /\ DOMAIN p = 1..Len(p)
  BY DEF Keeps
<1>2. PICK k \in 0..Len(p) : /\ Len(Recent(h, t)) = Len(p) - k
                             /\ \A i \in (k + 1)..Len(p) : p[i] > t - Window
  BY RecentKeeps
<1>3. (k + 1)..Len(p) \subseteq W /\ W \subseteq 1..Len(p)
  BY <1>1, <1>2
<1>4. IsFiniteSet(1..Len(p)) /\ Cardinality((k + 1)..Len(p)) = Len(p) - k
  BY <1>1, <1>2, 1 \in Int, FS_Interval, IntervalSize
<1> HIDE DEF W
<1>5. IsFiniteSet(W)
  BY <1>3, <1>4, FS_Subset
<1>6. Cardinality((k + 1)..Len(p)) =< Cardinality(W)
  BY <1>3, <1>5, FS_Subset
<1>7. Cardinality(W) \in Nat
  BY <1>5, FS_CardinalityType
<1>8. Cardinality(W) >= Len(Recent(h, t))
  BY <1>1, <1>2, <1>4, <1>6, <1>7
<1> QED BY <1>7, <1>8 DEF W

(* The moments in a window can be counted. *)
LEMMA WindowFinite ==
  ASSUME NEW S, NEW k \in Seq(S), NEW start
  PROVE  IsFiniteSet(InWindow(k, start)) /\ Clears(k, start) \in Nat
<1>1. Len(k) \in Int /\ InWindow(k, start) \subseteq 1..Len(k)
  BY SequenceIs DEF InWindow
<1>2. IsFiniteSet(1..Len(k))
  BY <1>1, 1 \in Int, FS_Interval
<1> QED BY <1>1, <1>2, FS_Subset, FS_CardinalityType DEF Clears

(* One more clear accounts for Limit more messages. *)
LEMMA OneMore ==
  ASSUME NEW c \in Nat
  PROVE  /\ Limit * c \in Nat /\ Limit * (1 + c) \in Nat
         /\ Limit * (1 + c) = Limit * c + Limit
BY LimiterAssumption

(* A window that is not over holds no more messages since the last clear than *)
(* are kept.                                                                  *)
LEMMA KeptBoundWindow ==
  ASSUME NEW t \in Nat, NEW h, NEW p, NEW b, Keeps(h, p, b, t),
         NEW start \in 0..t, start > t - Window
  PROVE  IsFiniteSet(Since(p, b, start)) /\ Cardinality(Since(p, b, start)) =< Limit
<1>0. /\ p \in Seq(0..t) /\ Len(p) \in Nat /\ b \in 0..Len(p)
      /\ \A i \in 1..Len(p) : p[i] \in Nat
  BY DEF Keeps
<1>1. PICK n \in 0..Len(p) : h = Suffix(p, n) /\ \A i \in (b + 1)..n : p[i] =< t - Window
  BY DEF Keeps
<1>2. Since(p, b, start) \subseteq (n + 1)..Len(p)
  <2> SUFFICES ASSUME NEW i \in (b + 1)..Len(p), p[i] \in start..(start + Window - 1), i =< n
               PROVE  FALSE
    BY <1>0 DEF Since
  <2>1. p[i] =< t - Window /\ p[i] >= start
    BY <1>0, <1>1, LimiterAssumption
  <2> QED BY <1>0, <2>1, LimiterAssumption
<1>3. IsFiniteSet((n + 1)..Len(p)) /\ Cardinality((n + 1)..Len(p)) = Len(p) - n
  BY <1>0, <1>1, IntervalSize
<1>4. IsFiniteSet(Since(p, b, start)) /\ Cardinality(Since(p, b, start)) =< Len(p) - n
  BY <1>2, <1>3, FS_Subset
<1>5. Len(h) = Len(p) - n /\ Len(h) =< Limit
  BY <1>0, <1>1, SuffixFacts DEF Keeps
<1>6. Cardinality(Since(p, b, start)) \in Nat
  BY <1>4, FS_CardinalityType
<1> QED BY <1>0, <1>4, <1>5, <1>6, LimiterAssumption

(* So it holds Limit messages at most, and Limit more for every clear. *)
LEMMA OpenWindow ==
  ASSUME NEW t \in Nat, NEW h, NEW p, NEW b, NEW k \in Seq(0..t), Keeps(h, p, b, t),
         Accounted(p, b, k, t), NEW start \in 0..t, start > t - Window
  PROVE  Cardinality(InWindow(p, start)) =< Limit * (1 + Clears(k, start))
<1> DEFINE B == Before(p, b, start)
           A == Since(p, b, start)
<1>1. p \in Seq(0..t) /\ Len(p) \in Nat /\ DOMAIN p = 1..Len(p) /\ b \in 0..Len(p)
  BY DEF Keeps
<1>2. InWindow(p, start) = B \cup A
  BY <1>1 DEF InWindow, Before, Since
<1>3. IsFiniteSet(A) /\ Cardinality(A) =< Limit
  BY KeptBoundWindow
<1>4. B \subseteq InWindow(p, start)
  BY <1>2
<1> HIDE DEF A, B
<1>5. IsFiniteSet(B)
  BY <1>1, <1>4, WindowFinite, FS_Subset
<1>6. /\ Cardinality(A) \in Nat /\ Cardinality(B) \in Nat /\ Cardinality(B \cap A) \in Nat
      /\ Cardinality(B \cup A) = Cardinality(B) + Cardinality(A) - Cardinality(B \cap A)
  <2>1. IsFiniteSet(B \cap A)
    BY <1>5, FS_Intersection
  <2> QED BY <1>3, <1>5, <2>1, FS_Union, FS_CardinalityType
<1>7. Cardinality(B) =< Limit * Clears(k, start)
  BY DEF Accounted, B
<1>8. Clears(k, start) \in Nat
  BY WindowFinite
<1> DEFINE x == Limit * Clears(k, start)
<1>9. x \in Nat /\ Limit * (1 + Clears(k, start)) = x + Limit
  BY <1>8, OneMore
<1> HIDE DEF x
<1>10. Cardinality(B) =< x
  BY <1>7 DEF x
<1>11. Cardinality(B \cup A) =< x + Limit
  BY <1>3, <1>6, <1>9, <1>10, LimiterAssumption
<1> QED BY <1>2, <1>9, <1>11

(* consume keeps the limiter right and the windows bounded. *)
LEMMA ConsumeCounts ==
  ASSUME NEW t \in Nat, NEW h, NEW p, NEW k, Counts(h, p, k, t),
         NEW q, q = IF Allows(h, t) THEN Append(p, t) ELSE p
  PROVE  Counts(Consumed(h, t), q, k, t)
<1>0. PICK b \in Nat : Keeps(h, p, b, t) /\ Accounted(p, b, k, t)
  BY DEF Counts
<1> DEFINE r == Recent(h, t)
<1>1. Keeps(r, p, b, t) /\ Len(r) \in Nat
  BY <1>0, RecentKeeps
<1>2. CASE ~ Allows(h, t)
  BY <1>0, <1>1, <1>2 DEF Consumed, Counts
<1>3. CASE Allows(h, t)
  <2>0. /\ q = Append(p, t) /\ Consumed(h, t) = Append(r, t) /\ Len(r) < Limit
    BY <1>3 DEF Allows, Consumed
  <2> HIDE DEF r
  <2>1. /\ p \in Seq(0..t) /\ Ascending(p) /\ Len(p) \in Nat /\ DOMAIN p = 1..Len(p)
        /\ b \in 0..Len(p)
    BY <1>0 DEF Keeps
  <2>2. PICK n \in 0..Len(p) :
          b =< n /\ r = Suffix(p, n) /\ \A i \in (b + 1)..n : p[i] =< t - Window
    BY <1>1 DEF Keeps
  <2>3. /\ q \in Seq(0..t) /\ Len(q) = Len(p) + 1 /\ DOMAIN q = 1..(Len(p) + 1)
        /\ q[Len(p) + 1] = t /\ \A i \in 1..Len(p) : q[i] = p[i] /\ p[i] \in 0..t
    <3>1. t \in 0..t
      OBVIOUS
    <3>2. /\ Append(p, t) \in Seq(0..t) /\ Len(Append(p, t)) = Len(p) + 1
          /\ \A i \in 1..Len(p) : Append(p, t)[i] = p[i] /\ p[i] \in 0..t
          /\ Append(p, t)[Len(p) + 1] = t
      BY <2>1, <3>1, AppendFacts
    <3> QED BY <2>0, <3>2, SequenceIs
  <2>4. Ascending(q)
    BY <2>1, <2>3 DEF Ascending
  <2>5. Append(r, t) = Suffix(q, n) /\ Len(Append(r, t)) = Len(r) + 1
    <3>1. r \in Seq(0..t)
      BY <2>1, <2>2, SuffixFacts
    <3>2. t \in 0..t
      OBVIOUS
    <3>3. Append(r, t) = Suffix(q, n)
      <4>1. \A x \in 0..t : Append(Suffix(p, n), x) = Suffix(Append(p, x), n)
        BY <2>1, <2>2, SuffixFacts, Zenon
      <4> QED BY <2>0, <2>2, <3>2, <4>1, Zenon
    <3>4. Len(Append(r, t)) = Len(r) + 1
      BY <3>1, <3>2, AppendFacts
    <3> QED BY <3>3, <3>4
  <2>6. Keeps(Append(r, t), q, b, t)
    <3>1. n \in 0..Len(q) /\ b \in 0..Len(q) /\ \A i \in (b + 1)..n : q[i] =< t - Window
      BY <2>1, <2>2, <2>3
    <3>2. Len(Append(r, t)) =< Limit
      BY <1>1, <2>0, <2>5, LimiterAssumption
    <3> QED BY <2>2, <2>3, <2>4, <2>5, <3>1, <3>2 DEF Keeps
  <2>7. Accounted(q, b, k, t)
    <3>1. \A start : Before(q, b, start) = Before(p, b, start)
      BY <2>1, <2>3 DEF Before
    <3> QED BY <1>0, <3>1 DEF Accounted
  <2>8. ASSUME NEW start \in 0..t
        PROVE  Cardinality(InWindow(q, start)) =< Limit * (1 + Clears(k, start))
    <3>1. CASE start > t - Window
      BY <2>6, <2>7, <3>1, OpenWindow DEF Counts
    <3>2. CASE ~ (start > t - Window)
      <4>1. t \notin start..(start + Window - 1)
        BY <3>2, LimiterAssumption
      <4>2. InWindow(q, start) = InWindow(p, start)
        BY <2>1, <2>3, <4>1 DEF InWindow
      <4> QED BY <4>2 DEF Counts, Bounded
    <3> QED BY <3>1, <3>2
  <2> QED BY <2>0, <2>6, <2>7, <2>8 DEF Bounded, Counts
<1> QED BY <1>2, <1>3

(* A limiter that has let nothing through. *)
LEMMA EmptyCounts ==
  ASSUME NEW t \in Nat
  PROVE  Counts(<<>>, <<>>, <<>>, t)
<1>1. <<>> \in Seq(0..t) /\ Len(<<>>) = 0 /\ DOMAIN <<>> = {}
  OBVIOUS
<1>2. <<>> = Suffix(<<>>, 0)
  BY <1>1 DEF Suffix
<1>3. Keeps(<<>>, <<>>, 0, t)
  BY <1>1, <1>2, LimiterAssumption DEF Keeps, Ascending
<1>4. \A start : InWindow(<<>>, start) = {} /\ Before(<<>>, 0, start) = {}
  BY <1>1 DEF InWindow, Before
<1>5. \A start : /\ Clears(<<>>, start) = 0 /\ Cardinality(Before(<<>>, 0, start)) = 0
                 /\ Cardinality(InWindow(<<>>, start)) = 0
  BY <1>4, FS_EmptySet DEF Clears
<1>6. Limit * 0 >= 0 /\ Limit * (1 + 0) >= 0
  BY LimiterAssumption
<1>7. Bounded(<<>>, <<>>, t) /\ Accounted(<<>>, 0, <<>>, t)
  BY <1>5, <1>6 DEF Bounded, Accounted
<1> QED BY <1>1, <1>3, <1>7 DEF Counts

(* A limiter is cleared: all it let through counts as before, and a window    *)
(* that is not over has one clear more.                                       *)
LEMMA ClearCounts ==
  ASSUME NEW t \in Nat, NEW h, NEW p, NEW k, Counts(h, p, k, t)
  PROVE  Counts(<<>>, p, Append(k, t), t)
<1> DEFINE j == Append(k, t)
<1>0. /\ p \in Seq(0..t) /\ Ascending(p) /\ Len(p) \in Nat /\ DOMAIN p = 1..Len(p)
      /\ k \in Seq(0..t) /\ Len(k) \in Nat /\ DOMAIN k = 1..Len(k) /\ Bounded(p, k, t)
  BY DEF Counts, Keeps
<1>1. /\ j \in Seq(0..t) /\ Len(j) = Len(k) + 1 /\ DOMAIN j = 1..(Len(k) + 1)
      /\ j[Len(k) + 1] = t /\ \A i \in 1..Len(k) : j[i] = k[i]
  <2>1. t \in 0..t
    OBVIOUS
  <2>2. /\ j \in Seq(0..t) /\ Len(j) = Len(k) + 1
        /\ j[Len(k) + 1] = t /\ \A i \in 1..Len(k) : j[i] = k[i]
    BY <1>0, <2>1, AppendFacts
  <2> HIDE DEF j
  <2> QED BY <2>2, SequenceIs
<1> HIDE DEF j
<1>2. Keeps(<<>>, p, Len(p), t)
  <2>1. Suffix(p, Len(p)) = <<>>
    BY <1>0 DEF Suffix
  <2>2. Len(<<>>) =< Limit
    BY LimiterAssumption
  <2> QED BY <1>0, <2>1, <2>2 DEF Keeps
<1>3. ASSUME NEW start \in 0..t
      PROVE  /\ Clears(k, start) \in Nat /\ Clears(j, start) \in Nat
             /\ Clears(j, start) = Clears(k, start) \/ Clears(j, start) = 1 + Clears(k, start)
             /\ start > t - Window => Clears(j, start) = 1 + Clears(k, start)
  <2>0. IsFiniteSet(InWindow(k, start)) /\ Clears(k, start) \in Nat /\ Clears(j, start) \in Nat
    BY <1>0, <1>1, WindowFinite
  <2>1. CASE t \in start..(start + Window - 1)
    <3>1. InWindow(j, start) = InWindow(k, start) \cup {Len(k) + 1}
      BY <1>0, <1>1, <2>1 DEF InWindow
    <3>2. Len(k) + 1 \notin InWindow(k, start)
      BY <1>0 DEF InWindow
    <3>3. Clears(j, start) = Clears(k, start) + 1
      BY <2>0, <3>1, <3>2, FS_AddElement DEF Clears
    <3> QED BY <2>0, <3>3
  <2>2. CASE t \notin start..(start + Window - 1)
    <3>1. InWindow(j, start) = InWindow(k, start)
      BY <1>0, <1>1, <2>2 DEF InWindow
    <3>2. ~ (start > t - Window)
      BY <2>2, LimiterAssumption
    <3> QED BY <2>0, <3>1, <3>2 DEF Clears
  <2> QED BY <2>1, <2>2
<1>4. ASSUME NEW start \in 0..t, start > t - Window
      PROVE  Cardinality(Before(p, Len(p), start)) =< Limit * Clears(j, start)
  <2>1. Before(p, Len(p), start) = InWindow(p, start)
    BY <1>0 DEF Before, InWindow
  <2>2. Clears(j, start) = 1 + Clears(k, start)
    BY <1>3, <1>4
  <2> QED BY <1>0, <2>1, <2>2 DEF Bounded
<1>5. ASSUME NEW start \in 0..t
      PROVE  Cardinality(InWindow(p, start)) =< Limit * (1 + Clears(j, start))
  <2> DEFINE x == Limit * (1 + Clears(k, start))
  <2>1. Cardinality(InWindow(p, start)) =< x /\ Cardinality(InWindow(p, start)) \in Nat
    BY <1>0, WindowFinite, FS_CardinalityType DEF Bounded
  <2>2. 1 + Clears(k, start) \in Nat /\ x \in Nat
    BY <1>3, OneMore
  <2>3. Limit * (1 + Clears(j, start)) = x \/ Limit * (1 + Clears(j, start)) = x + Limit
    BY <1>3, <2>2, OneMore
  <2> HIDE DEF x
  <2> QED BY <2>1, <2>2, <2>3, LimiterAssumption
<1>6. Bounded(p, j, t) /\ Accounted(p, Len(p), j, t)
  BY <1>4, <1>5 DEF Bounded, Accounted
<1>7. Counts(<<>>, p, j, t)
  BY <1>0, <1>1, <1>2, <1>6 DEF Counts
<1> QED BY <1>7 DEF j

(* When the clock ticks what was over stays over, and a window that begins is *)
(* empty.                                                                     *)
LEMMA TickCounts ==
  ASSUME NEW t \in Nat, NEW h, NEW p, NEW k, Counts(h, p, k, t)
  PROVE  Counts(h, p, k, t + 1)
<1>0. PICK b \in Nat : Keeps(h, p, b, t) /\ Accounted(p, b, k, t)
  BY DEF Counts
<1>1. /\ p \in Seq(0..t) /\ Len(p) \in Nat /\ DOMAIN p = 1..Len(p) /\ b \in 0..Len(p)
      /\ \A i \in 1..Len(p) : p[i] \in 0..t
  BY <1>0 DEF Keeps
<1>2. p \in Seq(0..(t + 1)) /\ k \in Seq(0..(t + 1)) /\ k \in Seq(0..t)
  BY <1>1 DEF Counts
<1>3. PICK n \in 0..Len(p) :
        b =< n /\ h = Suffix(p, n) /\ \A i \in (b + 1)..n : p[i] =< t - Window
  BY <1>0 DEF Keeps
<1>4. \A i \in (b + 1)..n : p[i] =< (t + 1) - Window
  BY <1>1, <1>3, LimiterAssumption
<1>5. Keeps(h, p, b, t + 1)
  BY <1>0, <1>2, <1>3, <1>4 DEF Keeps
<1>6. InWindow(p, t + 1) = {} /\ Before(p, b, t + 1) = {}
  BY <1>1, LimiterAssumption DEF InWindow, Before
<1>7. /\ Cardinality(InWindow(p, t + 1)) =< Limit * (1 + Clears(k, t + 1))
      /\ Cardinality(Before(p, b, t + 1)) =< Limit * Clears(k, t + 1)
  <2>1. Clears(k, t + 1) \in Nat
    BY <1>2, WindowFinite
  <2>2. Limit * (1 + Clears(k, t + 1)) \in Nat /\ Limit * Clears(k, t + 1) \in Nat
    BY <2>1, OneMore
  <2>3. Cardinality(InWindow(p, t + 1)) = 0 /\ Cardinality(Before(p, b, t + 1)) = 0
    BY <1>6, FS_EmptySet, Zenon
  <2> QED BY <2>2, <2>3
<1>8. \A start \in 0..(t + 1) : start \in 0..t \/ start = t + 1
  OBVIOUS
<1>9. Bounded(p, k, t + 1)
  BY <1>7, <1>8 DEF Bounded, Counts
<1>10. Accounted(p, b, k, t + 1)
  <2> SUFFICES ASSUME NEW start \in 0..(t + 1), start > (t + 1) - Window
               PROVE  Cardinality(Before(p, b, start)) =< Limit * Clears(k, start)
    BY DEF Accounted
  <2>1. start > t - Window
    BY LimiterAssumption
  <2> QED BY <1>0, <1>7, <1>8, <2>1 DEF Accounted
<1> QED BY <1>2, <1>5, <1>9, <1>10 DEF Counts

----------------------------------------------------------------------------
(* The limiters of the gateway. *)

LEMMA CountedTypes ==
  ASSUME NEW t \in Nat, NEW h, NEW p, NEW k, Counts(h, p, k, t)
  PROVE  /\ h \in Seq(0..t) /\ h \in Seq(Nat) /\ Len(h) =< Limit
         /\ p \in Seq(Nat) /\ k \in Seq(Nat)
<1>1. \E b \in Nat : Keeps(h, p, b, t)
  BY DEF Counts
<1>2. \A s \in Seq(0..t) : s \in Seq(Nat)
  OBVIOUS
<1> QED BY <1>1, <1>2, KeptTypes DEF Counts

LEMMA ConsumeLimiters ==
  ASSUME StateTypes, LimitersCount, NEW l \in Limiters, NEW u \in Users, Consume(l, u), UNCHANGED now
  PROVE  LimitersCount'
<1> DEFINE h == hits[l][u]
           p == passed[l][u]
           q == IF Allows(h, now) THEN Append(p, now) ELSE p
<1>0. now \in Nat
  BY PresenceAssumption DEF StateTypes
<1>1. Counts(h, p, cleared[u], now)
  BY DEF LimitersCount
<1>2. Counts(Consumed(h, now), q, cleared[u], now)
  BY <1>0, <1>1, ConsumeCounts
<1>3. Consumed(h, now) \in Seq(Nat) /\ q \in Seq(Nat)
  BY <1>0, <1>2, CountedTypes
<1>4. /\ hits' = [hits EXCEPT ![l][u] = Consumed(h, now)] /\ passed' = [passed EXCEPT ![l][u] = q]
      /\ cleared' = cleared
  <2>1. passed = [passed EXCEPT ![l][u] = passed[l][u]]
    BY DEF LimitersCount
  <2> QED BY <2>1 DEF Consume
<1> HIDE DEF h, p, q
<1>5. /\ hits' \in [Limiters -> [Users -> Seq(Nat)]]
      /\ passed' \in [Limiters -> [Users -> Seq(Nat)]]
  BY <1>3, <1>4 DEF LimitersCount
<1>6. ASSUME NEW m \in Limiters, NEW w \in Users
      PROVE  Counts(hits'[m][w], passed'[m][w], cleared[w], now)
  <2>1. CASE m = l /\ w = u
    <3>1. hits'[m][w] = Consumed(h, now) /\ passed'[m][w] = q
      BY <1>4, <2>1 DEF LimitersCount
    <3> QED BY <1>2, <2>1, <3>1
  <2>2. CASE ~ (m = l /\ w = u)
    <3>1. hits'[m][w] = hits[m][w] /\ passed'[m][w] = passed[m][w]
      BY <1>4, <2>2 DEF LimitersCount
    <3> QED BY <3>1 DEF LimitersCount
  <2> QED BY <2>1, <2>2
<1> QED BY <1>4, <1>5, <1>6 DEF LimitersCount

(* The limiters of the users V are cleared, of one who closes a socket or of  *)
(* all at a restart.                                                          *)
LEMMA ClearLimiters ==
  ASSUME StateTypes, LimitersCount, NEW V \in SUBSET Users, UNCHANGED <<now, passed>>,
         hits' = [l \in Limiters |-> [u \in Users |-> IF u \in V THEN <<>> ELSE hits[l][u]]],
         cleared' = [u \in Users |-> IF u \in V THEN Append(cleared[u], now) ELSE cleared[u]]
  PROVE  LimitersCount'
<1>0. now \in Nat
  BY PresenceAssumption DEF StateTypes
<1>1. ASSUME NEW m \in Limiters, NEW w \in Users
      PROVE  /\ Counts(hits'[m][w], passed[m][w], cleared'[w], now)
             /\ hits'[m][w] \in Seq(Nat) /\ cleared'[w] \in Seq(Nat)
  <2>0. Counts(hits[m][w], passed[m][w], cleared[w], now)
    BY DEF LimitersCount
  <2>1. CASE w \in V
    <3>1. hits'[m][w] = <<>> /\ cleared'[w] = Append(cleared[w], now)
      BY <2>1
    <3>2. Counts(<<>>, passed[m][w], Append(cleared[w], now), now)
      BY <1>0, <2>0, ClearCounts
    <3>3. <<>> \in Seq(Nat) /\ Append(cleared[w], now) \in Seq(Nat)
      BY <1>0, <3>2, CountedTypes
    <3> QED BY <3>1, <3>2, <3>3
  <2>2. CASE w \notin V
    <3>1. hits'[m][w] = hits[m][w] /\ cleared'[w] = cleared[w]
      BY <2>2
    <3> QED BY <2>0, <3>1 DEF LimitersCount
  <2> QED BY <2>1, <2>2
<1>2. "submit" \in Limiters
  BY DEF Limiters
<1>3. hits' \in [Limiters -> [Users -> Seq(Nat)]] /\ cleared' \in [Users -> Seq(Nat)]
  <2>1. \A w \in Users : cleared'[w] \in Seq(Nat)
    BY <1>1, <1>2
  <2>2. cleared' = [w \in Users |-> cleared'[w]]
    OBVIOUS
  <2>3. hits' = [m \in Limiters |-> [w \in Users |-> hits'[m][w]]]
    OBVIOUS
  <2> QED BY <1>1, <2>1, <2>2, <2>3
<1> QED BY <1>1, <1>3 DEF LimitersCount

LEMMA TickLimiters ==
  ASSUME StateTypes, LimitersCount, Tick
  PROVE  LimitersCount'
<1>0. now \in Nat /\ now' = now + 1 /\ hits' = hits /\ passed' = passed /\ cleared' = cleared
  BY PresenceAssumption DEF StateTypes, Tick, gateway, limits
<1>1. ASSUME NEW m \in Limiters, NEW w \in Users
      PROVE  Counts(hits[m][w], passed[m][w], cleared[w], now + 1)
  BY <1>0, TickCounts DEF LimitersCount
<1> QED BY <1>0, <1>1 DEF LimitersCount

LEMMA StepLimiters == ASSUME Inv, LimitersCount, Next PROVE LimitersCount'
<1>0. StateTypes
  BY DEF Inv
<1>1. CASE UNCHANGED <<hits, passed, cleared, now>>
  BY <1>1 DEF LimitersCount
<1>2. ASSUME NEW s \in Sockets, Message(s) PROVE LimitersCount'
  <2>0. socketUser[s] # None => socketUser[s] \in Users
    BY <1>0 DEF StateTypes
  <2>1. CASE \E u \in Users : HandleConnection(s, u)
    BY <1>1, <2>1 DEF HandleConnection, limits
  <2>2. CASE HandleDisconnect(s)
    <3> DEFINE v == socketUser[s]
    <3>1. v \in Users /\ Clear(v) /\ UNCHANGED now
      BY <2>0, <2>2 DEF HandleDisconnect
    <3> HIDE DEF v
    <3>2. /\ {v} \in SUBSET Users /\ UNCHANGED <<now, passed>>
          /\ hits' = [l \in Limiters |-> [u \in Users |-> IF u \in {v} THEN <<>> ELSE hits[l][u]]]
          /\ cleared' = [u \in Users |-> IF u \in {v} THEN Append(cleared[u], now) ELSE cleared[u]]
      BY <3>1 DEF Clear, LimitersCount
    <3> QED BY <1>0, <3>2, ClearLimiters
  <2>3. CASE \E v \in Viewports : OnTrackSubscribe(s, v)
    BY <1>0, <2>0, <2>3, ConsumeLimiters DEF OnTrackSubscribe, Limiters
  <2>4. CASE OnTrackUnsubscribe(s)
    BY <1>1, <2>4 DEF OnTrackUnsubscribe, limits
  <2>5. CASE \E c \in Calls, p \in Places : OnLocationUpdate(c, s, p)
    BY <1>0, <2>0, <2>5, ConsumeLimiters DEF OnLocationUpdate, Limiters
  <2>6. CASE OnOfferSubmit(s)
    BY <1>0, <2>0, <2>6, ConsumeLimiters DEF OnOfferSubmit, Limiters
  <2>7. CASE OnOfferAccept(s)
    BY <1>0, <2>0, <2>7, ConsumeLimiters DEF OnOfferAccept, Limiters
  <2> QED BY <1>2, <2>1, <2>2, <2>3, <2>4, <2>5, <2>6, <2>7 DEF Message
<1>3. CASE Tick
  BY <1>0, <1>3, TickLimiters
<1>4. CASE Crash
  <2>1. /\ Users \in SUBSET Users /\ UNCHANGED <<now, passed>>
        /\ hits' = [l \in Limiters |-> [u \in Users |-> IF u \in Users THEN <<>> ELSE hits[l][u]]]
        /\ cleared' = [u \in Users |-> IF u \in Users THEN Append(cleared[u], now) ELSE cleared[u]]
    BY <1>4 DEF Crash
  <2> QED BY <1>0, <2>1, ClearLimiters
<1>5. CASE \E c \in Calls, u \in Users : Request(c, u)
  BY <1>1, <1>5 DEF Request, gateway, limits, UpdateStatus, UpdateLocation, SwitchToDriver, SwitchToRider, CreateRide
<1>6. CASE \E c \in Calls : Continue(c)
  BY <1>1, <1>6 DEF Continue, gateway, limits, CacheGet, CacheFind, CacheSet, NotFound, WriteMode, Write,
     Emit, Abort, Match, HandleRideRequestCreated
<1>7. CASE \E u \in Users : Approve(u) \/ CacheExpires(u)
  BY <1>1, <1>7 DEF gateway, limits, Approve, CacheExpires
<1> QED BY <1>2, <1>3, <1>4, <1>5, <1>6, <1>7 DEF Next

LEMMA LimitersHold == Spec => []LimitersCount
<1>1. Init => LimitersCount
  <2> SUFFICES ASSUME Init PROVE LimitersCount
    OBVIOUS
  <2>1. /\ hits \in [Limiters -> [Users -> Seq(Nat)]] /\ passed = hits
        /\ \A l \in Limiters, u \in Users : hits[l][u] = <<>> /\ cleared[u] = <<>>
        /\ cleared \in [Users -> Seq(Nat)]
        /\ now \in Nat
    BY DEF Init
  <2> QED BY <2>1, EmptyCounts DEF LimitersCount
<1>2. Inv /\ LimitersCount /\ [Next]_vars => LimitersCount'
  <2>1. ASSUME LimitersCount, UNCHANGED vars PROVE LimitersCount'
    BY <2>1 DEF LimitersCount, vars, gateway, limits
  <2> QED BY <2>1, StepLimiters
<1> QED BY <1>1, <1>2, PresenceInvariant, PTL DEF Spec

(* In no window of the limiter's length, wherever it begins, does a user get   *)
(* more than Limit messages through (WsRateLimiter.consume), and Limit more    *)
(* for every time that a socket of theirs was closed or the process restarted  *)
(* in it, for any limit, window and clock.                                     *)
THEOREM LimitsHold == Spec => []WithinLimit
<1>1. LimitersCount => WithinLimit
  BY DEF LimitersCount, Counts, Bounded, Clears, WithinLimit
<1> QED BY <1>1, LimitersHold, PTL

(* Whoever is refused got Limit messages through in the window that ends now  *)
(* (WsRateLimiter.consume), for any limit, window and clock.                   *)
THEOREM RefusalsAtLimit == Spec => []RefusesAtLimit
<1>1. Inv /\ LimitersCount => RefusesAtLimit
  <2> SUFFICES ASSUME Inv, LimitersCount, NEW l \in Limiters, NEW u \in Users, ~ Allows(hits[l][u], now)
               PROVE  Cardinality({i \in DOMAIN passed[l][u] : passed[l][u][i] > now - Window}) >= Limit
    BY DEF RefusesAtLimit
  <2> DEFINE h == hits[l][u]
             p == passed[l][u]
  <2>1. now \in Nat
    BY PresenceAssumption DEF Inv, StateTypes
  <2>2. PICK b \in Nat : Keeps(h, p, b, now)
    BY DEF LimitersCount, Counts
  <2>3. ~ Allows(h, now)
    OBVIOUS
  <2> HIDE DEF h, p
  <2>4. Len(Recent(h, now)) \in Nat /\ Len(Recent(h, now)) >= Limit
    BY <2>1, <2>2, <2>3, RecentKeeps, LimiterAssumption DEF Allows
  <2> DEFINE W == {i \in DOMAIN p : p[i] > now - Window}
  <2>5. Cardinality(W) \in Nat /\ Cardinality(W) >= Len(Recent(h, now))
    BY <2>1, <2>2, RecentWerePassed
  <2> HIDE DEF W
  <2>6. Cardinality(W) >= Limit
    BY <2>4, <2>5, LimiterAssumption
  <2> QED BY <2>6 DEF W, h, p
<1> QED BY <1>1, LimitersHold, PresenceInvariant, PTL

(* Every variable keeps its type, a limiter keeps at most Limit timestamps and *)
(* none from the future, and only rows that exist are online or somewhere.     *)
THEOREM PresenceTypes == Spec => []TypeOK
<1>1. Inv /\ LimitersCount => TypeOK
  <2> SUFFICES ASSUME Inv, LimitersCount PROVE TypeOK
    OBVIOUS
  <2>1. now \in Nat
    BY PresenceAssumption DEF Inv, StateTypes
  <2>2. LimiterTypes
    BY <2>1, CountedTypes DEF LimitersCount, LimiterTypes
  <2> QED BY <2>2 DEF Inv, RowsExist, TypeOK
<1> QED BY <1>1, LimitersHold, PresenceInvariant, PTL

============================================================================
