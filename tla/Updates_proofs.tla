--------------------------- MODULE Updates_proofs ---------------------------
(***************************************************************************)
(* Proofs about Updates: what a waiter counts as good has come to the      *)
(* client, and updates of the account are applied once and in order.       *)
(***************************************************************************)
EXTENDS Updates, FiniteSetTheorems, TLAPS

-----------------------------------------------------------------------------
(***************************************************************************)
(* The updates of a box: L is its log.                                     *)
(***************************************************************************)
Top(L) == CHOOSE p \in L : \A q \in L : q <= p

LogIs(L, max) ==
    /\ L \subseteq 1..max /\ 1 \in L
    /\ \E p \in L : \A q \in L : q <= p

\* u is an update of the log: its numbers follow those of the one before.
Real(L, u) ==
    /\ u.pts \in L /\ u.count \in 1..(u.pts - 1)
    /\ \A q \in L : q < u.pts => q <= u.pts - u.count

LEMMA TopIs ==
    ASSUME NEW L, NEW max \in Nat, LogIs(L, max)
    PROVE  /\ Top(L) \in L /\ Top(L) \in Nat \ {0} /\ Top(L) <= max
           /\ \A q \in L : q \in Nat /\ q >= 1 /\ q <= Top(L)
<1>1. PICK p \in L : \A q \in L : q <= p
  BY DEF LogIs
<1>2. Top(L) \in L /\ \A q \in L : q <= Top(L)
  BY <1>1 DEF Top
<1>3. \A q \in L : q \in Nat /\ q >= 1 /\ q <= max
  BY DEF LogIs
<1>. QED
  BY <1>2, <1>3

LEMMA TopGrows ==
    ASSUME NEW L, NEW max \in Nat, LogIs(L, max), NEW p \in Nat, p > Top(L), p <= max
    PROVE  LogIs(L \cup {p}, max) /\ Top(L \cup {p}) = p
<1>1. Top(L) \in L /\ Top(L) \in Nat \ {0} /\ \A q \in L : q \in Nat /\ q >= 1 /\ q <= Top(L)
  BY TopIs
<1>2. p \in L \cup {p} /\ \A q \in L \cup {p} : q \in Nat /\ q <= p
  BY <1>1
<1>3. \A q \in L \cup {p} : (\A r \in L \cup {p} : r <= q) => q = p
  BY <1>2
<1>4. Top(L \cup {p}) = p
  BY <1>2, <1>3 DEF Top
<1>. QED
  BY <1>1, <1>2, <1>4 DEF LogIs

\* Two updates of a log have no number in common, and those after p are not in 1..p.
LEMMA Apart ==
    ASSUME NEW L, NEW max \in Nat, LogIs(L, max), NEW u, Real(L, u)
    PROVE  /\ u.pts \in Nat /\ u.count \in Nat \ {0} /\ u.count < u.pts
           /\ Covers(u) \subseteq 1..u.pts /\ u.pts \in Covers(u)
           /\ Cardinality(Covers(u)) = u.count /\ IsFiniteSet(Covers(u))
           /\ \A q \in L : q < u.pts => Covers(u) \cap 1..q = {}
           /\ \A v : Real(L, v) /\ v.pts # u.pts => Covers(u) \cap Covers(v) = {}
<1>1. \A q \in L : q \in Nat /\ q >= 1
  BY DEF LogIs
<1>2. u.pts \in Nat /\ u.count \in Nat \ {0} /\ u.count < u.pts
  BY <1>1 DEF Real
<1>3. Covers(u) \subseteq 1..u.pts /\ u.pts \in Covers(u)
  BY <1>2 DEF Covers
<1>4. Cardinality(Covers(u)) = u.count /\ IsFiniteSet(Covers(u))
  <2>1. u.pts - u.count + 1 \in Int /\ u.pts \in Int /\ u.pts - u.count + 1 <= u.pts
    BY <1>2
  <2>2. IsFiniteSet(Covers(u))
    BY <2>1, FS_Interval DEF Covers
  <2>3. Cardinality(Covers(u)) = IF u.pts - u.count + 1 > u.pts THEN 0
                                 ELSE u.pts - (u.pts - u.count + 1) + 1
    BY <2>1, FS_Interval DEF Covers
  <2>. QED
    BY <1>2, <2>2, <2>3
<1>5. \A q \in L : q < u.pts => Covers(u) \cap 1..q = {}
  BY <1>1, <1>2 DEF Real, Covers
<1>6. ASSUME NEW v, Real(L, v), v.pts # u.pts
      PROVE  Covers(u) \cap Covers(v) = {}
  <2>1. v.pts \in Nat /\ v.count \in Nat \ {0} /\ v.count < v.pts
    BY <1>1, <1>6 DEF Real
  <2>2. Covers(v) \subseteq 1..v.pts
    BY <2>1 DEF Covers
  <2>3. CASE v.pts < u.pts
    BY <1>5, <1>6, <2>2, <2>3 DEF Real
  <2>4. CASE v.pts > u.pts
    <3>1. Covers(v) \cap 1..u.pts = {}
      BY <1>1, <1>2, <1>6, <2>1, <2>4 DEF Real, Covers
    <3>. QED
      BY <1>3, <3>1
  <2>. QED
    BY <1>2, <1>6, <2>1, <2>3, <2>4
<1>. QED
  BY <1>2, <1>3, <1>4, <1>5, <1>6

\* An update stays one when the log grows.
LEMMA RealStays ==
    ASSUME NEW L, NEW max \in Nat, LogIs(L, max), NEW u, Real(L, u),
           NEW p \in Nat, p > Top(L)
    PROVE  Real(L \cup {p}, u)
<1>1. u.pts \in L /\ u.pts <= Top(L) /\ Top(L) \in Nat /\ u.pts \in Nat
  BY TopIs DEF Real
<1>. QED
  BY <1>1 DEF Real

\* A set that counts as many numbers as there are has all of them.
LEMMA Full ==
    ASSUME NEW n \in Nat, NEW S, S \subseteq 1..n, n <= Cardinality(S)
    PROVE  S = 1..n
<1>1. IsFiniteSet(1..n) /\ Cardinality(1..n) = n
  <2>1. 1 \in Int /\ n \in Int
    OBVIOUS
  <2>2. IsFiniteSet(1..n) /\ Cardinality(1..n) = IF 1 > n THEN 0 ELSE n - 1 + 1
    BY <2>1, FS_Interval
  <2>. QED
    BY <2>2
<1>2. S \in SUBSET (1..n)
  OBVIOUS
<1>3. IsFiniteSet(S) /\ Cardinality(S) <= Cardinality(1..n) /\ (Cardinality(1..n) = Cardinality(S) => 1..n = S)
  BY <1>1, <1>2, FS_Subset
<1>4. Cardinality(S) \in Nat
  BY <1>3, FS_CardinalityType
<1>. QED
  BY <1>1, <1>3, <1>4

LEMMA Counting ==
    ASSUME NEW n \in Nat, NEW S, S \subseteq 1..n
    PROVE  /\ IsFiniteSet(S) /\ Cardinality(S) \in Nat
           /\ \A T : T \subseteq S => IsFiniteSet(T) /\ Cardinality(T) <= Cardinality(S)
<1>1. IsFiniteSet(1..n)
  BY FS_Interval
<1>2. S \in SUBSET (1..n)
  OBVIOUS
<1>3. IsFiniteSet(S)
  BY <1>1, <1>2, FS_Subset
<1>4. Cardinality(S) \in Nat
  BY <1>3, FS_CardinalityType
<1>5. ASSUME NEW T, T \subseteq S
      PROVE  IsFiniteSet(T) /\ Cardinality(T) <= Cardinality(S)
  <2>1. T \in SUBSET S
    BY <1>5
  <2>. QED
    BY <1>3, <2>1, FS_Subset
<1>. QED
  BY <1>3, <1>4, <1>5

LEMMA CountUp ==
    ASSUME NEW n \in Nat, NEW S, S \subseteq 1..n, NEW C, C \subseteq 1..n, S \cap C = {}
    PROVE  Cardinality(S \cup C) = Cardinality(S) + Cardinality(C)
<1>1. IsFiniteSet(S) /\ Cardinality(S) \in Nat /\ IsFiniteSet(C) /\ Cardinality(C) \in Nat
  BY Counting
<1>2. Cardinality(S \cup C) = Cardinality(S) + Cardinality(C) - Cardinality(S \cap C)
  BY <1>1, FS_Union
<1>3. Cardinality(S \cap C) = 0
  BY FS_EmptySet
<1>. QED
  BY <1>1, <1>2, <1>3

-----------------------------------------------------------------------------
(***************************************************************************)
(* A box: w is its waiter, k is what the client knows, L is the log.       *)
(***************************************************************************)
\* What was counted is known or waits in the queue.
CountOK(w, k) ==
    ~w.requesting /\ w.good > 0 =>
        w.count <= Cardinality((k \cup Content(w.queue)) \cap 1..w.last)

BoxOK(w, k, L) ==
    /\ w \in Waiters /\ k \subseteq 1..Top(L)
    /\ w.good <= w.last /\ w.last <= Top(L)
    /\ 1..w.good \subseteq k
    /\ \A u \in w.queue : Real(L, u) /\ u.pts <= w.last
    /\ Content(w.queue) \cap k = {}
    /\ w.queue # {} => w.waiting /\ ~w.requesting
    /\ w.good = 0 => w.last = 0 /\ w.queue = {}
    /\ CountOK(w, k)

\* An update that has not come yet is not known, and is not in the queue.
Fresh(w, k, u) == u.pts > w.good => Covers(u) \cap (k \cup Content(w.queue)) = {}

\* What a step of a box with the update of the numbers C keeps.
Fed(w, k, w2, k2, L, C) ==
    /\ w2.requesting = w.requesting /\ w.good <= w2.good
    /\ w.requesting => w2.good = w.good
    /\ k \subseteq k2 /\ Content(w.queue) \subseteq k2 \cup Content(w2.queue)
    /\ C \subseteq k2 \cup Content(w2.queue)
    /\ \E p \in L \cup {0} :
          /\ p <= w2.good
          /\ k2 \cup Content(w2.queue) \subseteq k \cup Content(w.queue) \cup C \cup 1..p

LEMMA ContentIs ==
    /\ Content({}) = {}
    /\ \A S, u : Content(S \cup {u}) = Content(S) \cup Covers(u)
    /\ \A u : Content({u}) = Covers(u)
    /\ \A S, u : Content({u} \cup S) = Covers(u) \cup Content(S)
BY DEF Content

LEMMA QueueIs ==
    ASSUME NEW L, NEW max \in Nat, LogIs(L, max), NEW w, NEW k, BoxOK(w, k, L)
    PROVE  /\ w.good \in Nat /\ w.last \in Nat /\ w.count \in Nat /\ w.last <= Top(L)
           /\ w.good <= w.last /\ Top(L) \in Nat
           /\ w.requesting \in BOOLEAN /\ w.waiting \in BOOLEAN
           /\ Content(w.queue) \subseteq 1..w.last
<1>1. w \in Waiters /\ w.good <= w.last /\ w.last <= Top(L)
  BY DEF BoxOK
<1>2. w.good \in Nat /\ w.last \in Nat /\ w.count \in Nat
      /\ w.requesting \in BOOLEAN /\ w.waiting \in BOOLEAN
  BY <1>1 DEF Waiters
<1>3. Top(L) \in Nat
  BY TopIs
<1>4. ASSUME NEW u \in w.queue
      PROVE  Covers(u) \subseteq 1..w.last
  <2>1. Real(L, u) /\ u.pts <= w.last
    BY DEF BoxOK
  <2>2. u.pts \in Nat /\ Covers(u) \subseteq 1..u.pts
    BY <2>1, Apart
  <2>. QED
    BY <1>2, <2>1, <2>2
<1>5. Content(w.queue) \subseteq 1..w.last
  BY <1>4 DEF Content
<1>. QED
  BY <1>1, <1>2, <1>3, <1>5

\* The waiter starts at p, of whose numbers none is missing.
Started(v, p) ==
    v \in Waiters /\ v.good = p /\ v.last = p /\ v.count = p /\ v.queue = {}

LEMMA StartedBox ==
    ASSUME NEW L, NEW max \in Nat, LogIs(L, max), NEW w, NEW k, BoxOK(w, k, L),
           NEW p \in L, w.good <= p, NEW v, Started(v, p),
           NEW k2, k2 = k \cup (w.good + 1)..p
    PROVE  BoxOK(v, k2, L)
<1>1. w \in Waiters /\ k \subseteq 1..Top(L) /\ 1..w.good \subseteq k
  BY DEF BoxOK
<1>2. p \in Nat \ {0} /\ p <= Top(L) /\ Top(L) \in Nat
  BY TopIs
<1>3. w.good \in Nat
  BY QueueIs
<1>4. k2 \subseteq 1..Top(L) /\ 1..p \subseteq k2
  <2>1. (w.good + 1)..p \subseteq 1..Top(L)
    BY <1>2, <1>3
  <2>2. 1..p \subseteq 1..w.good \cup (w.good + 1)..p
    BY <1>2, <1>3
  <2>. QED
    BY <1>1, <2>1, <2>2
<1>6. v \in Waiters /\ v.good = p /\ v.last = p /\ v.count = p /\ v.queue = {}
  BY DEF Started
<1>7. CountOK(v, k2)
  <2>1. (k2 \cup Content(v.queue)) \cap 1..v.last = 1..p
    BY <1>4, <1>6, ContentIs
  <2>2. Cardinality(1..p) = p
    <3>1. 1 \in Int /\ p \in Int
      BY <1>2
    <3>2. Cardinality(1..p) = IF 1 > p THEN 0 ELSE p - 1 + 1
      BY <3>1, FS_Interval
    <3>. QED
      BY <1>2, <3>2
  <2>3. Cardinality((k2 \cup Content(v.queue)) \cap 1..v.last) = Cardinality(1..p)
    BY <2>1
  <2>4. v.count <= Cardinality((k2 \cup Content(v.queue)) \cap 1..v.last)
    BY <1>2, <1>6, <2>2, <2>3
  <2>. QED
    BY <2>4 DEF CountOK
<1>. QED
  BY <1>2, <1>4, <1>6, <1>7, ContentIs DEF BoxOK

LEMMA PtsInitIs ==
    ASSUME NEW w \in Waiters, NEW p \in Nat
    PROVE  Started(PtsInit(w, p), p) /\ PtsInit(w, p).requesting = w.requesting
<1>1. PICK v : v = PtsInit(w, p)
  OBVIOUS
<1>2. v = [good |-> p, last |-> p, count |-> p, queue |-> {},
           requesting |-> w.requesting, waiting |-> w.waiting]
  BY <1>1 DEF PtsInit, Waiters
<1>3. w.requesting \in BOOLEAN /\ w.waiting \in BOOLEAN
  BY DEF Waiters
<1>4. v \in Waiters
  BY <1>2, <1>3 DEF Waiters
<1>. QED
  BY <1>1, <1>2, <1>4 DEF Started

LEMMA SetRequestingIs ==
    ASSUME NEW w \in Waiters, NEW is \in BOOLEAN, NEW v, v = SetRequesting(w, is)
    PROVE  /\ v \in Waiters /\ v.good = w.good /\ v.last = w.last /\ v.count = w.count
           /\ v.waiting = w.waiting /\ v.requesting = is
           /\ is => v.queue = {}
           /\ ~is => v.queue = w.queue
<1>1. /\ v = [good |-> w.good, last |-> w.last, count |-> w.count,
              queue |-> IF is THEN {} ELSE w.queue, requesting |-> is, waiting |-> w.waiting]
      /\ w.good \in Nat /\ w.last \in Nat /\ w.count \in Nat /\ w.queue \in SUBSET Updates
      /\ w.waiting \in BOOLEAN
  BY DEF SetRequesting, Waiters
<1>2. v \in Waiters
  BY <1>1 DEF Waiters
<1>. QED
  BY <1>1, <1>2

LEMMA UnskippedIs ==
    ASSUME NEW w \in Waiters, NEW v, v = Unskipped(w), w.queue # {} => w.waiting
    PROVE  /\ v \in Waiters /\ v.good = w.good /\ v.last = w.last /\ v.count = w.count
           /\ v.requesting = w.requesting /\ v.queue = {}
           /\ Skipped(w) = w.queue
<1>1. /\ w.good \in Nat /\ w.last \in Nat /\ w.count \in Nat /\ w.queue \in SUBSET Updates
      /\ w.waiting \in BOOLEAN /\ w.requesting \in BOOLEAN
  BY DEF Waiters
<1>2. CASE w.waiting
  <2>1. v = [good |-> w.good, last |-> w.last, count |-> w.count, queue |-> {},
             requesting |-> w.requesting, waiting |-> FALSE]
    BY <1>2 DEF Unskipped, Waiters
  <2>2. v \in Waiters
    BY <1>1, <2>1 DEF Waiters
  <2>. QED
    BY <1>2, <2>1, <2>2 DEF Skipped
<1>3. CASE ~w.waiting
  BY <1>3 DEF Unskipped, Skipped
<1>. QED
  BY <1>2, <1>3

LEMMA RequestingBox ==
    ASSUME NEW L, NEW w, NEW k, BoxOK(w, k, L)
    PROVE  BoxOK(SetRequesting(w, TRUE), k, L)
<1>1. PICK v : v = SetRequesting(w, TRUE)
  OBVIOUS
<1>2. v \in Waiters /\ v.good = w.good /\ v.last = w.last /\ v.queue = {} /\ v.requesting
  BY <1>1 DEF BoxOK, Waiters, SetRequesting
<1>3. BoxOK(v, k, L)
  BY <1>2, ContentIs DEF BoxOK, CountOK
<1>. QED
  BY <1>1, <1>3

\* While a difference is on its way the numbers S come, and nothing is counted.
LEMMA NowBox ==
    ASSUME NEW L, NEW w, NEW k, BoxOK(w, k, L), w.requesting,
           NEW S, S \subseteq 1..Top(L), NEW v \in Waiters,
           v.good = w.good, v.last = w.last, v.queue = w.queue, v.requesting = w.requesting
    PROVE  BoxOK(v, k \cup S, L) /\ Fed(w, k, v, k \cup S, L, S)
<1>1. w \in Waiters /\ w.queue = {} /\ w.good \in Nat
  BY DEF BoxOK, Waiters
<1>2. v.good = w.good /\ v.last = w.last /\ v.queue = {} /\ v.requesting = w.requesting
  BY <1>1
<1>3. BoxOK(v, k \cup S, L)
  BY <1>1, <1>2, ContentIs DEF BoxOK, CountOK
<1>4. \E p \in L \cup {0} : p <= v.good
        /\ (k \cup S) \cup Content(v.queue) \subseteq k \cup Content(w.queue) \cup S \cup 1..p
  <2>1. 0 \in L \cup {0} /\ 0 <= v.good
    BY <1>1, <1>2
  <2>2. (k \cup S) \cup Content(v.queue) \subseteq k \cup Content(w.queue) \cup S \cup 1..0
    BY <1>2, ContentIs
  <2>. QED
    BY <2>1, <2>2
<1>5. Fed(w, k, v, k \cup S, L, S)
  <2>1. Content(w.queue) \subseteq (k \cup S) \cup Content(v.queue)
    BY <1>1, ContentIs
  <2>2. v.requesting = w.requesting
    BY <1>2, Zenon
  <2>3. w.good <= v.good /\ v.good = w.good
    BY <1>1, <1>2
  <2>. QED
    BY <1>4, <2>1, <2>2, <2>3 DEF Fed
<1>. QED
  BY <1>3, <1>5

\* An update is counted; `now' says that it is known at once, as are those of the queue that
\* `out' says are let out.
Takes(w, k, u, c, v, k2) ==
    \/ /\ AddsUp(w, u.pts, u.count)
       /\ v \in Waiters /\ v.good = c.good /\ v.last = c.last /\ v.count = c.count
       /\ v.requesting = c.requesting /\ v.queue = {}
       /\ k2 = k \cup Covers(u) \cup Content(w.queue)
    \/ /\ ~AddsUp(w, u.pts, u.count)
       /\ v = [c EXCEPT !.queue = @ \cup {u}] /\ k2 = k
    \/ /\ ~AddsUp(w, u.pts, u.count)
       /\ v = c /\ k2 = k \cup Covers(u)

LEMMA LargestIs ==
    ASSUME NEW p \in Nat, NEW q \in Nat
    PROVE  /\ Largest(p, q) \in Nat /\ p <= Largest(p, q) /\ q <= Largest(p, q)
           /\ Largest(p, q) \in {p, q}
BY DEF Largest

LEMMA CountedFields ==
    ASSUME NEW w \in Waiters, NEW p \in Nat, NEW n \in Nat, NEW c, c = Counted(w, p, n),
           NEW last, last = Largest(p, w.last)
    PROVE  /\ c \in Waiters /\ c.last = last /\ c.count = w.count + n /\ c.queue = w.queue
<1>0. /\ w = [good |-> w.good, last |-> w.last, count |-> w.count, queue |-> w.queue,
               requesting |-> w.requesting, waiting |-> w.waiting]
      /\ w.queue \in SUBSET Updates /\ w.requesting \in BOOLEAN /\ w.waiting \in BOOLEAN
  BY DEF Waiters
<1>1. w.last \in Nat /\ w.good \in Nat /\ w.count \in Nat
  BY DEF Waiters
<1>2. last \in Nat
  BY <1>1, LargestIs
<1>3. w.count + n \in Nat
  BY <1>1
<1>4. CASE AddsUp(w, p, n)
  <2>1. c = [w EXCEPT !.last = last, !.count = @ + n, !.good = last]
    BY <1>4 DEF Counted
  <2>2. c.last = last /\ c.count = w.count + n /\ c.queue = w.queue
    BY <2>1 DEF Waiters
  <2>3. c \in Waiters
    BY <1>0, <1>1, <1>2, <1>3, <2>1 DEF Waiters
  <2>. QED
    BY <2>2, <2>3
<1>5. CASE ~AddsUp(w, p, n)
  <2>1. c = [w EXCEPT !.last = last, !.count = @ + n, !.waiting = TRUE]
    BY <1>5 DEF Counted
  <2>2. c.last = last /\ c.count = w.count + n /\ c.queue = w.queue
    BY <2>1 DEF Waiters
  <2>3. c \in Waiters
    BY <1>0, <1>1, <1>2, <1>3, <2>1 DEF Waiters
  <2>. QED
    BY <2>2, <2>3
<1>. QED
  BY <1>4, <1>5

LEMMA CountedRequesting ==
    ASSUME NEW w \in Waiters, NEW p \in Nat, NEW n \in Nat, NEW c, c = Counted(w, p, n)
    PROVE  c.requesting = w.requesting
<1>1. PICK last : last = Largest(p, w.last)
  OBVIOUS
<1>2. CASE AddsUp(w, p, n)
  <2>1. c = [w EXCEPT !.last = last, !.count = @ + n, !.good = last]
    BY <1>1, <1>2 DEF Counted
  <2>. QED
    BY <2>1 DEF Waiters
<1>3. CASE ~AddsUp(w, p, n)
  <2>1. c = [w EXCEPT !.last = last, !.count = @ + n, !.waiting = TRUE]
    BY <1>1, <1>3 DEF Counted
  <2>. QED
    BY <2>1 DEF Waiters
<1>. QED
  BY <1>2, <1>3

LEMMA CountedGood ==
    ASSUME NEW w \in Waiters, NEW p \in Nat, NEW n \in Nat, NEW c, c = Counted(w, p, n),
           AddsUp(w, p, n)
    PROVE  c.good = c.last /\ c.last = w.count + n
<1>1. c = [w EXCEPT !.last = Largest(p, w.last), !.count = @ + n, !.good = Largest(p, w.last)]
  BY DEF Counted
<1>2. Largest(p, w.last) = w.count + n
  BY DEF AddsUp
<1>. QED
  BY <1>1, <1>2 DEF Waiters

LEMMA CountedBehind ==
    ASSUME NEW w \in Waiters, NEW p \in Nat, NEW n \in Nat, NEW c, c = Counted(w, p, n),
           ~AddsUp(w, p, n)
    PROVE  c.good = w.good /\ c.waiting
<1>1. c = [w EXCEPT !.last = Largest(p, w.last), !.count = @ + n, !.waiting = TRUE]
  BY DEF Counted
<1>. QED
  BY <1>1 DEF Waiters

LEMMA CountedMore ==
    ASSUME NEW L, NEW max \in Nat, LogIs(L, max), NEW w, NEW k, BoxOK(w, k, L),
           NEW u, Real(L, u), Fresh(w, k, u), Checked(w, u.pts, u.count), Inited(w),
           NEW last \in Nat, w.last <= last, u.pts <= last, last <= Top(L),
           NEW S, k \cup Content(w.queue) \cup Covers(u) \subseteq S
    PROVE  /\ w.count + u.count <= Cardinality(S \cap 1..last)
           /\ last = w.count + u.count => 1..last \subseteq S
<1>1. /\ w.good \in Nat /\ w.last \in Nat /\ w.count \in Nat /\ Top(L) \in Nat
  BY QueueIs
<1>2. /\ u.pts \in Nat /\ u.count \in Nat /\ Covers(u) \subseteq 1..u.pts
      /\ Cardinality(Covers(u)) = u.count
  BY Apart
<1>. DEFINE K == (k \cup Content(w.queue)) \cap 1..w.last
<1>0. ~w.requesting /\ u.pts > w.good /\ w.good > 0
  <2>1. u.count > 0
    BY Apart
  <2>. QED
    BY <1>1, <1>2, <2>1 DEF Checked, Old, Inited
<1>3. w.count <= Cardinality(K)
  BY <1>0 DEF BoxOK, CountOK
<1>4. K \subseteq 1..last /\ Covers(u) \subseteq 1..last
  BY <1>1, <1>2
<1>5. K \cap Covers(u) = {}
  BY <1>0 DEF Fresh
<1>6. K \cup Covers(u) \subseteq S \cap 1..last
  BY <1>4
<1>. HIDE DEF K
<1>7. Cardinality(K \cup Covers(u)) = Cardinality(K) + Cardinality(Covers(u))
  BY <1>4, <1>5, CountUp
<1>8. S \cap 1..last \subseteq 1..last
  OBVIOUS
<1>9. Cardinality(K \cup Covers(u)) <= Cardinality(S \cap 1..last) /\ Cardinality(S \cap 1..last) \in Nat
  BY <1>6, <1>8, Counting
<1>10. Cardinality(K) \in Nat
  BY <1>4, Counting
<1>11. w.count + u.count <= Cardinality(S \cap 1..last)
  BY <1>1, <1>2, <1>3, <1>7, <1>9, <1>10
<1>12. ASSUME last = w.count + u.count
       PROVE  1..last \subseteq S
  <2>1. last <= Cardinality(S \cap 1..last)
    BY <1>11, <1>12
  <2>2. S \cap 1..last = 1..last
    BY <1>8, <2>1, Full
  <2>. QED
    BY <2>2
<1>. QED
  BY <1>11, <1>12

LEMMA TakenBox ==
    ASSUME NEW L, NEW max \in Nat, LogIs(L, max), NEW w \in Waiters, NEW k, BoxOK(w, k, L),
           NEW u \in Updates, Real(L, u), Fresh(w, k, u), Checked(w, u.pts, u.count), Inited(w),
           NEW c, c = Counted(w, u.pts, u.count), NEW v, NEW k2, Takes(w, k, u, c, v, k2)
    PROVE  BoxOK(v, k2, L) /\ Fed(w, k, v, k2, L, Covers(u)) /\ v \in Waiters
<1>1. /\ w.good \in Nat /\ w.last \in Nat /\ w.count \in Nat /\ Top(L) \in Nat
      /\ w.last <= Top(L) /\ w.good <= w.last
      /\ Content(w.queue) \subseteq 1..w.last
  BY QueueIs
<1>2. /\ u.pts \in Nat /\ u.count \in Nat /\ Covers(u) \subseteq 1..u.pts /\ u.count > 0
      /\ Cardinality(Covers(u)) = u.count /\ u.pts \in L /\ u.pts <= Top(L)
  BY Apart, TopIs DEF Real
<1>3. /\ w \in Waiters /\ k \subseteq 1..Top(L) /\ 1..w.good \subseteq k
      /\ \A q \in w.queue : Real(L, q) /\ q.pts <= w.last
      /\ Content(w.queue) \cap k = {}
  BY DEF BoxOK
<1>0. ~w.requesting /\ u.pts > w.good /\ w.good > 0
  BY <1>1, <1>2 DEF Checked, Old, Inited
<1>4. Covers(u) \cap (k \cup Content(w.queue)) = {}
  BY <1>0 DEF Fresh
<1>5. PICK last : last = Largest(u.pts, w.last)
  OBVIOUS
<1>6. /\ c \in Waiters /\ c.last = last /\ c.count = w.count + u.count /\ c.queue = w.queue
      /\ c.requesting = w.requesting
      /\ AddsUp(w, u.pts, u.count) => c.good = last
      /\ ~AddsUp(w, u.pts, u.count) => c.good = w.good /\ c.waiting
      /\ last \in Nat /\ u.pts <= last /\ w.last <= last
      /\ AddsUp(w, u.pts, u.count) => last = w.count + u.count
  <2>1. last \in Nat /\ u.pts <= last /\ w.last <= last
    BY <1>1, <1>2, <1>5, LargestIs
  <2>2. PICK p \in Nat, n \in Nat : p = u.pts /\ n = u.count
    BY <1>2
  <2>3. c = Counted(w, p, n) /\ last = Largest(p, w.last) /\ w \in Waiters
    BY <1>3, <1>5, <2>2
  <2>4. c \in Waiters /\ c.last = last /\ c.count = w.count + n /\ c.queue = w.queue
    BY <2>3, CountedFields, Z3
  <2>7. c.requesting = w.requesting
    BY <2>3, CountedRequesting
  <2>5. AddsUp(w, u.pts, u.count) => c.good = last /\ last = w.count + u.count
    BY <2>2, <2>3, <2>4, CountedGood
  <2>6. ~AddsUp(w, u.pts, u.count) => c.good = w.good /\ c.waiting
    BY <2>2, <2>3, CountedBehind
  <2>. QED
    BY <2>1, <2>2, <2>4, <2>5, <2>6, <2>7
<1>7. last <= Top(L)
  <2>1. last \in {u.pts, w.last}
    BY <1>1, <1>2, <1>5, LargestIs
  <2>. QED
    BY <1>1, <1>2, <2>1
<1>8. Covers(u) \subseteq 1..last /\ Content(w.queue) \subseteq 1..last /\ 1..last \subseteq 1..Top(L)
  BY <1>1, <1>2, <1>6, <1>7
<1>9. ASSUME NEW S, k \cup Content(w.queue) \cup Covers(u) \subseteq S
      PROVE  /\ w.count + u.count <= Cardinality(S \cap 1..last)
             /\ last = w.count + u.count => 1..last \subseteq S
  BY <1>6, <1>7, <1>9, CountedMore
<1>10. CASE /\ AddsUp(w, u.pts, u.count)
            /\ v \in Waiters /\ v.good = c.good /\ v.last = c.last /\ v.count = c.count
            /\ v.requesting = c.requesting /\ v.queue = {}
            /\ k2 = k \cup Covers(u) \cup Content(w.queue)
  <2>1. /\ v \in Waiters /\ v.last = last /\ v.count = w.count + u.count /\ v.queue = {}
        /\ v.requesting = w.requesting /\ v.good = last
    BY <1>6, <1>10
  <2>2. k2 \subseteq 1..Top(L)
    BY <1>3, <1>8, <1>10
  <2>3. last = w.count + u.count
    BY <1>6, <1>10
  <2>4. k \cup Content(w.queue) \cup Covers(u) \subseteq k2
    BY <1>10
  <2>5. 1..last \subseteq k2 /\ w.count + u.count <= Cardinality(k2 \cap 1..last)
    BY <1>9, <2>3, <2>4
  <2>6. CountOK(v, k2)
    <3>1. (k2 \cup Content(v.queue)) \cap 1..v.last = k2 \cap 1..last
      BY <2>1, ContentIs
    <3>2. v.count <= Cardinality((k2 \cup Content(v.queue)) \cap 1..v.last)
      BY <2>1, <2>5, <3>1
    <3>. QED
      BY <3>2 DEF CountOK
  <2>7. BoxOK(v, k2, L)
    <3>1. v.good <= v.last /\ v.last <= Top(L) /\ 1..v.good \subseteq k2
      BY <1>6, <1>7, <2>1, <2>5
    <3>2. (\A q \in v.queue : Real(L, q) /\ q.pts <= v.last) /\ Content(v.queue) \cap k2 = {}
      BY <2>1, ContentIs
    <3>3. /\ v.queue # {} => v.waiting /\ ~v.requesting
          /\ v.good = 0 => v.last = 0 /\ v.queue = {}
      BY <2>1
    <3>. QED
      BY <2>1, <2>2, <2>6, <3>1, <3>2, <3>3 DEF BoxOK
  <2>8. Fed(w, k, v, k2, L, Covers(u))
    <3>1. v.requesting = w.requesting /\ w.good <= v.good /\ (w.requesting => v.good = w.good)
      BY <1>0, <1>1, <1>6, <2>1
    <3>2. /\ k \subseteq k2 /\ Content(w.queue) \subseteq k2 \cup Content(v.queue)
          /\ Covers(u) \subseteq k2 \cup Content(v.queue)
      BY <1>10
    <3>3. 0 \in L \cup {0} /\ 0 <= v.good
      BY <1>6, <2>1
    <3>4. k2 \cup Content(v.queue) \subseteq k \cup Content(w.queue) \cup Covers(u) \cup 1..0
      BY <1>10, <2>1, ContentIs
    <3>. QED
      BY <3>1, <3>2, <3>3, <3>4 DEF Fed
  <2>. QED
    BY <2>1, <2>7, <2>8
<1>11. CASE /\ ~AddsUp(w, u.pts, u.count)
            /\ v = [c EXCEPT !.queue = @ \cup {u}] /\ k2 = k
  <2>1. /\ v \in Waiters /\ v.last = last /\ v.count = w.count + u.count /\ v.queue = w.queue \cup {u}
        /\ v.requesting = w.requesting /\ v.good = w.good /\ v.waiting
    BY <1>6, <1>11 DEF Waiters
  <2>2. Content(v.queue) = Content(w.queue) \cup Covers(u)
    BY <2>1, ContentIs
  <2>5. w.count + u.count <= Cardinality((k2 \cup Content(v.queue)) \cap 1..last)
    <3>1. k \cup Content(w.queue) \cup Covers(u) \subseteq k2 \cup Content(v.queue)
      BY <1>11, <2>2
    <3>. QED
      BY <1>9, <3>1
  <2>6. CountOK(v, k2)
    <3>1. v.count <= Cardinality((k2 \cup Content(v.queue)) \cap 1..v.last)
      BY <2>1, <2>5
    <3>. QED
      BY <3>1 DEF CountOK
  <2>7. BoxOK(v, k2, L)
    <3>1. v.good <= v.last /\ v.last <= Top(L) /\ 1..v.good \subseteq k2 /\ k2 \subseteq 1..Top(L)
      BY <1>1, <1>3, <1>6, <1>7, <1>11, <2>1
    <3>2. \A q \in v.queue : Real(L, q) /\ q.pts <= v.last
      <4>. SUFFICES ASSUME NEW q \in v.queue PROVE Real(L, q) /\ q.pts <= v.last
        OBVIOUS
      <4>1. CASE q = u
        BY <1>6, <2>1, <4>1
      <4>2. CASE q \in w.queue
        <5>1. Real(L, q) /\ q.pts <= w.last
          BY <1>3, <4>2
        <5>2. q.pts \in Nat
          BY <5>1, Apart
        <5>. QED
          BY <1>1, <1>6, <2>1, <5>1, <5>2
      <4>. QED
        BY <2>1, <4>1, <4>2
    <3>3. Content(v.queue) \cap k2 = {}
      BY <1>3, <1>4, <1>11, <2>2
    <3>4. /\ v.queue # {} => v.waiting /\ ~v.requesting
          /\ v.good = 0 => v.last = 0 /\ v.queue = {}
      BY <1>0, <2>1
    <3>. QED
      BY <2>1, <2>6, <3>1, <3>2, <3>3, <3>4 DEF BoxOK
  <2>8. Fed(w, k, v, k2, L, Covers(u))
    <3>1. v.requesting = w.requesting /\ w.good <= v.good /\ (w.requesting => v.good = w.good)
      BY <1>0, <1>1, <1>6, <2>1
    <3>2. /\ k \subseteq k2 /\ Content(w.queue) \subseteq k2 \cup Content(v.queue)
          /\ Covers(u) \subseteq k2 \cup Content(v.queue)
      BY <1>11, <2>2
    <3>3. 0 \in L \cup {0} /\ 0 <= v.good
      BY <1>1, <2>1
    <3>4. k2 \cup Content(v.queue) \subseteq k \cup Content(w.queue) \cup Covers(u) \cup 1..0
      BY <1>11, <2>2
    <3>. QED
      BY <3>1, <3>2, <3>3, <3>4 DEF Fed
  <2>. QED
    BY <2>1, <2>7, <2>8
<1>12. CASE /\ ~AddsUp(w, u.pts, u.count)
            /\ v = c /\ k2 = k \cup Covers(u)
  <2>1. /\ v \in Waiters /\ v.last = last /\ v.count = w.count + u.count /\ v.queue = w.queue
        /\ v.requesting = w.requesting /\ v.good = w.good /\ v.waiting
    BY <1>6, <1>12
  <2>2. Content(v.queue) = Content(w.queue)
    BY <2>1
  <2>5. w.count + u.count <= Cardinality((k2 \cup Content(v.queue)) \cap 1..last)
    <3>1. k \cup Content(w.queue) \cup Covers(u) \subseteq k2 \cup Content(v.queue)
      BY <1>12, <2>2
    <3>. QED
      BY <1>9, <3>1
  <2>6. CountOK(v, k2)
    <3>1. v.count <= Cardinality((k2 \cup Content(v.queue)) \cap 1..v.last)
      BY <2>1, <2>5
    <3>. QED
      BY <3>1 DEF CountOK
  <2>7. BoxOK(v, k2, L)
    <3>0. k2 \subseteq 1..Top(L) /\ k \subseteq k2
      BY <1>3, <1>8, <1>12
    <3>1. v.good <= v.last /\ v.last <= Top(L) /\ 1..v.good \subseteq k2 /\ k2 \subseteq 1..Top(L)
      BY <1>1, <1>3, <1>6, <1>7, <2>1, <3>0
    <3>2. \A q \in v.queue : Real(L, q) /\ q.pts <= v.last
      <4>. SUFFICES ASSUME NEW q \in v.queue PROVE Real(L, q) /\ q.pts <= v.last
        OBVIOUS
      <4>1. Real(L, q) /\ q.pts <= w.last
        BY <1>3, <2>1
      <4>2. q.pts \in Nat
        BY <4>1, Apart
      <4>. QED
        BY <1>1, <1>6, <2>1, <4>1, <4>2
    <3>3. Content(v.queue) \cap k2 = {}
      BY <1>3, <1>4, <1>12, <2>2
    <3>4. /\ v.queue # {} => v.waiting /\ ~v.requesting
          /\ v.good = 0 => v.last = 0 /\ v.queue = {}
      BY <1>0, <2>1
    <3>. QED
      BY <2>1, <2>6, <3>1, <3>2, <3>3, <3>4 DEF BoxOK
  <2>8. Fed(w, k, v, k2, L, Covers(u))
    <3>1. v.requesting = w.requesting /\ w.good <= v.good /\ (w.requesting => v.good = w.good)
      BY <1>0, <1>1, <1>6, <2>1
    <3>2. /\ k \subseteq k2 /\ Content(w.queue) \subseteq k2 \cup Content(v.queue)
          /\ Covers(u) \subseteq k2 \cup Content(v.queue)
      BY <1>12, <2>2
    <3>3. 0 \in L \cup {0} /\ 0 <= v.good
      BY <1>1, <2>1
    <3>4. k2 \cup Content(v.queue) \subseteq k \cup Content(w.queue) \cup Covers(u) \cup 1..0
      BY <1>12, <2>2
    <3>. QED
      BY <3>1, <3>2, <3>3, <3>4 DEF Fed
  <2>. QED
    BY <2>1, <2>7, <2>8
<1>. QED
  BY <1>10, <1>11, <1>12 DEF Takes


\* What waits is let out by the pts p that came with a part of the history.
LEMMA HistoryBox ==
    ASSUME NEW L, NEW max \in Nat, LogIs(L, max), NEW w \in Waiters, NEW k, BoxOK(w, k, L),
           NEW p \in L, Checked(w, p, 0), Inited(w), NEW c, c = Counted(w, p, 0),
           NEW v, v = Unskipped(c), NEW k2, k2 = k \cup Content(w.queue)
    PROVE  BoxOK(v, k2, L) /\ Fed(w, k, v, k2, L, {}) /\ v \in Waiters
           /\ Skipped(c) = w.queue
<1>1. /\ w.good \in Nat /\ w.last \in Nat /\ w.count \in Nat /\ Top(L) \in Nat
      /\ w.last <= Top(L) /\ w.good <= w.last
      /\ Content(w.queue) \subseteq 1..w.last
  BY QueueIs
<1>2. p \in Nat /\ p <= Top(L) /\ 0 \in Nat
  BY TopIs
<1>0. ~w.requesting /\ w.good > 0
  BY <1>1 DEF Checked, Inited
<1>3. /\ k \subseteq 1..Top(L) /\ 1..w.good \subseteq k
      /\ \A q \in w.queue : Real(L, q) /\ q.pts <= w.last
      /\ w.queue # {} => w.waiting
      /\ w.count <= Cardinality((k \cup Content(w.queue)) \cap 1..w.last)
  BY <1>0 DEF BoxOK, CountOK
<1>4. PICK last : last = Largest(p, w.last)
  OBVIOUS
<1>5. last \in Nat /\ w.last <= last /\ last \in {p, w.last}
  BY <1>1, <1>2, <1>4, LargestIs
<1>6. /\ c \in Waiters /\ c.last = last /\ c.count = w.count /\ c.queue = w.queue
      /\ c.requesting = w.requesting
      /\ AddsUp(w, p, 0) => c.good = last /\ last = w.count
      /\ ~AddsUp(w, p, 0) => c.good = w.good /\ c.waiting
  <2>1. c \in Waiters /\ c.last = last /\ c.count = w.count + 0 /\ c.queue = w.queue
    BY <1>2, <1>4, CountedFields, Z3
  <2>2. c.requesting = w.requesting
    BY <1>2, CountedRequesting
  <2>3. AddsUp(w, p, 0) => c.good = last /\ last = w.count
    BY <1>1, <1>2, <2>1, CountedGood
  <2>4. ~AddsUp(w, p, 0) => c.good = w.good /\ c.waiting
    BY <1>2, CountedBehind
  <2>. QED
    BY <1>1, <2>1, <2>2, <2>3, <2>4
<1>7. c.queue # {} => c.waiting
  <2>1. AddsUp(w, p, 0) => c.waiting = w.waiting
    BY <1>2 DEF Counted, Waiters
  <2>. QED
    BY <1>3, <1>6, <2>1
<1>8. /\ v \in Waiters /\ v.good = c.good /\ v.last = last /\ v.count = w.count
      /\ v.requesting = w.requesting /\ v.queue = {} /\ Skipped(c) = w.queue
  BY <1>6, <1>7, UnskippedIs
<1>9. last <= Top(L) /\ 1..last \subseteq 1..Top(L) /\ 1..w.last \subseteq 1..last
  BY <1>1, <1>2, <1>5
<1>10. k2 \subseteq 1..Top(L)
  BY <1>1, <1>3, <1>9
<1>11. w.count <= Cardinality(k2 \cap 1..last)
  <2>1. k2 \cap 1..last \subseteq 1..last /\ k2 \cap 1..w.last \subseteq k2 \cap 1..last
    BY <1>9
  <2>2. /\ Cardinality(k2 \cap 1..w.last) <= Cardinality(k2 \cap 1..last)
        /\ Cardinality(k2 \cap 1..last) \in Nat
    BY <1>5, <2>1, Counting
  <2>3. k2 \cap 1..w.last \subseteq 1..w.last
    OBVIOUS
  <2>4. Cardinality(k2 \cap 1..w.last) \in Nat
    BY <1>1, <2>3, Counting
  <2>. QED
    BY <1>1, <1>3, <2>2, <2>4
<1>12. 1..v.good \subseteq k2
  <2>1. CASE AddsUp(w, p, 0)
    <3>1. last <= Cardinality(k2 \cap 1..last)
      BY <1>6, <1>11, <2>1
    <3>2. k2 \cap 1..last \subseteq 1..last
      OBVIOUS
    <3>3. k2 \cap 1..last = 1..last
      BY <1>5, <3>1, <3>2, Full
    <3>. QED
      BY <1>6, <1>8, <2>1, <3>3
  <2>2. CASE ~AddsUp(w, p, 0)
    BY <1>3, <1>6, <1>8, <2>2
  <2>. QED
    BY <2>1, <2>2
<1>13. v.good \in Nat /\ w.good <= v.good /\ v.good <= v.last
  BY <1>1, <1>5, <1>6, <1>8
<1>14. CountOK(v, k2)
  <2>1. (k2 \cup Content(v.queue)) \cap 1..v.last = k2 \cap 1..last
    BY <1>8, ContentIs
  <2>2. v.count <= Cardinality((k2 \cup Content(v.queue)) \cap 1..v.last)
    BY <1>8, <1>11, <2>1
  <2>. QED
    BY <2>2 DEF CountOK
<1>15. BoxOK(v, k2, L)
  <2>1. (\A q \in v.queue : Real(L, q) /\ q.pts <= v.last) /\ Content(v.queue) \cap k2 = {}
    BY <1>8, ContentIs
  <2>2. /\ v.queue # {} => v.waiting /\ ~v.requesting
        /\ v.good = 0 => v.last = 0 /\ v.queue = {}
    BY <1>0, <1>1, <1>8, <1>13
  <2>3. v \in Waiters /\ v.last <= Top(L)
    BY <1>8, <1>9
  <2>. QED
    BY <1>10, <1>12, <1>13, <1>14, <2>1, <2>2, <2>3 DEF BoxOK
<1>16. Fed(w, k, v, k2, L, {})
  <2>1. v.requesting = w.requesting /\ (w.requesting => v.good = w.good)
    BY <1>0, <1>8
  <2>2. k \subseteq k2 /\ Content(w.queue) \subseteq k2 \cup Content(v.queue)
    OBVIOUS
  <2>3. 0 \in L \cup {0} /\ 0 <= v.good
    BY <1>13
  <2>4. k2 \cup Content(v.queue) \subseteq k \cup Content(w.queue) \cup {} \cup 1..0
    BY <1>8, ContentIs
  <2>. QED
    BY <1>13, <2>1, <2>2, <2>3, <2>4 DEF Fed
<1>. QED
  BY <1>8, <1>15, <1>16
-----------------------------------------------------------------------------
(***************************************************************************)
(* The stream and the requests.                                            *)
(***************************************************************************)
\* t is s without its element x, or is s when x is 0; At is where an element was.
At(x, k) == IF x = 0 \/ k < x THEN k ELSE k + 1
Removes(t, s, x) ==
    \/ x = 0 /\ t = s
    \/ /\ x \in 1..Len(s) /\ Len(t) = Len(s) - 1
       /\ \A k \in 1..Len(t) : t[k] = s[IF k < x THEN k ELSE k + 1]

LEMMA RemovesIs ==
    ASSUME NEW S, NEW s \in Seq(S), NEW t \in Seq(S), NEW x, Removes(t, s, x)
    PROVE  /\ \A k \in 1..Len(t) : At(x, k) \in 1..Len(s) /\ At(x, k) # x /\ t[k] = s[At(x, k)]
           /\ \A k, l \in 1..Len(t) : k < l => At(x, k) < At(x, l)
           /\ \A i \in 1..Len(s) : i # x => \E k \in 1..Len(t) : At(x, k) = i
<1>1. Len(s) \in Nat /\ Len(t) \in Nat
  OBVIOUS
<1>2. CASE x = 0 /\ t = s
  BY <1>1, <1>2 DEF At
<1>3. CASE /\ x \in 1..Len(s) /\ Len(t) = Len(s) - 1
           /\ \A k \in 1..Len(t) : t[k] = s[IF k < x THEN k ELSE k + 1]
  <2>1. ASSUME NEW k \in 1..Len(t)
        PROVE  At(x, k) \in 1..Len(s) /\ At(x, k) # x /\ t[k] = s[At(x, k)]
    BY <1>1, <1>3 DEF At
  <2>2. ASSUME NEW k \in 1..Len(t), NEW l \in 1..Len(t), k < l
        PROVE  At(x, k) < At(x, l)
    BY <1>1, <1>3, <2>2 DEF At
  <2>3. ASSUME NEW i \in 1..Len(s), i # x
        PROVE  \E k \in 1..Len(t) : At(x, k) = i
    <3>1. CASE i < x
      <4>1. i \in 1..Len(t) /\ At(x, i) = i
        BY <1>1, <1>3, <3>1 DEF At
      <4>. QED
        BY <4>1
    <3>2. CASE i > x
      <4>1. i - 1 \in 1..Len(t) /\ At(x, i - 1) = i
        BY <1>1, <1>3, <3>2 DEF At
      <4>. QED
        BY <4>1
    <3>. QED
      BY <1>3, <2>3, <3>1, <3>2
  <2>. QED
    BY <2>1, <2>2, <2>3
<1>. QED
  BY <1>2, <1>3 DEF Removes

LEMMA WithoutRemoves ==
    ASSUME NEW S, NEW s \in Seq(S), NEW i \in 1..Len(s)
    PROVE  Without(s, i) \in Seq(S) /\ Removes(Without(s, i), s, i)
<1>1. PICK n \in Nat : n = Len(s)
  OBVIOUS
<1>2. PICK a : a = SubSeq(s, 1, i - 1)
  OBVIOUS
<1>3. PICK b : b = SubSeq(s, i + 1, n)
  OBVIOUS
<1>4. a \in Seq(S) /\ Len(a) = i - 1 /\ \A k \in 1..(i - 1) : a[k] = s[k]
  BY <1>1, <1>2
<1>5. b \in Seq(S) /\ Len(b) = n - i /\ \A k \in 1..(n - i) : b[k] = s[i + k]
  BY <1>1, <1>3
<1>6. PICK t : t = a \o b
  OBVIOUS
<1>7. t \in Seq(S) /\ Len(t) = n - 1
  BY <1>1, <1>4, <1>5, <1>6
<1>8. ASSUME NEW k \in 1..(n - 1)
      PROVE  t[k] = s[IF k < i THEN k ELSE k + 1]
  <2>1. CASE k < i
    BY <1>1, <1>4, <1>5, <1>6, <2>1
  <2>2. CASE k >= i
    <3>1. t[k] = b[k - (i - 1)]
      BY <1>1, <1>4, <1>5, <1>6, <2>2
    <3>2. k - (i - 1) \in 1..(n - i) /\ i + (k - (i - 1)) = k + 1
      BY <1>1, <2>2
    <3>. QED
      BY <1>5, <2>2, <3>1, <3>2
  <2>. QED
    BY <1>1, <2>1, <2>2
<1>9. t = Without(s, i)
  BY <1>1, <1>2, <1>3, <1>6 DEF Without
<1>. QED
  BY <1>1, <1>7, <1>8, <1>9 DEF Removes

LEMMA TailRemoves ==
    ASSUME NEW S, NEW s \in Seq(S), s # <<>>
    PROVE  Tail(s) \in Seq(S) /\ Removes(Tail(s), s, 1) /\ 1 \in 1..Len(s) /\ Head(s) = s[1]
BY DEF Removes

\* q has the requests of p without the one at y, and differences of the boxes A, one each.
From(q, p, y, A) ==
    \E f \in [1..Len(q) -> Nat] :
        /\ \A i \in 1..Len(q) : \/ f[i] \in 1..Len(p) /\ f[i] # y /\ q[i] = p[f[i]]
                                \/ f[i] = 0 /\ \E b \in A : q[i] = Request("difference", b)
        /\ \A i, j \in 1..Len(q) :
              i # j => f[i] # f[j] \/ (f[i] = 0 /\ f[j] = 0 /\ q[i].box # q[j].box)
        /\ \A k \in 1..Len(p) : k # y => \E i \in 1..Len(q) : f[i] = k

LEMMA RemovesFrom ==
    ASSUME NEW S, NEW p \in Seq(S), NEW t \in Seq(S), NEW y, Removes(t, p, y),
           NEW q \in Seq(S), NEW A, Len(t) <= Len(q),
           \A i \in 1..Len(t) : q[i] = t[i],
           \A i \in (Len(t) + 1)..Len(q) : \E b \in A : q[i] = Request("difference", b),
           \A i, j \in (Len(t) + 1)..Len(q) : i # j => q[i].box # q[j].box
    PROVE  From(q, p, y, A)
<1>1. Len(t) \in Nat /\ Len(q) \in Nat /\ Len(p) \in Nat
  OBVIOUS
<1>2. /\ \A k \in 1..Len(t) : At(y, k) \in 1..Len(p) /\ At(y, k) # y /\ t[k] = p[At(y, k)]
      /\ \A k, l \in 1..Len(t) : k < l => At(y, k) < At(y, l)
      /\ \A i \in 1..Len(p) : i # y => \E k \in 1..Len(t) : At(y, k) = i
  BY RemovesIs
<1>3. PICK f : f = [i \in 1..Len(q) |-> IF i <= Len(t) THEN At(y, i) ELSE 0]
  OBVIOUS
<1>4. \A i \in 1..Len(t) : i \in 1..Len(q) /\ f[i] = At(y, i)
  BY <1>1, <1>3
<1>5. \A i \in (Len(t) + 1)..Len(q) : i \in 1..Len(q) /\ f[i] = 0
  BY <1>1, <1>3
<1>6. \A i \in 1..Len(q) : i \in 1..Len(t) \/ i \in (Len(t) + 1)..Len(q)
  BY <1>1
<1>7. f \in [1..Len(q) -> Nat]
  <2>1. \A i \in 1..Len(q) : f[i] \in Nat
    BY <1>1, <1>2, <1>4, <1>5, <1>6
  <2>. QED
    BY <1>3, <2>1
<1>8. ASSUME NEW i \in 1..Len(q)
      PROVE  \/ f[i] \in 1..Len(p) /\ f[i] # y /\ q[i] = p[f[i]]
             \/ f[i] = 0 /\ \E b \in A : q[i] = Request("difference", b)
  BY <1>2, <1>4, <1>5, <1>6
<1>9. ASSUME NEW i \in 1..Len(q), NEW j \in 1..Len(q), i # j
      PROVE  f[i] # f[j] \/ (f[i] = 0 /\ f[j] = 0 /\ q[i].box # q[j].box)
  <2>1. CASE i \in 1..Len(t) /\ j \in 1..Len(t)
    <3>1. At(y, i) # At(y, j)
      <4>1. CASE i < j
        <5>1. At(y, i) < At(y, j) /\ At(y, i) \in Int /\ At(y, j) \in Int
          BY <1>2, <2>1, <4>1
        <5>. QED
          BY <5>1
      <4>2. CASE j < i
        <5>1. At(y, j) < At(y, i) /\ At(y, i) \in Int /\ At(y, j) \in Int
          BY <1>2, <2>1, <4>2
        <5>. QED
          BY <5>1
      <4>. QED
        BY <1>9, <4>1, <4>2
    <3>. QED
      BY <1>4, <2>1, <3>1
  <2>2. CASE i \in 1..Len(t) /\ j \in (Len(t) + 1)..Len(q)
    BY <1>1, <1>2, <1>4, <1>5, <2>2
  <2>3. CASE j \in 1..Len(t) /\ i \in (Len(t) + 1)..Len(q)
    BY <1>1, <1>2, <1>4, <1>5, <2>3
  <2>4. CASE i \in (Len(t) + 1)..Len(q) /\ j \in (Len(t) + 1)..Len(q)
    BY <1>5, <1>9, <2>4
  <2>. QED
    BY <1>6, <2>1, <2>2, <2>3, <2>4
<1>10. ASSUME NEW k \in 1..Len(p), k # y
       PROVE  \E i \in 1..Len(q) : f[i] = k
  <2>1. PICK i \in 1..Len(t) : At(y, i) = k
    BY <1>2, <1>10
  <2>2. i \in 1..Len(q) /\ f[i] = k
    BY <1>4, <2>1
  <2>. QED
    BY <2>2
<1>. QED
  BY <1>7, <1>8, <1>9, <1>10 DEF From

\* The boxes, of which there are finitely many, may all be asked for at once.
LEMMA BoxesAreFinite == IsFiniteSet(Boxes) /\ Main \in Boxes /\ Channels \subseteq Boxes
<1>1. IsFiniteSet({Main} \cup Channels)
  <2>1. IsFiniteSet(Channels \cup {Main})
    BY ChannelsAreFinite, FS_AddElement
  <2>2. Channels \cup {Main} = {Main} \cup Channels
    OBVIOUS
  <2>. QED
    BY <2>1, <2>2
<1>. QED
  BY <1>1 DEF Boxes

LEMMA RequestIs ==
    ASSUME NEW b \in Boxes
    PROVE  /\ Request("difference", b) \in Requests
           /\ Request("difference", b).box = b /\ Request("difference", b).kind = "difference"
           /\ Request("difference", b).pts = 0 /\ Request("difference", b).answered = FALSE
BY DEF Request, Requests

LEMMA OrdersFrom ==
    ASSUME NEW A, A \subseteq Boxes, NEW s \in Orders(A), NEW p \in Seq(Requests),
           NEW t \in Seq(Requests), NEW y, Removes(t, p, y)
    PROVE  /\ t \o DifferencesOf(s) \in Seq(Requests)
           /\ From(t \o DifferencesOf(s), p, y, A)
<1>1. PICK n \in Nat : n = Cardinality(A)
  <2>1. A \in SUBSET Boxes /\ IsFiniteSet(Boxes)
    BY BoxesAreFinite
  <2>2. IsFiniteSet(A)
    BY <2>1, FS_Subset
  <2>3. Cardinality(A) \in Nat
    BY <2>2, FS_CardinalityType
  <2>. QED
    BY <2>3
<1>2. s \in [1..n -> A] /\ \A i, j \in 1..n : s[i] = s[j] => i = j
  BY <1>1 DEF Orders
<1>3. PICK d : d = DifferencesOf(s)
  OBVIOUS
<1>4. d = [i \in 1..n |-> Request("difference", s[i])]
  BY <1>2, <1>3 DEF DifferencesOf
<1>5. \A i \in 1..n : /\ s[i] \in A /\ s[i] \in Boxes /\ d[i] = Request("difference", s[i])
                      /\ d[i] \in Requests /\ d[i].box = s[i]
  BY <1>2, <1>4, RequestIs
<1>6. d \in Seq(Requests) /\ Len(d) = n
  BY <1>4, <1>5
<1>7. PICK q : q = t \o d
  OBVIOUS
<1>8. q \in Seq(Requests) /\ Len(q) = Len(t) + n /\ Len(t) \in Nat
  <2>1. q \in Seq(Requests)
    BY <1>6, <1>7
  <2>2. Len(q) = Len(t) + Len(d)
    <3>1. d \in Seq(Requests)
      BY <1>6
    <3>2. Len(t \o d) = Len(t) + Len(d)
      BY <3>1
    <3>. QED
      BY <1>7, <3>2
  <2>3. Len(t) \in Nat
    OBVIOUS
  <2>. QED
    BY <1>6, <2>1, <2>2, <2>3
<1>9. \A i \in 1..Len(t) : q[i] = t[i]
  BY <1>6, <1>7, <1>8
<1>10. \A i \in (Len(t) + 1)..Len(q) : i - Len(t) \in 1..n /\ q[i] = d[i - Len(t)]
  BY <1>6, <1>7, <1>8
<1>11. \A i \in (Len(t) + 1)..Len(q) : \E b \in A : q[i] = Request("difference", b)
  BY <1>5, <1>10
<1>12. ASSUME NEW i \in (Len(t) + 1)..Len(q), NEW j \in (Len(t) + 1)..Len(q), i # j
       PROVE  q[i].box # q[j].box
  <2>1. PICK k \in 1..n, l \in 1..n : k = i - Len(t) /\ l = j - Len(t) /\ q[i] = d[k] /\ q[j] = d[l]
    BY <1>10
  <2>2. k # l
    BY <1>8, <1>12, <2>1
  <2>3. q[i].box = s[k] /\ q[j].box = s[l]
    BY <1>5, <2>1
  <2>. QED
    BY <1>2, <2>2, <2>3
<1>13. Len(t) <= Len(q)
  BY <1>8
<1>14. From(q, p, y, A)
  BY <1>8, <1>9, <1>11, <1>12, <1>13, RemovesFrom
<1>. QED
  BY <1>3, <1>7, <1>8, <1>14

-----------------------------------------------------------------------------
(***************************************************************************)
(* The inductive invariant.                                                *)
(***************************************************************************)
OwnKinds == {"updates", "affected"}
One(p) == [pts |-> p, count |-> 1]
Asked(b, r) == r.kind = "difference" /\ r.box = b
\* The answer m is one to the request r.
SameAsk(r, m) == r.box = m.box /\ (r.kind \in Acts <=> m.kind \in Acts)

Types ==
    /\ waiter \in [Boxes -> Waiters] /\ byPts \subseteq Boxes /\ afterFail \subseteq Boxes
    /\ minChannel \in BOOLEAN
    /\ pending \in Seq(Requests) /\ stream \in Seq(Messages)
    /\ log \in [Boxes -> SUBSET Nat] /\ known \in [Boxes -> SUBSET Nat]
    /\ own \in [Boxes -> SUBSET Nat] /\ again \in [Boxes -> SUBSET Nat]
    /\ swaps \in 0..MaxSwaps /\ acts \in 0..MaxActs /\ losses \in 0..MaxLosses /\ fails \in 0..MaxFails

LogsOK == \A b \in Boxes : LogIs(log[b], MaxPts(b)) /\ own[b] \subseteq log[b]

BoxesOK == \A b \in Boxes : BoxOK(waiter[b], known[b], log[b]) /\ again[b] \subseteq known[b]

\* What waits in a queue has a time.
TimersOK == \A b \in Boxes : waiter[b].queue # {} => b \in byPts

\* Of every box there is one request of the user and one difference at a time.
RequestsDiffer ==
    \A i, j \in 1..Len(pending) : i # j => ~SameAsk(pending[i], pending[j])
RequestOK(r) ==
    /\ r.kind = "difference" => waiter[r.box].requesting /\ (r.box = Main => Main \notin afterFail)
    /\ r.kind \in Acts => Inited(waiter[Main])
    /\ r.kind = "history" => r.box \in Channels /\ (r.pts # 0 => r.pts \in log[r.box])
    /\ r.kind \in OwnKinds => Inited(waiter[r.box]) /\ (r.pts # 0 => r.pts \in own[r.box])
    /\ r.kind = "difference" => r.pts = 0
    /\ r.kind \in Acts /\ r.answered => r.pts # 0
RequestsOK == \A i \in 1..Len(pending) : RequestOK(pending[i])

\* Every answer in the stream is the one to its request.
AnswersDiffer ==
    \A i, j \in 1..Len(stream) :
        i # j /\ IsAnswer(stream[i]) /\ IsAnswer(stream[j]) => ~SameAsk(stream[i], stream[j])
AnswerTo(r, m) ==
    /\ SameAsk(r, m) /\ r.answered
    /\ m.kind \in Acts => r.kind = m.kind /\ r.pts = m.pts
AnswerOK(m) ==
    /\ IsAnswer(m) => \E i \in 1..Len(pending) : AnswerTo(pending[i], m)
    /\ m.kind \in OwnKinds => m.count = 1
    /\ m.kind = "difference" => m.pts \in log[m.box] /\ waiter[m.box].good <= m.pts
AnswersOK == \A j \in 1..Len(stream) : AnswerOK(stream[j])

\* What is pushed was not seen before, ...
PushesDiffer ==
    \A i, j \in 1..Len(stream) :
        i # j /\ stream[i].kind = "push" /\ stream[j].kind = "push" /\ stream[i].box = stream[j].box
            => stream[i].pts # stream[j].pts
PushOK(m) ==
    m.kind = "push" => /\ Real(log[m.box], m) /\ m.pts \notin own[m.box]
                       /\ Fresh(waiter[m.box], known[m.box], m)
PushesOK == \A j \in 1..Len(stream) : PushOK(stream[j])

\* ... nor was the update of a request that waits for its answer.
OwnOK(r) ==
    r.kind \in OwnKinds /\ r.pts # 0 =>
        Real(log[r.box], One(r.pts)) /\ Fresh(waiter[r.box], known[r.box], One(r.pts))
OwnsOK == \A i \in 1..Len(pending) : OwnOK(pending[i])

\* What the client knows of the account beyond the good updates is its own.
MainOK == known[Main] \ (1..waiter[Main].good) \subseteq own[Main] /\ AppliedOnce

Safe ==
    /\ Types /\ LogsOK /\ BoxesOK /\ TimersOK
    /\ RequestsDiffer /\ RequestsOK /\ AnswersDiffer /\ AnswersOK
    /\ PushesDiffer /\ PushesOK /\ OwnsOK /\ MainOK

-----------------------------------------------------------------------------
(***************************************************************************)
(* Handling a message.                                                     *)
(***************************************************************************)
LEMMA MessageIs ==
    ASSUME Types, NEW j \in 1..Len(stream), NEW m, m = stream[j]
    PROVE  /\ m \in Messages /\ m.box \in Boxes /\ m.pts \in Nat /\ m.count \in Nat
           /\ m.more \in BOOLEAN /\ m.late \in [Channels -> Nat]
           /\ m.kind \in Acts \cup {"push", "session", "difference", "fail"}
<1>1. m \in Messages
  BY DEF Types
<1>. QED
  BY <1>1 DEF Messages

LEMMA PendingIs ==
    ASSUME Types, NEW i \in 1..Len(pending), NEW r, r = pending[i]
    PROVE  /\ r \in Requests /\ r.box \in Boxes /\ r.pts \in Nat /\ r.answered \in BOOLEAN
           /\ r.kind \in Acts \cup {"difference"}
<1>1. r \in Requests
  BY DEF Types
<1>. QED
  BY <1>1 DEF Requests

LEMMA Kinds ==
    /\ OwnKinds \subseteq Acts /\ "history" \in Acts /\ "history" \notin OwnKinds
    /\ Acts \subseteq OwnKinds \cup {"history"}
    /\ "difference" \notin Acts /\ "push" \notin Acts /\ "session" \notin Acts /\ "fail" \notin Acts
BY DEF OwnKinds, Acts

LEMMA PlaceIs ==
    ASSUME Types, RequestsDiffer, AnswersOK,
           NEW j \in 1..Len(stream), IsAnswer(stream[j])
    PROVE  /\ PlaceOf(stream[j]) \in 1..Len(pending)
           /\ AnswerTo(pending[PlaceOf(stream[j])], stream[j])
<1>1. PICK m : m = stream[j]
  OBVIOUS
<1>2. PICK i \in 1..Len(pending) : AnswerTo(pending[i], m)
  BY <1>1 DEF AnswersOK, AnswerOK
<1>3. /\ pending[i].answered /\ pending[i].box = m.box
      /\ pending[i].kind \in Acts <=> m.kind \in Acts
  BY <1>2 DEF AnswerTo, SameAsk
<1>4. /\ PlaceOf(m) \in 1..Len(pending)
      /\ pending[PlaceOf(m)].answered /\ pending[PlaceOf(m)].box = m.box
      /\ pending[PlaceOf(m)].kind \in Acts <=> m.kind \in Acts
  BY <1>3 DEF PlaceOf
<1>5. PlaceOf(m) = i
  <2>1. SameAsk(pending[i], pending[PlaceOf(m)])
    BY <1>3, <1>4 DEF SameAsk
  <2>. QED
    BY <1>2, <1>4, <2>1 DEF RequestsDiffer
<1>. QED
  BY <1>1, <1>2, <1>5

\* A step takes the message at x, and its request at y if it is an answer, and asks for the
\* differences of the boxes A.
Handles(x, y, A) ==
    /\ stream' \in Seq(Messages) /\ pending' \in Seq(Requests)
    /\ x \in 0..Len(stream) /\ y \in 0..Len(pending) /\ A \subseteq Boxes
    /\ Removes(stream', stream, x) /\ From(pending', pending, y, A)
    /\ IF x # 0 /\ IsAnswer(stream[x]) THEN y # 0 /\ AnswerTo(pending[y], stream[x]) ELSE y = 0
    /\ \A k \in 1..Len(pending), b \in A : k # y => ~Asked(b, pending[k])
    /\ UNCHANGED <<log, own>>

\* What it may do to the client.
Moves(y, A) ==
    /\ \A b \in Boxes : waiter[b].good <= waiter'[b].good /\ known[b] \subseteq known'[b]
    /\ \A b \in A : waiter'[b].requesting
    /\ \A k \in 1..Len(pending) :
          k # y /\ pending[k].kind = "difference" =>
              /\ waiter'[pending[k].box].requesting
              /\ waiter'[pending[k].box].good = waiter[pending[k].box].good
    /\ Main \in afterFail' =>
          Main \notin A /\ \A k \in 1..Len(pending) : k # y => ~Asked(Main, pending[k])

LEMMA HandledRequests ==
    ASSUME Types, RequestsDiffer, RequestsOK, NEW x, NEW y, NEW A, Handles(x, y, A)
    PROVE  RequestsDiffer'
<1>1. PICK p : p = pending'
  OBVIOUS
<1>0. From(p, pending, y, A)
  BY <1>1 DEF Handles
<1>2. PICK f \in [1..Len(p) -> Nat] :
        /\ \A i \in 1..Len(p) : \/ f[i] \in 1..Len(pending) /\ f[i] # y /\ p[i] = pending[f[i]]
                                \/ f[i] = 0 /\ \E b \in A : p[i] = Request("difference", b)
        /\ \A i, j \in 1..Len(p) :
              i # j => f[i] # f[j] \/ (f[i] = 0 /\ f[j] = 0 /\ p[i].box # p[j].box)
        /\ \A k \in 1..Len(pending) : k # y => \E i \in 1..Len(p) : f[i] = k
  BY <1>0 DEF From
<1>3. A \subseteq Boxes /\ \A k \in 1..Len(pending), b \in A : k # y => ~Asked(b, pending[k])
  BY DEF Handles
<1>4. ASSUME NEW i \in 1..Len(p), NEW j \in 1..Len(p), i # j, SameAsk(p[i], p[j])
      PROVE  FALSE
  <2>0. p[i].box = p[j].box /\ (p[i].kind \in Acts <=> p[j].kind \in Acts)
    BY <1>4 DEF SameAsk
  <2>1. CASE f[i] \in 1..Len(pending) /\ f[i] # y /\ p[i] = pending[f[i]]
    <3>1. CASE f[j] \in 1..Len(pending) /\ f[j] # y /\ p[j] = pending[f[j]]
      <4>1. f[i] # f[j]
        <5>1. f[i] # 0
          BY <2>1
        <5>. QED
          BY <1>2, <1>4, <5>1
      <4>. QED
        BY <1>4, <2>1, <3>1, <4>1 DEF RequestsDiffer
    <3>2. CASE \E b \in A : p[j] = Request("difference", b)
      <4>1. PICK b \in A : p[j] = Request("difference", b)
        BY <3>2
      <4>2. p[j].box = b /\ p[j].kind = "difference"
        BY <1>3, <4>1, RequestIs
      <4>3. p[i].kind = "difference"
        BY <2>0, <2>1, <4>2, PendingIs, Kinds
      <4>4. Asked(b, pending[f[i]])
        BY <2>0, <2>1, <4>2, <4>3 DEF Asked
      <4>. QED
        BY <1>3, <2>1, <4>4
    <3>. QED
      BY <1>2, <3>1, <3>2
  <2>2. CASE f[i] = 0 /\ \E b \in A : p[i] = Request("difference", b)
    <3>0. PICK b \in A : p[i] = Request("difference", b)
      BY <2>2
    <3>1. p[i].box = b /\ p[i].kind = "difference"
      BY <1>3, <3>0, RequestIs
    <3>2. CASE f[j] \in 1..Len(pending) /\ f[j] # y /\ p[j] = pending[f[j]]
      <4>1. p[j].kind = "difference"
        BY <2>0, <3>1, <3>2, PendingIs, Kinds
      <4>2. Asked(b, pending[f[j]])
        BY <2>0, <3>1, <3>2, <4>1 DEF Asked
      <4>. QED
        BY <1>3, <3>2, <4>2
    <3>3. CASE f[j] = 0
      <4>1. p[i].box # p[j].box
        BY <1>2, <1>4, <2>2, <3>3
      <4>. QED
        BY <2>0, <4>1
    <3>. QED
      BY <1>2, <3>2, <3>3
  <2>. QED
    BY <1>2, <2>1, <2>2
<1>. QED
  BY <1>1, <1>4 DEF RequestsDiffer

\* A request of the next state was there, or is one for a difference of A.
LEMMA HandledPending ==
    ASSUME Types, NEW x, NEW y, NEW A, Handles(x, y, A), NEW p, p = pending'
    PROVE  /\ \A i \in 1..Len(p) :
                \/ \E k \in 1..Len(pending) : k # y /\ p[i] = pending[k]
                \/ /\ p[i].box \in A /\ p[i].kind = "difference" /\ p[i].pts = 0
           /\ \A k \in 1..Len(pending) : k # y => \E i \in 1..Len(p) : p[i] = pending[k]
<1>1. From(p, pending, y, A)
  BY DEF Handles
<1>2. PICK f \in [1..Len(p) -> Nat] :
        /\ \A i \in 1..Len(p) : \/ f[i] \in 1..Len(pending) /\ f[i] # y /\ p[i] = pending[f[i]]
                                \/ f[i] = 0 /\ \E b \in A : p[i] = Request("difference", b)
        /\ \A k \in 1..Len(pending) : k # y => \E i \in 1..Len(p) : f[i] = k
  BY <1>1 DEF From
<1>3. A \subseteq Boxes
  BY DEF Handles
<1>4. ASSUME NEW i \in 1..Len(p)
      PROVE  \/ \E k \in 1..Len(pending) : k # y /\ p[i] = pending[k]
             \/ /\ p[i].box \in A /\ p[i].kind = "difference" /\ p[i].pts = 0
  <2>1. CASE f[i] \in 1..Len(pending) /\ f[i] # y /\ p[i] = pending[f[i]]
    BY <2>1
  <2>2. CASE \E b \in A : p[i] = Request("difference", b)
    <3>1. PICK b \in A : p[i] = Request("difference", b)
      BY <2>2
    <3>. QED
      BY <1>3, <3>1, RequestIs
  <2>. QED
    BY <1>2, <2>1, <2>2
<1>5. ASSUME NEW k \in 1..Len(pending), k # y
      PROVE  \E i \in 1..Len(p) : p[i] = pending[k]
  <2>1. PICK i \in 1..Len(p) : f[i] = k
    BY <1>2, <1>5
  <2>2. p[i] = pending[k]
    <3>1. f[i] # 0
      BY <2>1
    <3>. QED
      BY <1>2, <2>1, <3>1
  <2>. QED
    BY <2>2
<1>. QED
  BY <1>4, <1>5

LEMMA InitedStays ==
    ASSUME NEW w, NEW v, w.good \in Nat, v.good \in Nat, w.good <= v.good, Inited(w)
    PROVE  Inited(v)
BY DEF Inited

LEMMA HandledRequestsOK ==
    ASSUME Types, Types', RequestsOK, NEW x, NEW y, NEW A, Handles(x, y, A), Moves(y, A)
    PROVE  RequestsOK'
<1>1. PICK p : p = pending'
  OBVIOUS
<1>2. SUFFICES ASSUME NEW i \in 1..Len(p), NEW r, r = p[i]
               PROVE  RequestOK(r)'
  BY <1>1 DEF RequestsOK
<1>3. CASE \E k \in 1..Len(pending) : k # y /\ p[i] = pending[k]
  <2>1. PICK k \in 1..Len(pending) : k # y /\ r = pending[k]
    BY <1>2, <1>3
  <2>2. RequestOK(r) /\ r.box \in Boxes
    BY <2>1, PendingIs DEF RequestsOK
  <2>3. ASSUME NEW b \in Boxes, Inited(waiter[b])
        PROVE  Inited(waiter'[b])
    <3>1. waiter[b].good \in Nat /\ waiter'[b].good \in Nat
      BY DEF Types, Waiters
    <3>. QED
      BY <2>3, <3>1, InitedStays DEF Moves
  <2>4. Inited(waiter[Main]) => Inited(waiter'[Main])
    BY <2>3, BoxesAreFinite
  <2>5. Inited(waiter[r.box]) => Inited(waiter'[r.box])
    BY <2>2, <2>3
  <2>6. log' = log /\ own' = own
    BY DEF Handles
  <2>7. r.kind = "difference" => waiter'[r.box].requesting /\ (r.box = Main => Main \notin afterFail')
    <3>1. r.kind = "difference" => waiter'[r.box].requesting
      BY <2>1 DEF Moves
    <3>2. r.kind = "difference" /\ r.box = Main => Main \notin afterFail'
      BY <2>1 DEF Moves, Asked
    <3>. QED
      BY <3>1, <3>2
  <2>. QED
    BY <2>2, <2>4, <2>5, <2>6, <2>7 DEF RequestOK
<1>4. CASE p[i].box \in A /\ p[i].kind = "difference" /\ p[i].pts = 0
  <2>1. r.box \in A /\ r.kind = "difference" /\ r.pts = 0
    BY <1>2, <1>4
  <2>2. waiter'[r.box].requesting /\ (r.box = Main => Main \notin afterFail')
    BY <2>1 DEF Moves
  <2>3. r.kind \notin Acts /\ r.kind \notin OwnKinds /\ r.kind # "history"
    BY <2>1, Kinds
  <2>. QED
    BY <2>1, <2>2, <2>3 DEF RequestOK
<1>. QED
  BY <1>1, <1>2, <1>3, <1>4, HandledPending

\* A message of the next state was there before.
LEMMA HandledStream ==
    ASSUME Types, NEW x, NEW y, NEW A, Handles(x, y, A), NEW s, s = stream'
    PROVE  /\ \A k \in 1..Len(s) : At(x, k) \in 1..Len(stream) /\ At(x, k) # x /\ s[k] = stream[At(x, k)]
           /\ \A k, l \in 1..Len(s) : k < l => At(x, k) < At(x, l)
           /\ \A i \in 1..Len(stream) : i # x => \E k \in 1..Len(s) : At(x, k) = i
           /\ \A k, l \in 1..Len(s) : k # l => At(x, k) # At(x, l)
<1>1. stream \in Seq(Messages) /\ s \in Seq(Messages) /\ Removes(s, stream, x)
  BY DEF Types, Handles
<1>2. /\ \A k \in 1..Len(s) : At(x, k) \in 1..Len(stream) /\ At(x, k) # x /\ s[k] = stream[At(x, k)]
      /\ \A k, l \in 1..Len(s) : k < l => At(x, k) < At(x, l)
      /\ \A i \in 1..Len(stream) : i # x => \E k \in 1..Len(s) : At(x, k) = i
  BY <1>1, RemovesIs
<1>3. ASSUME NEW k \in 1..Len(s), NEW l \in 1..Len(s), k # l
      PROVE  At(x, k) # At(x, l)
  <2>1. At(x, k) \in Int /\ At(x, l) \in Int
    BY <1>2
  <2>2. CASE k < l
    BY <1>2, <2>1, <2>2
  <2>3. CASE l < k
    BY <1>2, <2>1, <2>3
  <2>. QED
    BY <1>3, <2>2, <2>3
<1>. QED
  BY <1>2, <1>3

LEMMA HandledAnswers ==
    ASSUME Types, RequestsDiffer, AnswersDiffer, AnswersOK, NEW x, NEW y, NEW A,
           Handles(x, y, A), Moves(y, A)
    PROVE  AnswersDiffer' /\ AnswersOK'
<1>1. PICK s, p : s = stream' /\ p = pending'
  OBVIOUS
<1>2. /\ \A k \in 1..Len(s) : At(x, k) \in 1..Len(stream) /\ At(x, k) # x /\ s[k] = stream[At(x, k)]
      /\ \A k, l \in 1..Len(s) : k # l => At(x, k) # At(x, l)
  BY <1>1, HandledStream
<1>3. AnswersDiffer'
  <2>1. \A i, j \in 1..Len(s) :
          i # j /\ IsAnswer(s[i]) /\ IsAnswer(s[j]) => ~SameAsk(s[i], s[j])
    BY <1>2 DEF AnswersDiffer
  <2>. QED
    BY <1>1, <2>1 DEF AnswersDiffer
<1>4. ASSUME NEW j \in 1..Len(s), NEW m, m = s[j]
      PROVE  AnswerOK(m)'
  <2>1. PICK k \in 1..Len(stream) : k # x /\ m = stream[k]
    BY <1>2, <1>4
  <2>2. AnswerOK(m) /\ m.box \in Boxes
    BY <2>1, MessageIs DEF AnswersOK
  <2>3. ASSUME IsAnswer(m)
        PROVE  \E i \in 1..Len(pending) : i # y /\ AnswerTo(pending[i], m)
    <3>1. PICK i \in 1..Len(pending) : AnswerTo(pending[i], m)
      BY <2>2, <2>3 DEF AnswerOK
    <3>2. i # y
      <4>. SUFFICES ASSUME i = y PROVE FALSE
        OBVIOUS
      <4>1. x # 0 /\ IsAnswer(stream[x]) /\ AnswerTo(pending[i], stream[x])
        <5>1. y # 0
          OBVIOUS
        <5>. QED
          BY <5>1 DEF Handles
      <4>2. x \in 1..Len(stream)
        BY <4>1 DEF Handles
      <4>3. SameAsk(stream[k], stream[x])
        BY <2>1, <3>1, <4>1 DEF AnswerTo, SameAsk
      <4>. QED
        BY <2>1, <2>3, <4>1, <4>2, <4>3 DEF AnswersDiffer
    <3>. QED
      BY <3>1, <3>2
  <2>4. IsAnswer(m) => \E i \in 1..Len(p) : AnswerTo(p[i], m)
    <3>. SUFFICES ASSUME IsAnswer(m) PROVE \E i \in 1..Len(p) : AnswerTo(p[i], m)
      OBVIOUS
    <3>1. PICK i \in 1..Len(pending) : i # y /\ AnswerTo(pending[i], m)
      BY <2>3
    <3>2. PICK l \in 1..Len(p) : p[l] = pending[i]
      BY <1>1, <3>1, HandledPending
    <3>. QED
      BY <3>1, <3>2
  <2>5. m.kind = "difference" => m.pts \in log'[m.box] /\ waiter'[m.box].good <= m.pts
    <3>. SUFFICES ASSUME m.kind = "difference"
                  PROVE  m.pts \in log'[m.box] /\ waiter'[m.box].good <= m.pts
      OBVIOUS
    <3>1. IsAnswer(m)
      BY DEF IsAnswer
    <3>2. PICK i \in 1..Len(pending) : i # y /\ AnswerTo(pending[i], m)
      BY <2>3, <3>1
    <3>3. pending[i].kind = "difference" /\ pending[i].box = m.box
      BY <3>2, PendingIs, Kinds DEF AnswerTo, SameAsk
    <3>4. waiter'[m.box].good = waiter[m.box].good
      BY <3>2, <3>3 DEF Moves
    <3>5. m.pts \in log[m.box] /\ waiter[m.box].good <= m.pts
      BY <2>2 DEF AnswerOK
    <3>6. log' = log
      BY DEF Handles
    <3>. QED
      BY <3>4, <3>5, <3>6
  <2>6. m.kind \in OwnKinds => m.count = 1
    BY <2>2 DEF AnswerOK
  <2>. QED
    BY <1>1, <2>4, <2>5, <2>6 DEF AnswerOK, IsAnswer, AnswerTo, SameAsk
<1>. QED
  BY <1>1, <1>3, <1>4 DEF AnswersOK

-----------------------------------------------------------------------------
(***************************************************************************)
(* What a message does to the waiter of its box.                           *)
(***************************************************************************)
\* A step of the box b alone, with an update of the numbers C.
Steps(b, C) ==
    /\ waiter' \in [Boxes -> Waiters] /\ known' \in [Boxes -> SUBSET Nat]
    /\ again' \in [Boxes -> SUBSET Nat]
    /\ \A d \in Boxes \ {b} :
          waiter'[d] = waiter[d] /\ known'[d] = known[d] /\ again'[d] = again[d]
    /\ byPts' \subseteq Boxes /\ byPts \ {b} \subseteq byPts'
    /\ waiter'[b].queue # {} => b \in byPts'
    /\ BoxOK(waiter'[b], known'[b], log[b]) /\ again'[b] \subseteq known'[b]
    /\ Fed(waiter[b], known[b], waiter'[b], known'[b], log[b], C)

\* Of what is known, only numbers of O become known too early or once more.
Kept(b, O) ==
    /\ again'[b] \subseteq again[b] \cup O
    /\ known'[b] \ (1..waiter'[b].good) \subseteq (known[b] \ (1..waiter[b].good)) \cup O

Becomes(b, C, v, k, a) ==
    /\ waiter' = [waiter EXCEPT ![b] = v] /\ known' = [known EXCEPT ![b] = k]
    /\ again' = [again EXCEPT ![b] = a] /\ v \in Waiters /\ a \subseteq k
    /\ byPts' \subseteq Boxes /\ byPts \ {b} \subseteq byPts' /\ (v.queue # {} => b \in byPts')
    /\ BoxOK(v, k, log[b]) /\ Fed(waiter[b], known[b], v, k, log[b], C)

LEMMA Stepping ==
    ASSUME Types, NEW b \in Boxes, NEW C, NEW v, NEW k, NEW a, Becomes(b, C, v, k, a)
    PROVE  /\ Steps(b, C)
           /\ waiter'[b] = v /\ known'[b] = k /\ again'[b] = a
<1>0. /\ waiter' = [waiter EXCEPT ![b] = v] /\ known' = [known EXCEPT ![b] = k]
      /\ again' = [again EXCEPT ![b] = a] /\ v \in Waiters /\ a \subseteq k
      /\ BoxOK(v, k, log[b])
  BY DEF Becomes
<1>1. /\ waiter \in [Boxes -> Waiters] /\ known \in [Boxes -> SUBSET Nat]
      /\ again \in [Boxes -> SUBSET Nat]
  BY DEF Types
<1>2. k \subseteq Nat /\ a \subseteq Nat
  <2>1. k \subseteq 1..Top(log[b])
    BY <1>0 DEF BoxOK
  <2>. QED
    BY <1>0, <2>1
<1>3. waiter'[b] = v /\ known'[b] = k /\ again'[b] = a
  BY <1>0, <1>1
<1>4. /\ waiter' \in [Boxes -> Waiters] /\ known' \in [Boxes -> SUBSET Nat]
      /\ again' \in [Boxes -> SUBSET Nat]
  BY <1>0, <1>1, <1>2
<1>5. \A d \in Boxes \ {b} :
        waiter'[d] = waiter[d] /\ known'[d] = known[d] /\ again'[d] = again[d]
  BY <1>0, <1>1
<1>. QED
  BY <1>0, <1>3, <1>4, <1>5 DEF Becomes, Steps

LEMMA BoxIs ==
    ASSUME Types, LogsOK, BoxesOK, NEW b \in Boxes, NEW w, w = waiter[b], NEW k, k = known[b]
    PROVE  /\ w \in Waiters /\ MaxPts(b) \in Nat /\ LogIs(log[b], MaxPts(b)) /\ BoxOK(w, k, log[b])
           /\ again[b] \subseteq k
<1>1. MaxPts(b) \in Nat
  BY BoundsAreNats DEF MaxPts
<1>. QED
  BY <1>1 DEF Types, LogsOK, BoxesOK

\* Nothing of the box changes.
LEMMA Idle ==
    ASSUME Types, LogsOK, BoxesOK, TimersOK, NEW b \in Boxes, NEW C, C \subseteq known[b],
           UNCHANGED <<waiter, byPts, known, again>>
    PROVE  Steps(b, C) /\ Kept(b, {})
<1>1. PICK w, k : w = waiter[b] /\ k = known[b]
  OBVIOUS
<1>2. /\ w \in Waiters /\ MaxPts(b) \in Nat /\ LogIs(log[b], MaxPts(b)) /\ BoxOK(w, k, log[b])
      /\ again[b] \subseteq k /\ w.good \in Nat
  BY <1>1, BoxIs DEF Waiters
<1>3. Fed(w, k, w, k, log[b], C)
  <2>1. 0 \in log[b] \cup {0} /\ 0 <= w.good
    BY <1>2
  <2>2. k \cup Content(w.queue) \subseteq k \cup Content(w.queue) \cup C \cup 1..0
    OBVIOUS
  <2>. QED
    BY <1>1, <1>2, <2>1, <2>2 DEF Fed
<1>4. /\ waiter \in [Boxes -> Waiters] /\ known \in [Boxes -> SUBSET Nat]
      /\ again \in [Boxes -> SUBSET Nat] /\ byPts \subseteq Boxes
      /\ w.queue # {} => b \in byPts
  BY <1>1 DEF Types, TimersOK
<1>. QED
  BY <1>1, <1>2, <1>3, <1>4 DEF Steps, Kept

LEMMA UpdateSteps ==
    ASSUME Types, LogsOK, BoxesOK, TimersOK, NEW b \in Boxes, NEW u \in Updates,
           Real(log[b], u), Fresh(waiter[b], known[b], u), Update(b, u)
    PROVE  /\ Steps(b, Covers(u))
           /\ Kept(b, IF waiter[b].requesting THEN Covers(u) ELSE {})
<1>1. PICK w, k, L : w = waiter[b] /\ k = known[b] /\ L = log[b]
  OBVIOUS
<1>2. PICK max \in Nat : max = MaxPts(b)
  BY BoxIs
<1>3. w \in Waiters /\ LogIs(L, max) /\ BoxOK(w, k, L) /\ again[b] \subseteq k
  BY <1>1, <1>2, BoxIs
<1>4. Real(L, u) /\ Fresh(w, k, u)
  BY <1>1
<1>5. /\ u.pts \in Nat /\ u.count \in Nat \ {0} /\ u.pts \in L /\ Covers(u) \subseteq 1..u.pts
      /\ \A q \in L : q < u.pts => Covers(u) \cap 1..q = {}
  BY <1>2, <1>3, <1>4, Apart DEF Real
<1>6. /\ Top(L) \in Nat /\ \A q \in L : q \in Nat /\ q >= 1 /\ q <= Top(L)
  BY <1>2, <1>3, TopIs
<1>7. /\ w.good \in Nat /\ w.last \in Nat /\ w.good <= w.last
      /\ Content(w.queue) \subseteq 1..w.last /\ w.requesting \in BOOLEAN
  BY <1>2, <1>3, QueueIs
<1>8. /\ k \subseteq 1..Top(L) /\ 1..w.good \subseteq k /\ Content(w.queue) \cap k = {}
      /\ w.queue # {} => w.waiting /\ ~w.requesting
      /\ w.good = 0 => w.last = 0 /\ w.queue = {}
  BY <1>3 DEF BoxOK
<1>9. /\ waiter \in [Boxes -> Waiters] /\ known \in [Boxes -> SUBSET Nat]
      /\ again \in [Boxes -> SUBSET Nat] /\ byPts \subseteq Boxes
      /\ w.queue # {} => b \in byPts
  BY <1>1 DEF Types, TimersOK
<1>10. CASE UpdateNow(b, u)
  <2>1. /\ w.requesting /\ waiter' = waiter /\ byPts' = byPts
        /\ known' = [known EXCEPT ![b] = k \cup Covers(u)]
        /\ again' = [again EXCEPT ![b] = again[b] \cup (k \cap Covers(u))]
    BY <1>1, <1>9, <1>10, ContentIs DEF UpdateNow, Apply
  <2>2. Covers(u) \subseteq 1..Top(L)
    BY <1>5, <1>6
  <2>3. BoxOK(w, k \cup Covers(u), L) /\ Fed(w, k, w, k \cup Covers(u), L, Covers(u))
    BY <1>3, <2>1, <2>2, NowBox
  <2>4. again[b] \cup (k \cap Covers(u)) \subseteq k \cup Covers(u)
    BY <1>3
  <2>5. waiter' = [waiter EXCEPT ![b] = w] /\ byPts' \subseteq Boxes /\ byPts \ {b} \subseteq byPts'
    BY <1>1, <1>9, <2>1
  <2>6. /\ Steps(b, Covers(u)) /\ waiter'[b] = w /\ known'[b] = k \cup Covers(u)
        /\ again'[b] = again[b] \cup (k \cap Covers(u))
    <3>1. PICK k2, a : k2 = k \cup Covers(u) /\ a = again[b] \cup (k \cap Covers(u))
      OBVIOUS
    <3>2. BoxOK(w, k2, log[b]) /\ Fed(waiter[b], known[b], w, k2, log[b], Covers(u))
      BY <1>1, <2>3, <3>1
    <3>3. known' = [known EXCEPT ![b] = k2] /\ again' = [again EXCEPT ![b] = a] /\ a \subseteq k2
      BY <2>1, <2>4, <3>1
    <3>4. w.queue # {} => b \in byPts'
      BY <1>9, <2>1
    <3>5. Becomes(b, Covers(u), w, k2, a)
      BY <2>1, <1>3, <2>5, <3>2, <3>3, <3>4 DEF Becomes
    <3>6. Steps(b, Covers(u)) /\ waiter'[b] = w /\ known'[b] = k2 /\ again'[b] = a
      BY <3>5, Stepping
    <3>. QED
      BY <3>1, <3>6
  <2>7. Kept(b, Covers(u))
    BY <1>1, <2>6 DEF Kept
  <2>. QED
    BY <1>1, <2>1, <2>6, <2>7
<1>11. CASE UpdateOld(b, u)
  <2>1. ~w.requesting /\ u.pts <= w.good /\ UNCHANGED <<waiter, byPts, known, again>>
    BY <1>1, <1>11 DEF UpdateOld, Old
  <2>2. Covers(u) \subseteq known[b]
    BY <1>1, <1>5, <1>7, <1>8, <2>1
  <2>. QED
    BY <1>1, <2>1, <2>2, Idle
<1>12. CASE UpdateFirst(b, u)
  <2>1. PICK v : v = PtsInit(w, u.pts)
    OBVIOUS
  <2>2. /\ ~w.requesting /\ ~Inited(w) /\ waiter' = [waiter EXCEPT ![b] = v] /\ byPts' = byPts
        /\ known' = [known EXCEPT ![b] = k \cup 1..u.pts] /\ again' = again
    BY <1>1, <1>9, <1>12, <2>1 DEF UpdateFirst, Waiter, Checked
  <2>3. Started(v, u.pts) /\ v.requesting = w.requesting
    BY <1>3, <1>5, <2>1, PtsInitIs
  <2>4. w.good = 0 /\ w.queue = {}
    BY <1>7, <1>8, <2>2 DEF Inited
  <2>5. BoxOK(v, k \cup 1..u.pts, L)
    <3>1. PICK k2 : k2 = k \cup (w.good + 1)..u.pts
      OBVIOUS
    <3>2. w.good <= u.pts
      BY <1>5, <2>4
    <3>3. BoxOK(v, k2, L)
      BY <1>2, <1>3, <1>5, <2>3, <3>1, <3>2, StartedBox, Z3
    <3>. QED
      BY <2>4, <3>1, <3>3
  <2>6. Fed(w, k, v, k \cup 1..u.pts, L, Covers(u))
    <3>1. v.good = u.pts /\ v.queue = {}
      BY <2>3 DEF Started
    <3>2. u.pts \in L \cup {0} /\ u.pts <= v.good
      BY <1>5, <3>1
    <3>3. (k \cup 1..u.pts) \cup Content(v.queue)
            \subseteq k \cup Content(w.queue) \cup Covers(u) \cup 1..u.pts
      BY <3>1, ContentIs
    <3>4. Content(w.queue) \subseteq (k \cup 1..u.pts) \cup Content(v.queue)
      BY <2>4, ContentIs
    <3>5. Covers(u) \subseteq (k \cup 1..u.pts) \cup Content(v.queue)
      BY <1>5
    <3>6. w.good <= v.good
      BY <1>5, <2>4, <3>1
    <3>7. v.requesting = w.requesting
      BY <2>3
    <3>. QED
      BY <2>2, <3>2, <3>3, <3>4, <3>5, <3>6, <3>7 DEF Fed
  <2>7. v \in Waiters /\ v.queue = {} /\ v.good = u.pts
    BY <2>3 DEF Started
  <2>8. again[b] \subseteq k \cup 1..u.pts /\ again' = [again EXCEPT ![b] = again[b]]
    BY <1>3, <1>9, <2>2
  <2>9. /\ Steps(b, Covers(u)) /\ waiter'[b] = v /\ known'[b] = k \cup 1..u.pts
        /\ again'[b] = again[b]
    <3>1. PICK k2, a : k2 = k \cup 1..u.pts /\ a = again[b]
      OBVIOUS
    <3>2. BoxOK(v, k2, log[b]) /\ Fed(waiter[b], known[b], v, k2, log[b], Covers(u))
      BY <1>1, <2>5, <2>6, <3>1
    <3>3. known' = [known EXCEPT ![b] = k2] /\ again' = [again EXCEPT ![b] = a] /\ a \subseteq k2
      BY <2>2, <2>8, <3>1
    <3>4. byPts' \subseteq Boxes /\ byPts \ {b} \subseteq byPts' /\ v \in Waiters /\ v.queue = {}
      BY <1>9, <2>2, <2>7
    <3>5. Becomes(b, Covers(u), v, k2, a)
      BY <2>2, <3>2, <3>3, <3>4 DEF Becomes
    <3>6. Steps(b, Covers(u)) /\ waiter'[b] = v /\ known'[b] = k2 /\ again'[b] = a
      BY <3>5, Stepping
    <3>. QED
      BY <3>1, <3>6
  <2>10. Kept(b, {})
    BY <1>1, <2>4, <2>7, <2>9 DEF Kept
  <2>. QED
    BY <1>1, <2>2, <2>9, <2>10
<1>13. CASE UpdateInTurn(b, u)
  <2>1. PICK c : c = Counted(w, u.pts, u.count)
    OBVIOUS
  <2>2. PICK v : v = IF c.queue = {} THEN c ELSE Unskipped(c)
    OBVIOUS
  <2>3. c \in Waiters /\ c.queue = w.queue /\ c.requesting = w.requesting
    <3>1. PICK last : last = Largest(u.pts, w.last)
      OBVIOUS
    <3>2. c \in Waiters /\ c.queue = w.queue
      <4>1. PICK p \in Nat, n \in Nat : p = u.pts /\ n = u.count
        BY <1>5
      <4>2. c = Counted(w, p, n) /\ last = Largest(p, w.last) /\ w \in Waiters
        BY <1>3, <2>1, <3>1, <4>1
      <4>. QED
        BY <4>2, CountedFields, Z3
    <3>3. c.requesting = w.requesting
      BY <1>3, <1>5, <2>1, CountedRequesting
    <3>. QED
      BY <3>2, <3>3
  <2>4. w.waiting => c.waiting
    BY <2>1 DEF Counted
  <2>5. /\ v \in Waiters /\ v.good = c.good /\ v.last = c.last /\ v.count = c.count
        /\ v.queue = {} /\ v.requesting = c.requesting /\ Skipped(c) = w.queue
    <3>1. c.queue # {} => c.waiting
      BY <1>8, <2>3, <2>4
    <3>2. CASE c.queue = {}
      BY <2>2, <2>3, <3>2 DEF Skipped
    <3>3. CASE c.queue # {}
      BY <2>2, <2>3, <3>1, <3>3, UnskippedIs
    <3>. QED
      BY <3>2, <3>3
  <2>6. /\ Checked(w, u.pts, u.count) /\ Inited(w) /\ AddsUp(w, u.pts, u.count)
        /\ Apply(b, {u} \cup Skipped(c)) /\ waiter' = [waiter EXCEPT ![b] = v]
        /\ byPts' \in {byPts, byPts \ {b}}
    BY <1>1, <1>13, <2>1, <2>2 DEF UpdateInTurn, Waiter, TimerOff
  <2>7. PICK k2 : k2 = k \cup Covers(u) \cup Content(w.queue)
    OBVIOUS
  <2>8. Content({u} \cup Skipped(c)) = Covers(u) \cup Content(w.queue)
    BY <2>5, ContentIs
  <2>9. Covers(u) \cap k = {}
    <3>1. w.good < u.pts
      BY <1>5, <1>7, <2>6 DEF Checked, Old
    <3>. QED
      BY <1>4, <3>1 DEF Fresh
  <2>10. known' = [known EXCEPT ![b] = k2] /\ again' = [again EXCEPT ![b] = again[b]]
    <3>1. known[b] \cap Content({u} \cup Skipped(c)) = {}
      BY <1>1, <1>8, <2>8, <2>9
    <3>. QED
      BY <1>1, <1>9, <2>6, <2>7, <2>8, <3>1 DEF Apply
  <2>11. Takes(w, k, u, c, v, k2)
    BY <2>5, <2>6, <2>7 DEF Takes
  <2>12. BoxOK(v, k2, L) /\ Fed(w, k, v, k2, L, Covers(u))
    BY <1>2, <1>3, <1>4, <2>1, <2>6, <2>11, TakenBox
  <2>13. again[b] \subseteq k2 /\ byPts' \subseteq Boxes /\ byPts \ {b} \subseteq byPts'
    BY <1>3, <1>9, <2>6, <2>7
  <2>14. Steps(b, Covers(u)) /\ waiter'[b] = v /\ known'[b] = k2 /\ again'[b] = again[b]
    <3>1. PICK a : a = again[b]
      OBVIOUS
    <3>2. BoxOK(v, k2, log[b]) /\ Fed(waiter[b], known[b], v, k2, log[b], Covers(u))
      BY <1>1, <2>12
    <3>3. known' = [known EXCEPT ![b] = k2] /\ again' = [again EXCEPT ![b] = a] /\ a \subseteq k2
      BY <2>10, <2>13, <3>1
    <3>4. v \in Waiters /\ v.queue = {}
      BY <2>5
    <3>5. Becomes(b, Covers(u), v, k2, a)
      BY <2>6, <2>13, <3>2, <3>3, <3>4 DEF Becomes
    <3>6. Steps(b, Covers(u)) /\ waiter'[b] = v /\ known'[b] = k2 /\ again'[b] = a
      BY <3>5, Stepping
    <3>. QED
      BY <3>1, <3>6
  <2>15. Kept(b, {})
    <3>1. v.good = v.last /\ v.last = Largest(u.pts, w.last)
      <4>1. PICK last : last = Largest(u.pts, w.last)
        OBVIOUS
      <4>2. c.last = last
        <5>1. PICK p \in Nat, n \in Nat : p = u.pts /\ n = u.count
          BY <1>5
        <5>2. c = Counted(w, p, n) /\ last = Largest(p, w.last) /\ w \in Waiters
          BY <1>3, <2>1, <4>1, <5>1
        <5>3. c \in Waiters /\ c.last = last /\ c.count = w.count + n /\ c.queue = w.queue
          BY <5>2, CountedFields, Z3
        <5>. QED
          BY <5>3
      <4>3. c.good = c.last
        BY <1>3, <1>5, <2>1, <2>6, CountedGood
      <4>. QED
        BY <2>5, <4>1, <4>2, <4>3
    <3>2. u.pts <= v.good /\ w.last <= v.good /\ v.good \in Nat
      <4>1. PICK p \in Nat, l \in Nat : p = u.pts /\ l = w.last
        BY <1>5, <1>7
      <4>2. PICK g : g = v.good
        OBVIOUS
      <4>3. g = Largest(p, l)
        BY <3>1, <4>1, <4>2
      <4>4. g \in Nat /\ p <= g /\ l <= g
        BY <4>1, <4>3, LargestIs
      <4>. QED
        BY <4>1, <4>2, <4>4
    <3>3. Covers(u) \cup Content(w.queue) \subseteq 1..v.good /\ 1..w.good \subseteq 1..v.good
      BY <1>5, <1>7, <3>2
    <3>. QED
      BY <1>1, <2>7, <2>14, <3>3 DEF Kept
  <2>. QED
    BY <1>1, <2>6, <2>14, <2>15 DEF Checked
<1>14. CASE UpdateAhead(b, u)
  <2>1. PICK c : c = Counted(w, u.pts, u.count)
    OBVIOUS
  <2>2. PICK v : v = [c EXCEPT !.queue = @ \cup {u}]
    OBVIOUS
  <2>3. /\ Checked(w, u.pts, u.count) /\ Inited(w) /\ ~AddsUp(w, u.pts, u.count)
        /\ waiter' = [waiter EXCEPT ![b] = v] /\ byPts' = byPts \cup {b}
        /\ known' = known /\ again' = again
    BY <1>1, <1>14, <2>1, <2>2 DEF UpdateAhead, Waiter
  <2>4. Takes(w, k, u, c, v, k)
    BY <2>2, <2>3 DEF Takes
  <2>5. BoxOK(v, k, L) /\ Fed(w, k, v, k, L, Covers(u)) /\ v \in Waiters
    BY <1>2, <1>3, <1>4, <2>1, <2>3, <2>4, TakenBox
  <2>6. known' = [known EXCEPT ![b] = k] /\ again' = [again EXCEPT ![b] = again[b]]
    BY <1>1, <1>9, <2>3
  <2>7. byPts' \subseteq Boxes /\ byPts \ {b} \subseteq byPts' /\ b \in byPts'
    BY <1>9, <2>3
  <2>8. Steps(b, Covers(u)) /\ waiter'[b] = v /\ known'[b] = k /\ again'[b] = again[b]
    <3>1. PICK a : a = again[b]
      OBVIOUS
    <3>2. BoxOK(v, k, log[b]) /\ Fed(waiter[b], known[b], v, k, log[b], Covers(u))
      BY <1>1, <2>5
    <3>3. known' = [known EXCEPT ![b] = k] /\ again' = [again EXCEPT ![b] = a] /\ a \subseteq k
      BY <1>3, <2>6, <3>1
    <3>4. v \in Waiters
      BY <2>5
    <3>5. Becomes(b, Covers(u), v, k, a)
      BY <2>3, <2>7, <3>2, <3>3, <3>4 DEF Becomes
    <3>6. Steps(b, Covers(u)) /\ waiter'[b] = v /\ known'[b] = k /\ again'[b] = a
      BY <3>5, Stepping
    <3>. QED
      BY <3>1, <3>6
  <2>9. v.good \in Nat /\ w.good <= v.good
    BY <2>5 DEF Waiters, Fed
  <2>10. Kept(b, {})
    <3>1. 1..w.good \subseteq 1..v.good
      BY <1>7, <2>9
    <3>. QED
      BY <1>1, <2>8, <3>1 DEF Kept
  <2>. QED
    BY <1>1, <2>3, <2>8, <2>10 DEF Checked
<1>. QED
  BY <1>10, <1>11, <1>12, <1>13, <1>14 DEF Update

\* The counts of an own update, whose content the client has.
LEMMA OwnCountsSteps ==
    ASSUME Types, LogsOK, BoxesOK, TimersOK, NEW b \in Boxes, NEW u \in Updates,
           Real(log[b], u), Fresh(waiter[b], known[b], u), Inited(waiter[b]),
           CountsOnly(b, u.pts, u.count, Covers(u))
    PROVE  Steps(b, Covers(u)) /\ Kept(b, Covers(u))
<1>1. PICK w, k, L : w = waiter[b] /\ k = known[b] /\ L = log[b]
  OBVIOUS
<1>2. PICK max \in Nat : max = MaxPts(b)
  BY BoxIs
<1>3. w \in Waiters /\ LogIs(L, max) /\ BoxOK(w, k, L) /\ again[b] \subseteq k
  BY <1>1, <1>2, BoxIs
<1>4. Real(L, u) /\ Fresh(w, k, u) /\ Inited(w)
  BY <1>1
<1>5. /\ u.pts \in Nat /\ u.count \in Nat \ {0} /\ u.pts \in L /\ Covers(u) \subseteq 1..u.pts
  BY <1>2, <1>3, <1>4, Apart DEF Real
<1>6. /\ Top(L) \in Nat /\ \A q \in L : q \in Nat /\ q >= 1 /\ q <= Top(L)
  BY <1>2, <1>3, TopIs
<1>7. /\ w.good \in Nat /\ w.last \in Nat /\ w.good <= w.last
      /\ Content(w.queue) \subseteq 1..w.last /\ w.requesting \in BOOLEAN
  BY <1>2, <1>3, QueueIs
<1>8. /\ k \subseteq 1..Top(L) /\ 1..w.good \subseteq k /\ Content(w.queue) \cap k = {}
      /\ w.queue # {} => w.waiting /\ ~w.requesting
  BY <1>3 DEF BoxOK
<1>9. /\ waiter \in [Boxes -> Waiters] /\ known \in [Boxes -> SUBSET Nat]
      /\ again \in [Boxes -> SUBSET Nat] /\ byPts \subseteq Boxes
      /\ w.queue # {} => b \in byPts
  BY <1>1 DEF Types, TimersOK
<1>16. Covers(u) \subseteq 1..Top(L)
  BY <1>5, <1>6
<1>17. CASE w.requesting
  <2>1. ~Checked(w, u.pts, u.count) /\ w.queue = {}
    BY <1>8, <1>17 DEF Checked
  <2>2. PICK v : v = Unskipped(w)
    OBVIOUS
  <2>3. /\ v \in Waiters /\ v.good = w.good /\ v.last = w.last /\ v.queue = {}
        /\ v.requesting = w.requesting /\ Skipped(w) = {}
    BY <1>3, <2>1, <2>2, UnskippedIs
  <2>4. v.queue = w.queue
    BY <2>1, <2>3
  <2>5. PICK k2 : k2 = k \cup Covers(u)
    OBVIOUS
  <2>6. BoxOK(v, k2, L) /\ Fed(w, k, v, k2, L, Covers(u))
    BY <1>3, <1>16, <1>17, <2>3, <2>4, <2>5, NowBox
  <2>7. /\ waiter' = [waiter EXCEPT ![b] = v]
        /\ known' = [known EXCEPT ![b] = k \cup Covers(u) \cup {}]
        /\ again' = [again EXCEPT ![b] = again[b] \cup {}]
        /\ byPts' \in {byPts, byPts \ {b}}
    BY <1>1, <1>17, <2>1, <2>2, <2>3, ContentIs DEF CountsOnly, Waiter
  <2>8. known' = [known EXCEPT ![b] = k2] /\ again' = [again EXCEPT ![b] = again[b]]
        /\ byPts' \subseteq Boxes /\ byPts \ {b} \subseteq byPts'
    <3>1. k \cup Covers(u) \cup {} = k2 /\ again[b] \cup {} = again[b]
      BY <2>5
    <3>. QED
      BY <1>9, <2>7, <3>1
  <2>9. Becomes(b, Covers(u), v, k2, again[b])
    BY <1>1, <1>3, <2>3, <2>5, <2>6, <2>7, <2>8 DEF Becomes
  <2>10. Steps(b, Covers(u)) /\ waiter'[b] = v /\ known'[b] = k2 /\ again'[b] = again[b]
    BY <2>9, Stepping
  <2>. QED
    BY <1>1, <2>3, <2>5, <2>10 DEF Kept
<1>18. CASE ~w.requesting /\ Old(w, u.pts, u.count)
  <2>1. ~Checked(w, u.pts, u.count) /\ u.pts <= w.good
    BY <1>18 DEF Checked, Old
  <2>2. Covers(u) \subseteq k
    BY <1>5, <1>7, <1>8, <2>1
  <2>3. /\ waiter' = [waiter EXCEPT ![b] = w] /\ byPts' = byPts
        /\ known' = [known EXCEPT ![b] = k \cup Covers(u) \cup {}]
        /\ again' = [again EXCEPT ![b] = again[b] \cup {}]
    BY <1>1, <1>18, <2>1 DEF CountsOnly, Waiter
  <2>4. UNCHANGED <<waiter, byPts, known, again>>
    <3>1. k \cup Covers(u) \cup {} = k /\ again[b] \cup {} = again[b]
      BY <2>2
    <3>. QED
      BY <1>1, <1>9, <2>3, <3>1
  <2>5. Steps(b, Covers(u)) /\ Kept(b, {})
    BY <1>1, <2>2, <2>4, Idle
  <2>. QED
    BY <2>5 DEF Kept
<1>19. CASE Checked(w, u.pts, u.count)
  <2>0. PICK c : c = Counted(w, u.pts, u.count)
    OBVIOUS
  <2>00. ~w.requesting
    BY <1>19 DEF Checked
  <2>1. c \in Waiters /\ c.queue = w.queue
    <3>0. PICK last : last = Largest(u.pts, w.last)
      OBVIOUS
    <3>1. PICK p \in Nat, n \in Nat : p = u.pts /\ n = u.count /\ last = Largest(u.pts, w.last)
      BY <1>5, <3>0
    <3>2. c = Counted(w, p, n) /\ last = Largest(p, w.last) /\ w \in Waiters
      BY <1>3, <2>0, <3>1
    <3>3. c \in Waiters /\ c.last = last /\ c.count = w.count + n /\ c.queue = w.queue
      BY <3>2, CountedFields, Z3
    <3>. QED
      BY <3>3
  <2>2. Covers(u) \cap (k \cup Content(w.queue)) = {}
    <3>1. w.good < u.pts
      BY <1>5, <1>7, <1>19 DEF Checked, Old
    <3>. QED
      BY <1>4, <3>1 DEF Fresh
  <2>3. w.waiting => c.waiting
    BY <2>0 DEF Counted
  <2>4. CASE AddsUp(w, u.pts, u.count)
    <3>1. PICK v : v = Unskipped(c)
      OBVIOUS
    <3>2. c.queue # {} => c.waiting
      BY <1>8, <2>1, <2>3
    <3>3. /\ v \in Waiters /\ v.good = c.good /\ v.last = c.last /\ v.count = c.count
          /\ v.requesting = c.requesting /\ v.queue = {} /\ Skipped(c) = w.queue
      BY <2>1, <3>1, <3>2, UnskippedIs
    <3>4. PICK k2 : k2 = k \cup Covers(u) \cup Content(w.queue)
      OBVIOUS
    <3>5. /\ waiter' = [waiter EXCEPT ![b] = v]
          /\ known' = [known EXCEPT ![b] = (k \cup Covers(u) \cup {}) \cup Content(w.queue)]
          /\ again' = [again EXCEPT ![b] =
                          again[b] \cup ((k \cup Covers(u) \cup {}) \cap Content(w.queue))]
          /\ byPts' \in {byPts, byPts \ {b}}
      BY <1>1, <1>4, <1>19, <2>0, <2>4, <3>1, <3>3 DEF CountsOnly, Waiter
    <3>6. (k \cup Covers(u) \cup {}) \cup Content(w.queue) = k2
          /\ again[b] \cup ((k \cup Covers(u) \cup {}) \cap Content(w.queue)) = again[b]
      BY <1>8, <2>2, <3>4
    <3>7. known' = [known EXCEPT ![b] = k2] /\ again' = [again EXCEPT ![b] = again[b]]
          /\ byPts' \subseteq Boxes /\ byPts \ {b} \subseteq byPts'
      BY <1>9, <3>5, <3>6
    <3>8. Takes(w, k, u, c, v, k2)
      BY <2>4, <3>3, <3>4 DEF Takes
    <3>9. BoxOK(v, k2, L) /\ Fed(w, k, v, k2, L, Covers(u))
      BY <1>2, <1>3, <1>4, <1>19, <2>0, <3>8, TakenBox
    <3>10. Becomes(b, Covers(u), v, k2, again[b])
      BY <1>1, <1>3, <3>3, <3>4, <3>5, <3>7, <3>9 DEF Becomes
    <3>11. Steps(b, Covers(u)) /\ waiter'[b] = v /\ known'[b] = k2 /\ again'[b] = again[b]
      BY <3>10, Stepping
    <3>12. Kept(b, Covers(u))
      <4>0. PICK last : last = Largest(u.pts, w.last)
        OBVIOUS
      <4>1. PICK p \in Nat, n \in Nat : p = u.pts /\ n = u.count /\ last = Largest(u.pts, w.last)
        BY <1>5, <4>0
      <4>2. c = Counted(w, p, n) /\ last = Largest(p, w.last) /\ w \in Waiters /\ AddsUp(w, p, n)
        BY <1>3, <2>0, <2>4, <4>1
      <4>3. c \in Waiters /\ c.last = last /\ c.count = w.count + n /\ c.queue = w.queue
        BY <4>2, CountedFields, Z3
      <4>4. c.good = c.last /\ c.last = w.count + n
        BY <4>2, CountedGood, Z3
      <4>5. v.good = last /\ w.last <= last /\ last \in Nat
        <5>1. PICK q \in Nat : q = w.last
          BY <1>7
        <5>2. last \in Nat /\ q <= last
          BY <4>2, <5>1, LargestIs
        <5>. QED
          BY <3>3, <4>3, <4>4, <5>1, <5>2
      <4>6. Content(w.queue) \subseteq 1..v.good /\ 1..w.good \subseteq 1..v.good
        BY <1>7, <4>5
      <4>. QED
        BY <1>1, <3>4, <3>11, <4>6 DEF Kept
    <3>. QED
      BY <3>11, <3>12
  <2>5. CASE ~AddsUp(w, u.pts, u.count)
    <3>1. PICK v : v = c
      OBVIOUS
    <3>2. PICK k2 : k2 = k \cup Covers(u)
      OBVIOUS
    <3>3. Takes(w, k, u, c, v, k2)
      BY <2>5, <3>1, <3>2 DEF Takes
    <3>4. BoxOK(v, k2, L) /\ Fed(w, k, v, k2, L, Covers(u)) /\ v \in Waiters
      BY <1>2, <1>3, <1>4, <1>19, <2>0, <3>3, TakenBox
    <3>50. /\ waiter' = [waiter EXCEPT ![b] = v] /\ byPts' = byPts \cup {b}
           /\ known' = [known EXCEPT ![b] = k \cup Covers(u) \cup {} \cup {}]
           /\ again' = [again EXCEPT ![b] = again[b] \cup {}]
      <4>1. u.count # 0
        BY <1>5
      <4>. QED
        BY <1>1, <1>4, <1>19, <2>0, <2>00, <2>5, <3>1, <4>1 DEF CountsOnly, Waiter
    <3>5. known' = [known EXCEPT ![b] = k2] /\ again' = [again EXCEPT ![b] = again[b]]
          /\ b \in byPts' /\ byPts' \subseteq Boxes /\ byPts \ {b} \subseteq byPts'
      <4>1. k \cup Covers(u) \cup {} \cup {} = k2 /\ again[b] \cup {} = again[b]
        BY <3>2
      <4>. QED
        BY <1>9, <3>50, <4>1
    <3>6. Becomes(b, Covers(u), v, k2, again[b])
      BY <1>1, <1>3, <3>2, <3>4, <3>5, <3>50 DEF Becomes
    <3>7. Steps(b, Covers(u)) /\ waiter'[b] = v /\ known'[b] = k2 /\ again'[b] = again[b]
      BY <3>6, Stepping
    <3>8. 1..w.good \subseteq 1..v.good
      <4>1. v.good \in Nat /\ w.good <= v.good
        BY <3>4 DEF Waiters, Fed
      <4>. QED
        BY <1>7, <4>1
    <3>. QED
      BY <1>1, <3>2, <3>7, <3>8 DEF Kept
  <2>. QED
    BY <2>4, <2>5
<1>. QED
  BY <1>7, <1>17, <1>18, <1>19 DEF Checked

\* The pts of a channel's history that was read.
LEMMA HistorySteps ==
    ASSUME Types, LogsOK, BoxesOK, TimersOK, NEW b \in Boxes, NEW p \in log[b],
           CountsOnly(b, p, 0, {})
    PROVE  Steps(b, {})
<1>1. PICK w, k, L : w = waiter[b] /\ k = known[b] /\ L = log[b]
  OBVIOUS
<1>2. PICK max \in Nat : max = MaxPts(b)
  BY BoxIs
<1>3. w \in Waiters /\ LogIs(L, max) /\ BoxOK(w, k, L) /\ again[b] \subseteq k
  BY <1>1, <1>2, BoxIs
<1>4. p \in L /\ p \in Nat /\ p >= 1 /\ p <= Top(L) /\ Top(L) \in Nat
  BY <1>1, <1>2, <1>3, TopIs
<1>7. /\ w.good \in Nat /\ w.last \in Nat /\ w.good <= w.last
      /\ Content(w.queue) \subseteq 1..w.last /\ w.requesting \in BOOLEAN
  BY <1>2, <1>3, QueueIs
<1>8. /\ k \subseteq 1..Top(L) /\ 1..w.good \subseteq k /\ Content(w.queue) \cap k = {}
      /\ w.queue # {} => w.waiting /\ ~w.requesting
      /\ w.good = 0 => w.last = 0 /\ w.queue = {}
  BY <1>3 DEF BoxOK
<1>9. /\ waiter \in [Boxes -> Waiters] /\ known \in [Boxes -> SUBSET Nat]
      /\ again \in [Boxes -> SUBSET Nat] /\ byPts \subseteq Boxes
      /\ w.queue # {} => b \in byPts
  BY <1>1 DEF Types, TimersOK
<1>10. Checked(w, p, 0) <=> ~w.requesting
  BY DEF Checked, Old
<1>11. CASE w.requesting
  <2>1. PICK v : v = Unskipped(w)
    OBVIOUS
  <2>2. w.queue = {}
    BY <1>8, <1>11
  <2>3. /\ v \in Waiters /\ v.good = w.good /\ v.last = w.last /\ v.queue = {}
        /\ v.requesting = w.requesting /\ Skipped(w) = {}
    BY <1>3, <2>1, <2>2, UnskippedIs
  <2>4. v.queue = w.queue
    BY <2>2, <2>3
  <2>5. /\ waiter' = [waiter EXCEPT ![b] = v]
        /\ known' = [known EXCEPT ![b] = k \cup {}]
        /\ again' = [again EXCEPT ![b] = again[b] \cup {}]
        /\ byPts' \in {byPts, byPts \ {b}}
    BY <1>1, <1>10, <1>11, <2>1, <2>3, ContentIs DEF CountsOnly, Waiter
  <2>6. k \cup {} = k /\ again[b] \cup {} = again[b]
    OBVIOUS
  <2>7. BoxOK(v, k, L) /\ Fed(w, k, v, k, L, {})
    <3>1. PICK S : S = {}
      OBVIOUS
    <3>2. BoxOK(v, k \cup S, L) /\ Fed(w, k, v, k \cup S, L, S)
      BY <1>3, <1>11, <2>3, <2>4, <3>1, NowBox
    <3>3. k \cup S = k
      BY <3>1
    <3>. QED
      BY <3>1, <3>2, <3>3
  <2>8. known' = [known EXCEPT ![b] = k] /\ again' = [again EXCEPT ![b] = again[b]]
        /\ byPts' \subseteq Boxes /\ byPts \ {b} \subseteq byPts'
    BY <1>9, <2>5, <2>6
  <2>9. Becomes(b, {}, v, k, again[b])
    BY <1>1, <1>3, <2>3, <2>5, <2>7, <2>8 DEF Becomes
  <2>. QED
    BY <2>9, Stepping
<1>12. CASE ~w.requesting /\ ~Inited(w)
  <2>1. PICK c, v : c = PtsInit(w, p) /\ v = Unskipped(c)
    OBVIOUS
  <2>2. Started(c, p) /\ c.requesting = w.requesting
    BY <1>3, <1>4, <2>1, PtsInitIs
  <2>3. c \in Waiters /\ c.good = p /\ c.last = p /\ c.count = p /\ c.queue = {}
    BY <2>2 DEF Started
  <2>4. /\ v \in Waiters /\ v.good = p /\ v.last = p /\ v.count = p /\ v.queue = {}
        /\ v.requesting = c.requesting /\ Skipped(c) = {}
    BY <2>1, <2>3, UnskippedIs
  <2>5. w.good = 0 /\ w.queue = {}
    BY <1>7, <1>8, <1>12 DEF Inited
  <2>6. PICK k2 : k2 = k \cup 1..p
    OBVIOUS
  <2>7. /\ waiter' = [waiter EXCEPT ![b] = v]
        /\ known' = [known EXCEPT ![b] = k \cup {} \cup 1..p \cup {}]
        /\ again' = [again EXCEPT ![b] = again[b] \cup {}]
        /\ byPts' \in {byPts, byPts \ {b}}
    BY <1>1, <1>10, <1>12, <2>1, <2>4, ContentIs DEF CountsOnly, Waiter
  <2>8. known' = [known EXCEPT ![b] = k2] /\ again' = [again EXCEPT ![b] = again[b]]
        /\ byPts' \subseteq Boxes /\ byPts \ {b} \subseteq byPts'
    <3>1. k \cup {} \cup 1..p \cup {} = k2 /\ again[b] \cup {} = again[b]
      BY <2>6
    <3>. QED
      BY <1>9, <2>7, <3>1
  <2>9. BoxOK(v, k2, L)
    <3>1. PICK k3 : k3 = k \cup (w.good + 1)..p
      OBVIOUS
    <3>2. w.good <= p /\ Started(v, p)
      BY <1>4, <2>4, <2>5 DEF Started
    <3>3. BoxOK(v, k3, L)
      BY <1>2, <1>3, <1>4, <3>1, <3>2, StartedBox, Z3
    <3>. QED
      BY <2>5, <2>6, <3>1, <3>3
  <2>10. Fed(w, k, v, k2, L, {})
    <3>1. p \in L \cup {0} /\ p <= v.good /\ w.good <= v.good
      BY <1>4, <2>4, <2>5
    <3>2. k2 \cup Content(v.queue) \subseteq k \cup Content(w.queue) \cup {} \cup 1..p
      BY <2>4, <2>6, ContentIs
    <3>3. k \subseteq k2 /\ Content(w.queue) \subseteq k2 \cup Content(v.queue)
      BY <2>5, <2>6, ContentIs
    <3>4. v.requesting = w.requesting
      BY <2>2, <2>4
    <3>. QED
      BY <1>12, <3>1, <3>2, <3>3, <3>4 DEF Fed
  <2>11. again[b] \subseteq k2
    BY <1>3, <2>6
  <2>12. Becomes(b, {}, v, k2, again[b])
    BY <1>1, <2>4, <2>7, <2>8, <2>9, <2>10, <2>11 DEF Becomes
  <2>. QED
    BY <2>12, Stepping
<1>13. CASE ~w.requesting /\ Inited(w)
  <2>1. PICK c, v : c = Counted(w, p, 0) /\ v = Unskipped(c)
    OBVIOUS
  <2>2. PICK k2 : k2 = k \cup Content(w.queue)
    OBVIOUS
  <2>3. Checked(w, p, 0) /\ Inited(w)
    BY <1>10, <1>13
  <2>4. /\ BoxOK(v, k2, L) /\ Fed(w, k, v, k2, L, {}) /\ v \in Waiters
        /\ Skipped(c) = w.queue
    BY <1>2, <1>3, <1>4, <2>1, <2>2, <2>3, HistoryBox
  <2>5. v.queue = {}
    BY <1>4, <2>1, <2>4 DEF Unskipped, Counted, Skipped
  <2>6. /\ waiter' = [waiter EXCEPT ![b] = v]
        /\ known' = [known EXCEPT ![b] = (k \cup {} \cup {}) \cup Content(w.queue)]
        /\ again' = [again EXCEPT ![b] = again[b] \cup ((k \cup {} \cup {}) \cap Content(w.queue))]
        /\ byPts' \in {byPts, byPts \ {b}}
    BY <1>1, <1>10, <1>13, <2>1, <2>4 DEF CountsOnly, Waiter
  <2>7. known' = [known EXCEPT ![b] = k2] /\ again' = [again EXCEPT ![b] = again[b]]
        /\ byPts' \subseteq Boxes /\ byPts \ {b} \subseteq byPts'
    <3>1. (k \cup {} \cup {}) \cup Content(w.queue) = k2
          /\ again[b] \cup ((k \cup {} \cup {}) \cap Content(w.queue)) = again[b]
      BY <1>8, <2>2
    <3>. QED
      BY <1>9, <2>6, <3>1
  <2>8. again[b] \subseteq k2
    BY <1>3, <2>2
  <2>9. Becomes(b, {}, v, k2, again[b])
    BY <1>1, <2>4, <2>5, <2>6, <2>7, <2>8 DEF Becomes
  <2>. QED
    BY <2>9, Stepping
<1>. QED
  BY <1>7, <1>11, <1>12, <1>13

-----------------------------------------------------------------------------
(***************************************************************************)
(* Handling a message keeps the invariant.                                 *)
(***************************************************************************)
\* The numbers of the box b in the message at x.
Taken(x, b) ==
    IF x # 0 /\ stream[x].box = b /\ stream[x].kind \in {"push"} \cup OwnKinds
    THEN Covers(stream[x]) ELSE {}

\* What comes to the client is in the message at x, or is not after the good updates.
Goes(x) ==
    \A b \in Boxes : \E p \in log[b] \cup {0} :
        /\ p <= waiter'[b].good
        /\ known'[b] \cup Content(waiter'[b].queue)
             \subseteq known[b] \cup Content(waiter[b].queue) \cup Taken(x, b) \cup 1..p

\* What was not seen before is not seen after it, unless the message at x has it.
LEMMA StaysFresh ==
    ASSUME Safe, NEW x, Goes(x), NEW b \in Boxes, waiter[b].good \in Nat, waiter'[b].good \in Nat,
           waiter[b].good <= waiter'[b].good,
           NEW u, Real(log[b], u), Fresh(waiter[b], known[b], u), Covers(u) \cap Taken(x, b) = {}
    PROVE  Fresh(waiter'[b], known'[b], u)
<1>1. PICK p \in log[b] \cup {0} :
        /\ p <= waiter'[b].good
        /\ known'[b] \cup Content(waiter'[b].queue)
             \subseteq known[b] \cup Content(waiter[b].queue) \cup Taken(x, b) \cup 1..p
  BY DEF Goes
<1>2. PICK max \in Nat : max = MaxPts(b)
  BY BoundsAreNats DEF MaxPts
<1>3. LogIs(log[b], max)
  BY <1>2 DEF Safe, LogsOK
<1>4. u.pts \in Nat /\ \A q \in log[b] : q < u.pts => Covers(u) \cap 1..q = {}
  BY <1>2, <1>3, Apart
<1>5. p \in Nat
  BY <1>2, <1>3, TopIs
<1>6. SUFFICES ASSUME u.pts > waiter'[b].good
               PROVE  Covers(u) \cap (known'[b] \cup Content(waiter'[b].queue)) = {}
  BY DEF Fresh
<1>7. Covers(u) \cap (known[b] \cup Content(waiter[b].queue)) = {}
  <2>1. u.pts > waiter[b].good
    BY <1>4, <1>6
  <2>. QED
    BY <2>1 DEF Fresh
<1>8. Covers(u) \cap 1..p = {}
  <2>1. p < u.pts
    BY <1>1, <1>4, <1>5, <1>6
  <2>2. CASE p = 0
    BY <2>2
  <2>3. CASE p \in log[b]
    BY <1>4, <2>1, <2>3
  <2>. QED
    BY <2>2, <2>3
<1>. QED
  BY <1>1, <1>7, <1>8

LEMMA OneIs == ASSUME NEW p \in Nat PROVE Covers(One(p)) = {p} /\ One(p).pts = p
BY DEF Covers, One

LEMMA OneOf ==
    ASSUME NEW m, m.pts \in Nat, m.count = 1
    PROVE  Covers(m) = {m.pts}
BY DEF Covers

\* The update of the message at x is one of the log; it is an own one if it is not pushed.
LEMMA TakenIs ==
    ASSUME Safe, NEW x, NEW y, NEW A, Handles(x, y, A), NEW b \in Boxes, Taken(x, b) # {}
    PROVE  /\ x \in 1..Len(stream) /\ stream[x].box = b
           /\ \/ /\ stream[x].kind = "push" /\ Real(log[b], stream[x])
                 /\ stream[x].pts \notin own[b] /\ Taken(x, b) = Covers(stream[x])
              \/ /\ stream[x].kind \in OwnKinds /\ Taken(x, b) = {stream[x].pts}
                 /\ stream[x].pts \in own[b] /\ Real(log[b], One(stream[x].pts))
                 /\ y \in 1..Len(pending) /\ pending[y].kind \in OwnKinds /\ pending[y].box = b
                 /\ pending[y].pts = stream[x].pts
<1>1. x \in 1..Len(stream) /\ stream[x].box = b /\ stream[x].kind \in {"push"} \cup OwnKinds
  BY DEF Taken, Handles
<1>2. PICK m : m = stream[x]
  OBVIOUS
<1>3. m.pts \in Nat /\ m.box = b
  BY <1>1, <1>2, MessageIs DEF Safe
<1>4. CASE m.kind = "push"
  <2>1. PushOK(m)
    BY <1>1, <1>2 DEF Safe, PushesOK
  <2>. QED
    BY <1>1, <1>2, <1>3, <1>4, <2>1 DEF PushOK, Taken
<1>5. CASE m.kind \in OwnKinds
  <2>1. IsAnswer(m) /\ m.kind \in Acts
    BY <1>5, Kinds DEF IsAnswer
  <2>2. y \in 1..Len(pending) /\ AnswerTo(pending[y], m)
    BY <1>1, <1>2, <2>1 DEF Handles
  <2>3. PICK r : r = pending[y]
    OBVIOUS
  <2>4. /\ r.kind = m.kind /\ r.pts = m.pts /\ r.box = b /\ r.answered
        /\ RequestOK(r) /\ OwnOK(r) /\ AnswerOK(m)
    BY <1>1, <1>2, <1>3, <2>1, <2>2, <2>3
       DEF AnswerTo, SameAsk, Safe, RequestsOK, OwnsOK, AnswersOK
  <2>5. r.pts # 0 /\ r.pts \in own[b]
    BY <1>5, <2>1, <2>4 DEF RequestOK
  <2>6. Real(log[b], One(m.pts))
    BY <1>5, <2>4, <2>5 DEF OwnOK
  <2>7. Covers(m) = {m.pts}
    <3>1. m.count = 1
      BY <1>5, <2>4 DEF AnswerOK
    <3>. QED
      BY <1>3, <3>1, OneOf
  <2>8. Taken(x, b) = Covers(m)
    BY <1>1, <1>2 DEF Taken
  <2>. QED
    BY <1>1, <1>2, <1>3, <1>5, <2>2, <2>3, <2>4, <2>5, <2>6, <2>7, <2>8
<1>. QED
  BY <1>1, <1>2, <1>4, <1>5

LEMMA RealApart ==
    ASSUME Safe, NEW b \in Boxes, NEW u, Real(log[b], u), NEW v, Real(log[b], v), u.pts # v.pts
    PROVE  Covers(u) \cap Covers(v) = {}
<1>1. PICK max \in Nat : max = MaxPts(b)
  BY BoundsAreNats DEF MaxPts
<1>2. LogIs(log[b], max)
  BY <1>1 DEF Safe, LogsOK
<1>. QED
  BY <1>1, <1>2, Apart

LEMMA GoodGrows ==
    ASSUME Types, Types', NEW y, NEW A, Moves(y, A), NEW b \in Boxes
    PROVE  waiter[b].good \in Nat /\ waiter'[b].good \in Nat /\ waiter[b].good <= waiter'[b].good
BY DEF Types, Waiters, Moves

LEMMA HandledDeliveries ==
    ASSUME Safe, Types', NEW x, NEW y, NEW A, Handles(x, y, A), Moves(y, A), Goes(x)
    PROVE  PushesDiffer' /\ PushesOK' /\ OwnsOK'
<1>0. Types
  BY DEF Safe
<1>1. PICK s, p : s = stream' /\ p = pending'
  OBVIOUS
<1>2. /\ \A k \in 1..Len(s) : At(x, k) \in 1..Len(stream) /\ At(x, k) # x /\ s[k] = stream[At(x, k)]
      /\ \A k, l \in 1..Len(s) : k # l => At(x, k) # At(x, l)
  BY <1>0, <1>1, HandledStream
<1>3. PushesDiffer'
  <2>1. \A i, j \in 1..Len(s) :
          i # j /\ s[i].kind = "push" /\ s[j].kind = "push" /\ s[i].box = s[j].box
              => s[i].pts # s[j].pts
    BY <1>2 DEF Safe, PushesDiffer
  <2>. QED
    BY <1>1, <2>1 DEF PushesDiffer
<1>4. log' = log /\ own' = own
  BY DEF Handles
<1>5. ASSUME NEW j \in 1..Len(s), NEW m, m = s[j]
      PROVE  PushOK(m)'
  <2>1. PICK k \in 1..Len(stream) : k # x /\ m = stream[k]
    BY <1>2, <1>5
  <2>2. SUFFICES ASSUME m.kind = "push"
                 PROVE  /\ Real(log[m.box], m) /\ m.pts \notin own[m.box]
                        /\ Fresh(waiter'[m.box], known'[m.box], m)
    BY <1>4 DEF PushOK
  <2>3. PICK b \in Boxes : b = m.box
    BY <1>0, <2>1, MessageIs
  <2>4. Real(log[b], m) /\ m.pts \notin own[b] /\ Fresh(waiter[b], known[b], m)
    BY <2>1, <2>2, <2>3 DEF Safe, PushesOK, PushOK
  <2>5. Covers(m) \cap Taken(x, b) = {}
    <3>. SUFFICES ASSUME Taken(x, b) # {} PROVE Covers(m) \cap Taken(x, b) = {}
      OBVIOUS
    <3>0. /\ x \in 1..Len(stream) /\ stream[x].box = b
          /\ \/ /\ stream[x].kind = "push" /\ Real(log[b], stream[x])
                /\ Taken(x, b) = Covers(stream[x])
             \/ /\ Taken(x, b) = {stream[x].pts}
                /\ stream[x].pts \in own[b] /\ Real(log[b], One(stream[x].pts))
      BY TakenIs
    <3>1. CASE stream[x].kind = "push" /\ Real(log[b], stream[x]) /\ Taken(x, b) = Covers(stream[x])
      <4>1. stream[x].pts # m.pts
        BY <2>1, <2>2, <2>3, <3>0, <3>1 DEF Safe, PushesDiffer
      <4>2. Covers(m) \cap Covers(stream[x]) = {}
        BY <2>4, <3>1, <4>1, RealApart
      <4>. QED
        BY <3>1, <4>2
    <3>2. CASE /\ Taken(x, b) = {stream[x].pts}
               /\ stream[x].pts \in own[b] /\ Real(log[b], One(stream[x].pts))
      <4>1. PICK q : q = stream[x].pts
        OBVIOUS
      <4>2. q \in Nat
        BY <1>0, <3>0, <4>1, MessageIs
      <4>3. One(q).pts # m.pts /\ Covers(One(q)) = {q}
        BY <2>4, <3>2, <4>1, <4>2, OneIs
      <4>4. Covers(m) \cap Covers(One(q)) = {}
        BY <2>4, <3>2, <4>1, <4>3, RealApart
      <4>. QED
        BY <3>2, <4>1, <4>3, <4>4
    <3>. QED
      BY <3>0, <3>1, <3>2
  <2>6. waiter[b].good \in Nat /\ waiter'[b].good \in Nat /\ waiter[b].good <= waiter'[b].good
    BY <1>0, GoodGrows
  <2>7. Fresh(waiter'[b], known'[b], m)
    BY <2>4, <2>5, <2>6, StaysFresh
  <2>. QED
    BY <2>3, <2>4, <2>7
<1>6. ASSUME NEW i \in 1..Len(p), NEW r, r = p[i]
      PROVE  OwnOK(r)'
  <2>1. SUFFICES ASSUME r.kind \in OwnKinds, r.pts # 0
                 PROVE  /\ Real(log[r.box], One(r.pts))
                        /\ Fresh(waiter'[r.box], known'[r.box], One(r.pts))
    BY <1>4 DEF OwnOK
  <2>2. PICK k \in 1..Len(pending) : k # y /\ r = pending[k]
    <3>1. r.kind # "difference"
      BY <2>1, Kinds
    <3>. QED
      BY <1>0, <1>1, <1>6, <3>1, HandledPending
  <2>3. PICK b \in Boxes, q \in Nat : b = r.box /\ q = r.pts
    BY <1>0, <2>2, PendingIs
  <2>4. Real(log[b], One(q)) /\ Fresh(waiter[b], known[b], One(q)) /\ q \in own[b]
    BY <2>1, <2>2, <2>3 DEF Safe, OwnsOK, OwnOK, RequestsOK, RequestOK
  <2>5. Covers(One(q)) = {q} /\ One(q).pts = q
    BY OneIs
  <2>6. Covers(One(q)) \cap Taken(x, b) = {}
    <3>. SUFFICES ASSUME Taken(x, b) # {} PROVE Covers(One(q)) \cap Taken(x, b) = {}
      OBVIOUS
    <3>0. \/ /\ stream[x].kind = "push" /\ Real(log[b], stream[x])
             /\ stream[x].pts \notin own[b] /\ Taken(x, b) = Covers(stream[x])
          \/ /\ y \in 1..Len(pending) /\ pending[y].kind \in OwnKinds /\ pending[y].box = b
      BY TakenIs
    <3>1. CASE /\ stream[x].kind = "push" /\ Real(log[b], stream[x])
               /\ stream[x].pts \notin own[b] /\ Taken(x, b) = Covers(stream[x])
      <4>1. One(q).pts # stream[x].pts
        BY <2>4, <2>5, <3>1
      <4>2. Covers(One(q)) \cap Covers(stream[x]) = {}
        BY <2>4, <3>1, <4>1, RealApart
      <4>. QED
        BY <3>1, <4>2
    <3>2. CASE y \in 1..Len(pending) /\ pending[y].kind \in OwnKinds /\ pending[y].box = b
      <4>1. SameAsk(pending[y], pending[k])
        BY <2>1, <2>2, <2>3, <3>2, Kinds DEF SameAsk
      <4>. QED
        BY <2>2, <3>2, <4>1 DEF Safe, RequestsDiffer
    <3>. QED
      BY <3>0, <3>1, <3>2
  <2>7. waiter[b].good \in Nat /\ waiter'[b].good \in Nat /\ waiter[b].good <= waiter'[b].good
    BY <1>0, GoodGrows
  <2>8. PICK u : u = One(q)
    OBVIOUS
  <2>9. Fresh(waiter'[b], known'[b], u)
    BY <2>4, <2>6, <2>7, <2>8, StaysFresh
  <2>. QED
    BY <2>3, <2>4, <2>8, <2>9
<1>. QED
  BY <1>1, <1>3, <1>5, <1>6 DEF PushesOK, OwnsOK

LEMMA HandledSafe ==
    ASSUME Safe, Types', NEW x, NEW y, NEW A, Handles(x, y, A), Moves(y, A), Goes(x),
           BoxesOK', TimersOK', MainOK'
    PROVE  Safe'
<1>1. Types /\ RequestsDiffer /\ RequestsOK /\ AnswersDiffer /\ AnswersOK /\ LogsOK
  BY DEF Safe
<1>2. RequestsDiffer' /\ RequestsOK' /\ AnswersDiffer' /\ AnswersOK'
  BY <1>1, HandledRequests, HandledRequestsOK, HandledAnswers
<1>3. PushesDiffer' /\ PushesOK' /\ OwnsOK'
  BY HandledDeliveries
<1>4. LogsOK'
  BY <1>1 DEF LogsOK, Handles
<1>. QED
  BY <1>2, <1>3, <1>4 DEF Safe

LEMMA AskingFrom ==
    ASSUME NEW A, A \subseteq Boxes, NEW p \in Seq(Requests), NEW t \in Seq(Requests), NEW y,
           Removes(t, p, y), NEW q, \E s \in Orders(A) : q = t \o DifferencesOf(s)
    PROVE  q \in Seq(Requests) /\ From(q, p, y, A)
<1>1. PICK s \in Orders(A) : q = t \o DifferencesOf(s)
  OBVIOUS
<1>2. /\ t \o DifferencesOf(s) \in Seq(Requests)
      /\ From(t \o DifferencesOf(s), p, y, A)
  BY OrdersFrom
<1>. QED
  BY <1>1, <1>2

LEMMA PlainFrom ==
    ASSUME NEW p \in Seq(Requests), NEW t \in Seq(Requests), NEW y, Removes(t, p, y)
    PROVE  From(t, p, y, {})
<1>1. Len(t) \in Nat
  OBVIOUS
<1>2. (Len(t) + 1)..Len(t) = {}
  BY <1>1
<1>3. Len(t) <= Len(t) /\ \A i \in 1..Len(t) : t[i] = t[i]
  BY <1>1
<1>4. PICK B : B = {}
  OBVIOUS
<1>5. From(t, p, y, B)
  BY <1>2, <1>3, RemovesFrom
<1>. QED
  BY <1>4, <1>5

\* The differences of A are asked for, and nothing else changes at the client.
Waits(y, A) ==
    /\ waiter' = [b \in Boxes |-> IF b \in A THEN SetRequesting(waiter[b], TRUE) ELSE waiter[b]]
    /\ byPts' \subseteq Boxes /\ \A c \in Boxes \ A : waiter[c].queue # {} => c \in byPts'
    /\ afterFail' \subseteq Boxes /\ minChannel' \in BOOLEAN
    /\ Main \in afterFail' =>
          Main \notin A /\ \A k \in 1..Len(pending) : k # y => ~Asked(Main, pending[k])
    /\ UNCHANGED <<known, again, bounds>>

LEMMA WaitsIs ==
    ASSUME Types, NEW y, NEW A, A \subseteq Boxes, Waits(y, A), NEW b \in Boxes
    PROVE  /\ waiter'[b] \in Waiters /\ waiter'[b].good = waiter[b].good
           /\ waiter'[b].last = waiter[b].last
           /\ b \in A => waiter'[b] = SetRequesting(waiter[b], TRUE)
           /\ b \in A => waiter'[b].queue = {} /\ waiter'[b].requesting
           /\ b \notin A => waiter'[b] = waiter[b]
<1>1. waiter[b] \in Waiters
  BY DEF Types
<1>2. waiter'[b] = IF b \in A THEN SetRequesting(waiter[b], TRUE) ELSE waiter[b]
  BY DEF Waits
<1>3. CASE b \in A
  <2>1. PICK v : v = SetRequesting(waiter[b], TRUE)
    OBVIOUS
  <2>2. PICK is \in BOOLEAN : is = TRUE
    OBVIOUS
  <2>3. PICK w \in Waiters : w = waiter[b]
    BY <1>1
  <2>4. v = SetRequesting(w, is)
    BY <2>1, <2>2, <2>3
  <2>5. /\ v \in Waiters /\ v.good = w.good /\ v.last = w.last /\ v.count = w.count
        /\ v.waiting = w.waiting /\ v.requesting = is
        /\ is => v.queue = {}
        /\ ~is => v.queue = w.queue
    BY <2>4, SetRequestingIs
  <2>. QED
    BY <1>2, <1>3, <2>1, <2>2, <2>3, <2>5
<1>4. CASE b \notin A
  BY <1>1, <1>2, <1>4
<1>. QED
  BY <1>3, <1>4

LEMMA WaitsMoves ==
    ASSUME Safe, NEW x, NEW y, NEW A, Handles(x, y, A), Waits(y, A)
    PROVE  Types' /\ Moves(y, A)
<1>1. Types /\ A \subseteq Boxes
  BY DEF Safe, Handles
<1>2. ASSUME NEW b \in Boxes
      PROVE  /\ waiter'[b] \in Waiters /\ waiter'[b].good = waiter[b].good
             /\ waiter[b].good \in Nat
             /\ b \in A => waiter'[b].requesting
             /\ b \notin A => waiter'[b] = waiter[b]
  <2>1. waiter[b].good \in Nat
    BY <1>1 DEF Types, Waiters
  <2>2. waiter'[b] \in Waiters /\ waiter'[b].good = waiter[b].good
    BY <1>1, WaitsIs
  <2>3. b \in A => waiter'[b].requesting
    BY <1>1, WaitsIs
  <2>4. b \notin A => waiter'[b] = waiter[b]
    BY DEF Waits
  <2>. QED
    BY <2>1, <2>2, <2>3, <2>4
<1>3. waiter' \in [Boxes -> Waiters]
  <2>1. PICK f : f = waiter'
    OBVIOUS
  <2>2. f = [b \in Boxes |-> IF b \in A THEN SetRequesting(waiter[b], TRUE) ELSE waiter[b]]
    BY <2>1 DEF Waits
  <2>3. \A b \in Boxes : f[b] \in Waiters
    BY <1>2, <2>1
  <2>4. f \in [Boxes -> Waiters]
    BY <2>2, <2>3
  <2>. QED
    BY <2>1, <2>4
<1>4. Types'
  BY <1>1, <1>3 DEF Types, Waits, Handles, bounds
<1>5. \A b \in Boxes : waiter[b].good <= waiter'[b].good /\ known[b] \subseteq known'[b]
  <2>1. ASSUME NEW b \in Boxes
        PROVE  waiter[b].good <= waiter'[b].good
    <3>1. PICK n \in Nat : n = waiter[b].good
      BY <1>2
    <3>2. n <= n /\ waiter'[b].good = n
      BY <1>2, <3>1
    <3>. QED
      BY <3>1, <3>2
  <2>2. known' = known
    BY DEF Waits
  <2>. QED
    BY <2>1, <2>2
<1>6. ASSUME NEW k \in 1..Len(pending), k # y, pending[k].kind = "difference"
      PROVE  /\ waiter'[pending[k].box].requesting
             /\ waiter'[pending[k].box].good = waiter[pending[k].box].good
  <2>1. PICK r : r = pending[k]
    OBVIOUS
  <2>2. r.box \in Boxes /\ RequestOK(r)
    BY <1>1, <2>1, PendingIs DEF Safe, RequestsOK
  <2>3. waiter[r.box].requesting
    BY <1>6, <2>1, <2>2 DEF RequestOK
  <2>. QED
    BY <1>2, <2>1, <2>2, <2>3
<1>. QED
  BY <1>1, <1>2, <1>4, <1>5, <1>6 DEF Moves, Waits

LEMMA WaitsStep ==
    ASSUME Safe, NEW x, NEW y, NEW A, Handles(x, y, A), Waits(y, A)
    PROVE  Safe'
<1>1. Types /\ Types' /\ Moves(y, A) /\ A \subseteq Boxes
  BY WaitsMoves DEF Safe, Handles
<1>2. /\ known' = known /\ again' = again /\ log' = log /\ own' = own
      /\ \A c \in Boxes \ A : waiter[c].queue # {} => c \in byPts'
  BY DEF Waits, Handles
<1>3. ASSUME NEW b \in Boxes
      PROVE  BoxOK(waiter'[b], known[b], log[b])
  <2>1. BoxOK(waiter[b], known[b], log[b])
    BY DEF Safe, BoxesOK
  <2>2. BoxOK(SetRequesting(waiter[b], TRUE), known[b], log[b])
    BY <2>1, RequestingBox
  <2>. QED
    BY <1>1, <2>1, <2>2, WaitsIs
<1>4. BoxesOK'
  BY <1>2, <1>3 DEF Safe, BoxesOK
<1>5. TimersOK'
  <2>1. ASSUME NEW b \in Boxes, waiter'[b].queue # {}
        PROVE  b \in byPts'
    BY <1>1, <1>2, <2>1, WaitsIs
  <2>. QED
    BY <2>1 DEF TimersOK
<1>6. MainOK'
  <2>1. waiter'[Main].good = waiter[Main].good
    BY <1>1, WaitsIs, BoxesAreFinite
  <2>. QED
    BY <1>2, <2>1 DEF Safe, MainOK, AppliedOnce
<1>7. ASSUME NEW b \in Boxes
      PROVE  \E p \in log[b] \cup {0} :
                /\ p <= waiter'[b].good
                /\ known'[b] \cup Content(waiter'[b].queue)
                     \subseteq known[b] \cup Content(waiter[b].queue) \cup Taken(x, b) \cup 1..p
  <2>1. 0 \in log[b] \cup {0} /\ 0 <= waiter'[b].good
    <3>1. waiter'[b].good \in Nat
      BY <1>1, GoodGrows
    <3>. QED
      BY <3>1
  <2>2. Content(waiter'[b].queue) \subseteq Content(waiter[b].queue)
    <3>1. waiter'[b].queue = {} \/ waiter'[b].queue = waiter[b].queue
      BY <1>1, WaitsIs
    <3>. QED
      BY <3>1, ContentIs
  <2>3. known'[b] \cup Content(waiter'[b].queue)
          \subseteq known[b] \cup Content(waiter[b].queue) \cup Taken(x, b) \cup 1..0
    BY <1>2, <2>2
  <2>. QED
    BY <2>1, <2>3
<1>8. Goes(x)
  BY <1>7 DEF Goes
<1>. QED
  BY <1>1, <1>4, <1>5, <1>6, <1>8, HandledSafe

LEMMA FeedStep ==
    ASSUME Safe, NEW x, NEW y, Handles(x, y, {}), NEW b \in Boxes, NEW C, Steps(b, C),
           C \subseteq Taken(x, b), NEW O, O \subseteq own[b], b = Main => Kept(b, O),
           UNCHANGED <<afterFail, minChannel, bounds>>
    PROVE  Safe'
<1>1. Types /\ log' = log /\ own' = own
  BY DEF Safe, Handles
<1>2. Types'
  BY <1>1 DEF Types, Steps, Handles, bounds
<1>3. /\ Fed(waiter[b], known[b], waiter'[b], known'[b], log[b], C)
      /\ BoxOK(waiter'[b], known'[b], log[b]) /\ again'[b] \subseteq known'[b]
      /\ \A d \in Boxes \ {b} :
            waiter'[d] = waiter[d] /\ known'[d] = known[d] /\ again'[d] = again[d]
  BY DEF Steps
<1>4. ASSUME NEW d \in Boxes
      PROVE  /\ waiter[d].good \in Nat /\ waiter[d].good <= waiter'[d].good /\ known[d] \subseteq known'[d]
             /\ waiter[d].requesting => waiter'[d].requesting /\ waiter'[d].good = waiter[d].good
  <2>1. waiter[d].good \in Nat /\ waiter[d].good <= waiter[d].good
    BY <1>1 DEF Types, Waiters
  <2>2. CASE d # b
    BY <1>3, <2>1, <2>2
  <2>3. CASE d = b
    BY <1>3, <2>1, <2>3 DEF Fed
  <2>. QED
    BY <2>2, <2>3
<1>5. Moves(y, {})
  <2>1. ASSUME NEW k \in 1..Len(pending), pending[k].kind = "difference"
        PROVE  /\ waiter'[pending[k].box].requesting
               /\ waiter'[pending[k].box].good = waiter[pending[k].box].good
               /\ pending[k].box = Main => Main \notin afterFail
    <3>1. PICK r : r = pending[k]
      OBVIOUS
    <3>2. r.box \in Boxes /\ RequestOK(r)
      BY <1>1, <3>1, PendingIs DEF Safe, RequestsOK
    <3>3. waiter[r.box].requesting /\ (r.box = Main => Main \notin afterFail)
      BY <2>1, <3>1, <3>2 DEF RequestOK
    <3>. QED
      BY <1>4, <3>1, <3>2, <3>3
  <2>2. \A d \in Boxes : waiter[d].good <= waiter'[d].good /\ known[d] \subseteq known'[d]
    BY <1>4
  <2>3. afterFail' = afterFail
    OBVIOUS
  <2>. QED
    BY <2>1, <2>2, <2>3 DEF Moves, Asked
<1>6. BoxesOK'
  <2>1. ASSUME NEW d \in Boxes
        PROVE  BoxOK(waiter'[d], known'[d], log[d]) /\ again'[d] \subseteq known'[d]
    <3>1. CASE d # b
      BY <1>3, <3>1 DEF Safe, BoxesOK
    <3>2. CASE d = b
      BY <1>3, <3>2
    <3>. QED
      BY <3>1, <3>2
  <2>. QED
    BY <1>1, <2>1 DEF BoxesOK
<1>7. TimersOK'
  BY <1>3 DEF Steps, Safe, TimersOK
<1>8. Goes(x)
  <2>1. ASSUME NEW d \in Boxes
        PROVE  \E p \in log[d] \cup {0} :
                /\ p <= waiter'[d].good
                /\ known'[d] \cup Content(waiter'[d].queue)
                     \subseteq known[d] \cup Content(waiter[d].queue) \cup Taken(x, d) \cup 1..p
    <3>1. CASE d # b
      <4>1. 0 \in log[d] \cup {0} /\ 0 <= waiter'[d].good
        BY <1>3, <1>4, <3>1
      <4>2. known'[d] \cup Content(waiter'[d].queue)
              \subseteq known[d] \cup Content(waiter[d].queue) \cup Taken(x, d) \cup 1..0
        BY <1>3, <3>1
      <4>. QED
        BY <4>1, <4>2
    <3>2. CASE d = b
      <4>1. PICK p \in log[b] \cup {0} :
              /\ p <= waiter'[b].good
              /\ known'[b] \cup Content(waiter'[b].queue)
                   \subseteq known[b] \cup Content(waiter[b].queue) \cup C \cup 1..p
        BY <1>3 DEF Fed
      <4>2. known'[b] \cup Content(waiter'[b].queue)
              \subseteq known[b] \cup Content(waiter[b].queue) \cup Taken(x, b) \cup 1..p
        BY <4>1
      <4>. QED
        BY <3>2, <4>1, <4>2
    <3>. QED
      BY <3>1, <3>2
  <2>. QED
    BY <2>1 DEF Goes
<1>9. MainOK'
  <2>1. MainOK /\ Main \in Boxes
    BY BoxesAreFinite DEF Safe
  <2>2. CASE b # Main
    BY <1>1, <1>3, <2>1, <2>2 DEF MainOK, AppliedOnce
  <2>3. CASE b = Main
    <3>1. Kept(Main, O) /\ O \subseteq own[Main]
      BY <2>3
    <3>. QED
      BY <1>1, <2>1, <3>1 DEF MainOK, AppliedOnce, Kept
  <2>. QED
    BY <2>2, <2>3
<1>. QED
  BY <1>2, <1>5, <1>6, <1>7, <1>8, <1>9, HandledSafe

-----------------------------------------------------------------------------
(***************************************************************************)
(* The timers and what asks for a difference.                              *)
(***************************************************************************)
\* The message at x, that is no answer, is handled or, when x is 0, no message is.
Drops(x) ==
    /\ x \in 0..Len(stream) /\ stream' \in Seq(Messages) /\ Removes(stream', stream, x)
    /\ x # 0 => ~IsAnswer(stream[x])

LEMMA NoDrop == ASSUME Safe, UNCHANGED stream PROVE Drops(0)
<1>1. stream \in Seq(Messages)
  BY DEF Safe, Types
<1>2. Len(stream) \in Nat
  BY <1>1
<1>. QED
  BY <1>1, <1>2 DEF Drops, Removes

LEMMA HeadDrops ==
    ASSUME Safe, stream # <<>>, ~IsAnswer(Head(stream)), stream' = Tail(stream)
    PROVE  Drops(1) /\ 1 \in 1..Len(stream) /\ Head(stream) = stream[1]
<1>1. stream \in Seq(Messages)
  BY DEF Safe, Types
<1>2. Len(stream) \in Nat
  BY <1>1
<1>3. PICK s, t : s = stream /\ t = stream'
  OBVIOUS
<1>4. Tail(s) \in Seq(Messages) /\ Removes(Tail(s), s, 1) /\ 1 \in 1..Len(s) /\ Head(s) = s[1]
  BY <1>1, <1>3, TailRemoves
<1>. QED
  BY <1>2, <1>3, <1>4 DEF Drops

\* What is asked for was not asked for before.
LEMMA NotAsked ==
    ASSUME Safe, NEW b \in Boxes, ~waiter[b].requesting, NEW k \in 1..Len(pending)
    PROVE  ~Asked(b, pending[k])
<1>1. RequestOK(pending[k])
  BY DEF Safe, RequestsOK
<1>. QED
  BY <1>1 DEF RequestOK, Asked

LEMMA FailedNotAsked ==
    ASSUME Safe, Main \in afterFail, NEW k \in 1..Len(pending)
    PROVE  ~Asked(Main, pending[k])
<1>1. RequestOK(pending[k])
  BY DEF Safe, RequestsOK
<1>. QED
  BY <1>1 DEF RequestOK, Asked

LEMMA AskHandles ==
    ASSUME Safe, NEW x, Drops(x), NEW A, A \subseteq Boxes,
           \E s \in Orders(A) : pending' = pending \o DifferencesOf(s),
           \A b \in A : \A k \in 1..Len(pending) : ~Asked(b, pending[k]),
           UNCHANGED <<log, own>>
    PROVE  Handles(x, 0, A)
<1>1. PICK p, q : p = pending /\ q = pending'
  OBVIOUS
<1>2. p \in Seq(Requests)
  BY <1>1 DEF Safe, Types
<1>3. Removes(p, p, 0)
  BY DEF Removes
<1>4. \E s \in Orders(A) : q = p \o DifferencesOf(s)
  BY <1>1
<1>5. q \in Seq(Requests) /\ From(q, p, 0, A)
  BY <1>2, <1>3, <1>4, AskingFrom
<1>6. Len(p) \in Nat
  BY <1>2
<1>. QED
  BY <1>1, <1>5, <1>6 DEF Handles, Drops

\* A step that asks for the differences of S.
AskingFor(x, S) ==
    /\ Drops(x) /\ S \subseteq Boxes /\ GetDifferences(waiter, pending, S)
    /\ afterFail' \subseteq afterFail \ Asks(waiter, S) /\ minChannel' \in BOOLEAN
    /\ UNCHANGED <<log, history, bounds>>

LEMMA AskingWaits ==
    ASSUME Safe, NEW x, NEW S, AskingFor(x, S)
    PROVE  Handles(x, 0, Asks(waiter, S)) /\ Waits(0, Asks(waiter, S))
<1>1. PICK A : A = Asks(waiter, S)
  OBVIOUS
<1>2. /\ waiter' = [b \in Boxes |-> IF b \in A THEN SetRequesting(waiter[b], TRUE) ELSE waiter[b]]
      /\ byPts' = byPts \ S
      /\ \E s \in Orders(A) : pending' = pending \o DifferencesOf(s)
  BY <1>1 DEF AskingFor, GetDifferences
<1>3. A \subseteq Boxes /\ A \subseteq S /\ \A b \in A : ~waiter[b].requesting
  BY <1>1 DEF AskingFor, Asks
<1>4. Drops(x) /\ log' = log /\ own' = own /\ known' = known /\ again' = again
  BY DEF AskingFor, history
<1>5. Handles(x, 0, A)
  <2>1. \A b \in A : \A k \in 1..Len(pending) : ~Asked(b, pending[k])
    BY <1>3, NotAsked
  <2>. QED
    BY <1>2, <1>3, <1>4, <2>1, AskHandles
<1>6. \A c \in Boxes \ A : waiter[c].queue # {} => c \in byPts'
  <2>1. SUFFICES ASSUME NEW c \in Boxes \ A, waiter[c].queue # {}, c \in S
                 PROVE  FALSE
    BY <1>2 DEF Safe, TimersOK
  <2>2. BoxOK(waiter[c], known[c], log[c])
    BY DEF Safe, BoxesOK
  <2>3. ~waiter[c].requesting /\ waiter[c].good # 0
    BY <2>1, <2>2 DEF BoxOK
  <2>4. Inited(waiter[c])
    <3>1. waiter[c].good \in Nat
      BY DEF Safe, Types, Waiters
    <3>. QED
      BY <2>3, <3>1 DEF Inited
  <2>. QED
    BY <1>1, <2>1, <2>3, <2>4 DEF Asks
<1>7. byPts' \subseteq Boxes /\ afterFail' \subseteq Boxes /\ minChannel' \in BOOLEAN
  BY <1>2 DEF AskingFor, Safe, Types
<1>8. Main \in afterFail' =>
          Main \notin A /\ \A k \in 1..Len(pending) : k # 0 => ~Asked(Main, pending[k])
  BY <1>1, FailedNotAsked DEF AskingFor
<1>9. UNCHANGED bounds
  BY DEF AskingFor
<1>10. Waits(0, A)
  BY <1>2, <1>4, <1>6, <1>7, <1>8, <1>9 DEF Waits
<1>. QED
  BY <1>1, <1>5, <1>10

LEMMA AskingStep == ASSUME Safe, NEW x, NEW S, AskingFor(x, S) PROVE Safe'
<1>1. PICK A : A = Asks(waiter, S)
  OBVIOUS
<1>2. Handles(x, 0, A) /\ Waits(0, A)
  BY <1>1, AskingWaits
<1>. QED
  BY <1>2, WaitsStep

LEMMA TimeByPtsAsks ==
    ASSUME Safe, NEW b \in Boxes, TimeByPts(b)
    PROVE  AskingFor(0, {b})
<1>1. UNCHANGED <<stream, minChannel>> /\ minChannel \in BOOLEAN
  BY DEF TimeByPts, Safe, Types
<1>2. Drops(0)
  BY <1>1, NoDrop
<1>. QED
  BY <1>1, <1>2 DEF TimeByPts, AskingFor

LEMMA TimeMinChannelAsks == ASSUME Safe, TimeMinChannel PROVE AskingFor(0, {Main})
<1>1. UNCHANGED stream
  BY DEF TimeMinChannel
<1>2. Drops(0)
  BY <1>1, NoDrop
<1>. QED
  BY <1>2, BoxesAreFinite DEF TimeMinChannel, AskingFor

LEMMA TimeAfterFailAsks ==
    ASSUME Safe, NEW b \in Channels, TimeAfterFail(b)
    PROVE  AskingFor(0, {b})
<1>1. UNCHANGED <<stream, minChannel>> /\ minChannel \in BOOLEAN /\ b \in Boxes /\ b # Main
  BY MainIsNoChannel, BoxesAreFinite DEF TimeAfterFail, Safe, Types
<1>2. Drops(0)
  BY <1>1, NoDrop
<1>3. Asks(waiter, {b}) \subseteq {b}
  BY DEF Asks
<1>. QED
  BY <1>1, <1>2, <1>3 DEF TimeAfterFail, AskingFor

\* The difference of the account failed, and is asked for again.
LEMMA TimeAfterFailWaits ==
    ASSUME Safe, TimeAfterFail(Main)
    PROVE  Handles(0, 0, {Main}) /\ Waits(0, {Main})
<1>0. Main \in Boxes
  BY BoxesAreFinite
<1>1. PICK w : w = [waiter EXCEPT ![Main] = SetRequesting(@, FALSE)]
  OBVIOUS
<1>2. /\ GetDifferences(w, pending, {Main}) /\ Main \in afterFail /\ afterFail' = afterFail \ {Main}
      /\ UNCHANGED <<minChannel, stream, log, history, bounds>>
  BY <1>1 DEF TimeAfterFail
<1>3. waiter \in [Boxes -> Waiters] /\ waiter[Main] \in Waiters
  BY <1>0 DEF Safe, Types
<1>4. w[Main] = SetRequesting(waiter[Main], FALSE) /\ \A c \in Boxes \ {Main} : w[c] = waiter[c]
  BY <1>0, <1>1, <1>3
<1>5. ~w[Main].requesting /\ SetRequesting(w[Main], TRUE) = SetRequesting(waiter[Main], TRUE)
  BY <1>3, <1>4 DEF SetRequesting, Waiters
<1>6. Asks(w, {Main}) = {Main}
  BY <1>5 DEF Asks
<1>7. /\ waiter' = [b \in Boxes |-> IF b \in {Main} THEN SetRequesting(w[b], TRUE) ELSE w[b]]
      /\ byPts' = byPts \ {Main}
      /\ \E s \in Orders({Main}) : pending' = pending \o DifferencesOf(s)
  BY <1>2, <1>6 DEF GetDifferences
<1>8. waiter' = [b \in Boxes |-> IF b \in {Main} THEN SetRequesting(waiter[b], TRUE) ELSE waiter[b]]
  <2>1. \A b \in Boxes : (IF b \in {Main} THEN SetRequesting(w[b], TRUE) ELSE w[b])
            = (IF b \in {Main} THEN SetRequesting(waiter[b], TRUE) ELSE waiter[b])
    BY <1>4, <1>5
  <2>. QED
    BY <1>7, <2>1
<1>9. Handles(0, 0, {Main})
  <2>1. Drops(0)
    BY <1>2, NoDrop
  <2>2. PICK A : A = {Main}
    OBVIOUS
  <2>3. \A b \in A : \A k \in 1..Len(pending) : ~Asked(b, pending[k])
    BY <1>2, <2>2, FailedNotAsked
  <2>4. Handles(0, 0, A)
    BY <1>0, <1>2, <1>7, <2>1, <2>2, <2>3, AskHandles DEF history
  <2>. QED
    BY <2>2, <2>4
<1>10. \A c \in Boxes \ {Main} : waiter[c].queue # {} => c \in byPts'
  BY <1>7 DEF Safe, TimersOK
<1>11. byPts' \subseteq Boxes /\ afterFail' \subseteq Boxes /\ minChannel' \in BOOLEAN
  BY <1>2, <1>7 DEF Safe, Types
<1>12. Waits(0, {Main})
  BY <1>2, <1>8, <1>10, <1>11 DEF Waits, history
<1>. QED
  BY <1>9, <1>12

LEMMA NewSessionAsks == ASSUME Safe, ReceiveNewSession PROVE AskingFor(1, {Main})
<1>1. Drops(1)
  BY HeadDrops DEF ReceiveNewSession, UpdateIsNext
<1>2. minChannel' \in BOOLEAN
  BY DEF ReceiveNewSession, Safe, Types
<1>. QED
  BY <1>1, <1>2, BoxesAreFinite DEF ReceiveNewSession, AskingFor

LEMMA NotLoadedAsks ==
    ASSUME Safe, ReceiveNotLoaded, Head(stream).box = Main
    PROVE  AskingFor(1, {Main})
<1>1. Drops(1)
  BY HeadDrops DEF ReceiveNotLoaded, UpdateIsNext
<1>2. minChannel' \in BOOLEAN
  BY DEF ReceiveNotLoaded, Safe, Types
<1>3. Asks(waiter, {Main}) \subseteq {Main}
  BY DEF Asks
<1>. QED
  BY <1>1, <1>2, <1>3, BoxesAreFinite DEF ReceiveNotLoaded, AskingFor

\* Nothing is asked for.
LEMMA SameWaits ==
    ASSUME Safe, NEW y, UNCHANGED <<waiter, byPts, known, again, bounds>>,
           afterFail' \subseteq Boxes, minChannel' \in BOOLEAN,
           Main \in afterFail' => \A k \in 1..Len(pending) : k # y => ~Asked(Main, pending[k])
    PROVE  Waits(y, {})
<1>1. waiter \in [Boxes -> Waiters]
  BY DEF Safe, Types
<1>2. waiter = [b \in Boxes |-> waiter[b]]
  BY <1>1
<1>3. waiter' = [b \in Boxes |-> IF b \in {} THEN SetRequesting(waiter[b], TRUE) ELSE waiter[b]]
  BY <1>2
<1>4. byPts' \subseteq Boxes /\ \A c \in Boxes \ {} : waiter[c].queue # {} => c \in byPts'
  BY DEF Safe, Types, TimersOK
<1>. QED
  BY <1>3, <1>4 DEF Waits

LEMMA PlainHandles ==
    ASSUME Safe, NEW x, Drops(x), UNCHANGED <<pending, log, own>>
    PROVE  Handles(x, 0, {})
<1>1. PICK p : p = pending
  OBVIOUS
<1>2. p \in Seq(Requests)
  BY <1>1 DEF Safe, Types
<1>3. Removes(p, p, 0)
  BY DEF Removes
<1>4. From(p, p, 0, {})
  BY <1>2, <1>3, PlainFrom
<1>5. Len(p) \in Nat
  BY <1>2
<1>. QED
  BY <1>1, <1>2, <1>4, <1>5 DEF Handles, Drops

LEMMA NotLoadedWaits ==
    ASSUME Safe, ReceiveNotLoaded, Head(stream).box # Main
    PROVE  Handles(1, 0, {}) /\ Waits(0, {})
<1>1. Drops(1)
  BY HeadDrops DEF ReceiveNotLoaded, UpdateIsNext
<1>2. /\ UNCHANGED <<waiter, byPts, pending, afterFail, log, known, own, again, bounds>>
      /\ minChannel' = TRUE
  BY DEF ReceiveNotLoaded, history
<1>3. Handles(1, 0, {})
  BY <1>1, <1>2, PlainHandles
<1>4. afterFail' \subseteq Boxes /\ minChannel' \in BOOLEAN
  BY <1>2 DEF Safe, Types
<1>5. Main \in afterFail' => \A k \in 1..Len(pending) : k # 0 => ~Asked(Main, pending[k])
  BY <1>2, FailedNotAsked
<1>6. Waits(0, {})
  BY <1>2, <1>4, <1>5, SameWaits
<1>. QED
  BY <1>3, <1>6

-----------------------------------------------------------------------------
(***************************************************************************)
(* Receiving.                                                              *)
(***************************************************************************)
LEMMA AnswerHandles ==
    ASSUME Safe, NEW i \in 1..Len(stream), AnswerIsNext(i), NEW y, y = PlaceOf(stream[i]),
           NEW t, t = Without(pending, y), stream' = Without(stream, i)
    PROVE  /\ y \in 1..Len(pending) /\ AnswerTo(pending[y], stream[i])
           /\ t \in Seq(Requests) /\ Removes(t, pending, y)
           /\ stream' \in Seq(Messages) /\ Removes(stream', stream, i)
           /\ i \in 0..Len(stream) /\ y \in 0..Len(pending) /\ y # 0 /\ i # 0
           /\ IsAnswer(stream[i])
<1>1. pending \in Seq(Requests) /\ stream \in Seq(Messages) /\ Types
  BY DEF Safe, Types
<1>2. IsAnswer(stream[i])
  BY DEF AnswerIsNext
<1>3. y \in 1..Len(pending) /\ AnswerTo(pending[y], stream[i])
  BY <1>2, PlaceIs DEF Safe
<1>4. PICK p, s, u : p = pending /\ s = stream /\ u = stream'
  OBVIOUS
<1>5. Without(s, i) \in Seq(Messages) /\ Removes(Without(s, i), s, i)
  BY <1>1, <1>4, WithoutRemoves
<1>6. Without(p, y) \in Seq(Requests) /\ Removes(Without(p, y), p, y)
  BY <1>1, <1>3, <1>4, WithoutRemoves
<1>7. Len(p) \in Nat /\ Len(s) \in Nat
  BY <1>1, <1>4
<1>. QED
  BY <1>2, <1>3, <1>4, <1>5, <1>6, <1>7

\* An answer is handled, and nothing is asked for.
LEMMA AnswerPlain ==
    ASSUME Safe, NEW i \in 1..Len(stream), AnswerIsNext(i), NEW y, y = PlaceOf(stream[i]),
           pending' = Without(pending, y), stream' = Without(stream, i), UNCHANGED <<log, own>>
    PROVE  Handles(i, y, {})
<1>1. PICK t, p : t = pending' /\ p = pending
  OBVIOUS
<1>2. /\ y \in 1..Len(pending) /\ AnswerTo(pending[y], stream[i])
      /\ t \in Seq(Requests) /\ Removes(t, pending, y)
      /\ stream' \in Seq(Messages) /\ Removes(stream', stream, i)
      /\ i \in 0..Len(stream) /\ y \in 0..Len(pending) /\ y # 0 /\ i # 0
      /\ IsAnswer(stream[i])
  BY <1>1, AnswerHandles
<1>3. p \in Seq(Requests)
  BY <1>1 DEF Safe, Types
<1>4. From(t, p, y, {})
  BY <1>1, <1>2, <1>3, PlainFrom
<1>. QED
  BY <1>1, <1>2, <1>4 DEF Handles

LEMMA FailWaits ==
    ASSUME Safe, NEW i \in 1..Len(stream), ReceiveFail(i), NEW y, y = PlaceOf(stream[i])
    PROVE  Handles(i, y, {}) /\ Waits(y, {})
<1>1. /\ AnswerIsNext(i) /\ stream[i].kind = "fail"
      /\ pending' = Without(pending, y) /\ stream' = Without(stream, i)
      /\ afterFail' = afterFail \cup {stream[i].box}
      /\ UNCHANGED <<waiter, byPts, minChannel, log, known, own, again, bounds>>
  BY DEF ReceiveFail, history
<1>2. Handles(i, y, {})
  BY <1>1, AnswerPlain
<1>3. y \in 1..Len(pending) /\ AnswerTo(pending[y], stream[i])
  BY <1>1, AnswerHandles
<1>4. PICK m, r : m = stream[i] /\ r = pending[y]
  OBVIOUS
<1>5. m.box \in Boxes /\ r.kind \in Acts \cup {"difference"}
  BY <1>3, <1>4, MessageIs, PendingIs DEF Safe
<1>6. afterFail' \subseteq Boxes /\ minChannel' \in BOOLEAN
  BY <1>1, <1>4, <1>5 DEF Safe, Types
<1>7. ASSUME Main \in afterFail', NEW k \in 1..Len(pending), k # y, Asked(Main, pending[k])
      PROVE  FALSE
  <2>1. Main \notin afterFail
    BY <1>7, FailedNotAsked
  <2>2. m.box = Main
    BY <1>1, <1>4, <1>7, <2>1
  <2>3. r.kind = "difference" /\ r.box = Main
    BY <1>1, <1>3, <1>4, <1>5, <2>2, Kinds DEF AnswerTo, SameAsk
  <2>4. SameAsk(pending[k], pending[y])
    BY <1>4, <1>7, <2>3 DEF Asked, SameAsk
  <2>. QED
    BY <1>3, <1>7, <2>4 DEF Safe, RequestsDiffer
<1>8. Waits(y, {})
  BY <1>1, <1>6, <1>7, SameWaits
<1>. QED
  BY <1>2, <1>8

\* The update of the message at x is fed to the waiter of b.
Feeds(x, y, b, C, O) ==
    /\ Handles(x, y, {}) /\ b \in Boxes /\ Steps(b, C) /\ C \subseteq Taken(x, b)
    /\ O \subseteq own[b] /\ (b = Main => Kept(b, O))
    /\ UNCHANGED <<afterFail, minChannel, bounds>>

LEMMA FeedsStep == ASSUME Safe, NEW x, NEW y, NEW b, NEW C, NEW O, Feeds(x, y, b, C, O) PROVE Safe'
<1>1. /\ Handles(x, y, {}) /\ b \in Boxes /\ Steps(b, C) /\ C \subseteq Taken(x, b)
      /\ O \subseteq own[b] /\ (b = Main => Kept(b, O))
      /\ UNCHANGED <<afterFail, minChannel, bounds>>
  BY DEF Feeds
<1>. QED
  BY <1>1, FeedStep

\* An update with the numbers of m.
LEMMA SameUpdate ==
    ASSUME NEW m, NEW u, u.pts = m.pts, u.count = m.count
    PROVE  /\ Covers(u) = Covers(m)
           /\ \A L : Real(L, m) => Real(L, u)
           /\ \A w, k : Fresh(w, k, m) => Fresh(w, k, u)
<1>1. Covers(u) = Covers(m)
  BY DEF Covers
<1>2. ASSUME NEW L, Real(L, m) PROVE Real(L, u)
  BY <1>2 DEF Real
<1>3. ASSUME NEW w, NEW k, Fresh(w, k, m) PROVE Fresh(w, k, u)
  BY <1>1, <1>3 DEF Fresh
<1>. QED
  BY <1>1, <1>2, <1>3

LEMMA PushFeeds ==
    ASSUME Safe, ReceivePush, NEW m, m = stream[1], NEW b, b = m.box
    PROVE  /\ m.kind = "push" /\ b \in Boxes
           /\ \/ /\ waiter[Main].requesting \/ waiter[b].requesting
                 /\ UNCHANGED <<waiter, byPts, known, again>> /\ Feeds(1, 0, b, {}, {})
              \/ /\ ~waiter[Main].requesting /\ ~waiter[b].requesting
                 /\ Feeds(1, 0, b, Covers(m), {})
<1>1. Drops(1) /\ 1 \in 1..Len(stream) /\ Head(stream) = stream[1]
  BY HeadDrops DEF ReceivePush, UpdateIsNext
<1>2. m.kind = "push" /\ UNCHANGED <<afterFail, minChannel, pending, log, own, bounds>>
  BY <1>1 DEF ReceivePush
<1>3. b \in Boxes /\ m.pts \in Nat /\ m.count \in Nat
  BY <1>1, MessageIs DEF Safe
<1>4. Handles(1, 0, {})
  BY <1>1, <1>2, PlainHandles
<1>5. CASE waiter[Main].requesting \/ waiter[b].requesting
  <2>1. UNCHANGED <<waiter, byPts, known, again>>
    BY <1>1, <1>5 DEF ReceivePush
  <2>2. Steps(b, {}) /\ Kept(b, {})
    BY <1>3, <2>1, Idle DEF Safe
  <2>3. Feeds(1, 0, b, {}, {})
    BY <1>2, <1>3, <1>4, <2>2 DEF Feeds
  <2>. QED
    BY <1>2, <1>3, <1>5, <2>1, <2>3
<1>6. CASE ~(waiter[Main].requesting \/ waiter[b].requesting)
  <2>1. PICK u : u = [pts |-> m.pts, count |-> m.count]
    OBVIOUS
  <2>2. Update(b, u)
    BY <1>1, <1>6, <2>1 DEF ReceivePush
  <2>3. PushOK(m)
    BY <1>1 DEF Safe, PushesOK
  <2>4. Real(log[b], m) /\ Fresh(waiter[b], known[b], m)
    BY <1>2, <2>3 DEF PushOK
  <2>5. u.pts = m.pts /\ u.count = m.count /\ u \in Updates
    BY <1>3, <2>1 DEF Updates
  <2>6. Real(log[b], u) /\ Fresh(waiter[b], known[b], u) /\ Covers(u) = Covers(m)
    BY <2>4, <2>5, SameUpdate
  <2>7. /\ Steps(b, Covers(u))
        /\ Kept(b, IF waiter[b].requesting THEN Covers(u) ELSE {})
    BY <1>3, <2>2, <2>5, <2>6, UpdateSteps DEF Safe
  <2>8. Steps(b, Covers(m)) /\ Kept(b, {})
    BY <1>6, <2>6, <2>7
  <2>9. Covers(m) \subseteq Taken(1, b)
    BY <1>2 DEF Taken
  <2>10. Feeds(1, 0, b, Covers(m), {})
    BY <1>2, <1>3, <1>4, <2>8, <2>9 DEF Feeds
  <2>. QED
    BY <1>2, <1>3, <1>6, <2>10
<1>. QED
  BY <1>5, <1>6

LEMMA ActFeeds ==
    ASSUME Safe, NEW i \in 1..Len(stream), ReceiveAct(i), NEW y, y = PlaceOf(stream[i]),
           NEW m, m = stream[i], NEW b, b = m.box
    PROVE  /\ b \in Boxes
           /\ \/ m.kind \in OwnKinds /\ Feeds(i, y, b, Covers(m), Covers(m))
              \/ m.kind \in {"updates", "history"} /\ b \in Channels /\ Feeds(i, y, b, {}, {})
<1>1. /\ AnswerIsNext(i) /\ pending' = Without(pending, y) /\ stream' = Without(stream, i)
      /\ UNCHANGED <<afterFail, minChannel, log, own, bounds>>
  BY DEF ReceiveAct
<1>2. Handles(i, y, {})
  BY <1>1, AnswerPlain
<1>3. y \in 1..Len(pending) /\ AnswerTo(pending[y], m)
  BY <1>1, AnswerHandles
<1>4. PICK r : r = pending[y]
  OBVIOUS
<1>5. b \in Boxes /\ m.pts \in Nat /\ m.count \in Nat
  BY MessageIs DEF Safe
<1>6. RequestOK(r) /\ OwnOK(r) /\ AnswerOK(m)
  BY <1>3, <1>4 DEF Safe, RequestsOK, OwnsOK, AnswersOK
<1>7. PICK u : u = [pts |-> m.pts, count |-> m.count]
  OBVIOUS
<1>8. u.pts = m.pts /\ u.count = m.count /\ u \in Updates /\ Covers(u) = Covers(m)
  BY <1>5, <1>7, SameUpdate DEF Updates
<1>9. ASSUME m.kind \in Acts
      PROVE  r.kind = m.kind /\ r.pts = m.pts /\ r.box = b /\ r.pts # 0
  <2>1. r.kind = m.kind /\ r.pts = m.pts /\ r.box = b /\ r.answered
    BY <1>3, <1>4, <1>9 DEF AnswerTo, SameAsk
  <2>. QED
    BY <1>6, <1>9, <2>1 DEF RequestOK
<1>10. ASSUME m.kind \in OwnKinds
       PROVE  /\ Real(log[b], u) /\ Fresh(waiter[b], known[b], u)
              /\ Inited(waiter[b]) /\ Covers(m) \subseteq own[b] /\ Covers(m) \subseteq Taken(i, b)
  <2>1. r.kind = m.kind /\ r.pts = m.pts /\ r.box = b /\ r.pts # 0
    BY <1>9, <1>10, Kinds
  <2>2. m.count = 1
    BY <1>6, <1>10 DEF AnswerOK
  <2>3. PICK o : o = One(m.pts)
    OBVIOUS
  <2>4. Real(log[b], o) /\ Fresh(waiter[b], known[b], o)
    BY <1>6, <1>10, <2>1, <2>3 DEF OwnOK
  <2>5. u.pts = o.pts /\ u.count = o.count
    BY <1>8, <2>2, <2>3 DEF One
  <2>6. Real(log[b], u) /\ Fresh(waiter[b], known[b], u)
    BY <2>4, <2>5, SameUpdate
  <2>7. Inited(waiter[b]) /\ m.pts \in own[b]
    BY <1>6, <1>10, <2>1 DEF RequestOK
  <2>8. Covers(m) = {m.pts}
    BY <1>5, <2>2, OneOf
  <2>9. Covers(m) \subseteq Taken(i, b)
    BY <1>10 DEF Taken
  <2>. QED
    BY <2>6, <2>7, <2>8, <2>9
<1>11. CASE m.kind = "updates" /\ Update(b, u)
  <2>1. m.kind \in OwnKinds
    BY <1>11 DEF OwnKinds
  <2>2. /\ Steps(b, Covers(u))
        /\ Kept(b, IF waiter[b].requesting THEN Covers(u) ELSE {})
    BY <1>5, <1>8, <1>10, <1>11, <2>1, UpdateSteps DEF Safe
  <2>3. Kept(b, Covers(m))
    BY <1>8, <2>2 DEF Kept
  <2>4. Feeds(i, y, b, Covers(m), Covers(m))
    BY <1>1, <1>2, <1>5, <1>8, <1>10, <2>1, <2>2, <2>3 DEF Feeds
  <2>. QED
    BY <1>5, <2>1, <2>4
<1>12. CASE m.kind = "affected" /\ CountsOnly(b, m.pts, m.count, Covers(u))
  <2>1. m.kind \in OwnKinds
    BY <1>12 DEF OwnKinds
  <2>2. CountsOnly(b, u.pts, u.count, Covers(u))
    BY <1>8, <1>12
  <2>3. Steps(b, Covers(u)) /\ Kept(b, Covers(u))
    BY <1>5, <1>8, <1>10, <2>1, <2>2, OwnCountsSteps DEF Safe
  <2>4. Feeds(i, y, b, Covers(m), Covers(m))
    BY <1>1, <1>2, <1>5, <1>8, <1>10, <2>1, <2>3 DEF Feeds
  <2>. QED
    BY <1>5, <2>1, <2>4
<1>13. CASE m.kind = "history" /\ CountsOnly(b, m.pts, 0, {})
  <2>1. r.kind = "history" /\ r.pts = m.pts /\ r.box = b /\ r.pts # 0
    BY <1>9, <1>13, Kinds
  <2>2. b \in Channels /\ m.pts \in log[b]
    BY <1>6, <2>1 DEF RequestOK
  <2>3. PICK p \in log[b] : p = m.pts
    BY <2>2
  <2>4. CountsOnly(b, p, 0, {})
    BY <1>13, <2>3
  <2>5. Steps(b, {})
    BY <1>5, <2>4, HistorySteps DEF Safe
  <2>6. Feeds(i, y, b, {}, {})
    BY <1>1, <1>2, <1>5, <2>2, <2>5, MainIsNoChannel DEF Feeds
  <2>. QED
    BY <1>5, <1>13, <2>2, <2>6
<1>14. CASE m.kind = "updates" /\ b \in Channels /\ UNCHANGED <<waiter, byPts, known, again>>
  <2>1. Steps(b, {}) /\ Kept(b, {})
    BY <1>5, <1>14, Idle DEF Safe
  <2>2. Feeds(i, y, b, {}, {})
    BY <1>1, <1>2, <1>5, <2>1 DEF Feeds
  <2>. QED
    BY <1>5, <1>14, <2>2
<1>15. \/ m.kind = "updates" /\ Update(b, u)
       \/ m.kind = "affected" /\ CountsOnly(b, m.pts, m.count, Covers(u))
       \/ m.kind = "history" /\ CountsOnly(b, m.pts, 0, {})
       \/ m.kind = "updates" /\ b \in Channels /\ UNCHANGED <<waiter, byPts, known, again>>
  BY <1>7 DEF ReceiveAct, FeedSkips
<1>. QED
  BY <1>11, <1>12, <1>13, <1>14, <1>15

\* The answer m with the difference of a box is handled, and those of A are asked for.
Behind(m) == {c \in Channels : waiter[c].good < m.late[c]}
Further(m) == (IF m.box = Main THEN Behind(m) ELSE {}) \cup (IF m.more THEN {m.box} ELSE {})
Restarts(m, A) ==
    LET b == m.box
        fed == (waiter[b].good + 1)..m.pts
    IN /\ b \in Boxes /\ m.pts \in log[b] /\ waiter[b].good <= m.pts
       /\ A = {c \in Further(m) : c = b \/ (~waiter[c].requesting /\ Inited(waiter[c]))}
       /\ waiter' \in [Boxes -> Waiters]
       /\ Started(waiter'[b], m.pts) /\ (waiter'[b].requesting <=> m.more)
       /\ \A c \in Boxes \ {b} :
             waiter'[c] = IF c \in A THEN SetRequesting(waiter[c], TRUE) ELSE waiter[c]
       /\ byPts' = byPts \ Further(m) /\ afterFail' = afterFail \ A
       /\ known' = [known EXCEPT ![b] = @ \cup fed]
       /\ again' = [again EXCEPT ![b] = @ \cup (known[b] \cap fed)]
       /\ UNCHANGED <<minChannel, bounds>>

LEMMA DifferenceRestarts ==
    ASSUME Safe, NEW i \in 1..Len(stream), ReceiveDifference(i), NEW y, y = PlaceOf(stream[i]),
           NEW m, m = stream[i]
    PROVE  \E A \in SUBSET Boxes : Handles(i, y, A) /\ Restarts(m, A) /\ Asked(m.box, pending[y])
<1>1. PICK b, w : b = m.box /\ w = [waiter EXCEPT ![b] = SetRequesting(PtsInit(@, m.pts), FALSE)]
  OBVIOUS
<1>2. PICK S : S = Further(m)
  OBVIOUS
<1>3. PICK A : A = Asks(w, S)
  OBVIOUS
<1>4. PICK t : t = Without(pending, y)
  OBVIOUS
<1>5. /\ AnswerIsNext(i) /\ m.kind = "difference" /\ stream' = Without(stream, i)
      /\ GetDifferences(w, t, S) /\ afterFail' = afterFail \ A
      /\ known' = [known EXCEPT ![b] = @ \cup (waiter[b].good + 1)..m.pts]
      /\ again' = [again EXCEPT ![b] = @ \cup (known[b] \cap (waiter[b].good + 1)..m.pts)]
      /\ UNCHANGED <<minChannel, log, own, bounds>>
  BY <1>1, <1>2, <1>3, <1>4 DEF ReceiveDifference, Further, Behind
<1>6. /\ waiter' = [c \in Boxes |-> IF c \in A THEN SetRequesting(w[c], TRUE) ELSE w[c]]
      /\ byPts' = byPts \ S
      /\ \E s \in Orders(A) : pending' = t \o DifferencesOf(s)
  BY <1>3, <1>5 DEF GetDifferences
<1>7. b \in Boxes /\ m.pts \in Nat /\ m.more \in BOOLEAN /\ S \subseteq Boxes
  <2>1. b \in Boxes /\ m.pts \in Nat /\ m.more \in BOOLEAN
    BY <1>1, MessageIs DEF Safe
  <2>2. Channels \subseteq Boxes
    BY BoxesAreFinite
  <2>. QED
    BY <1>1, <1>2, <2>1, <2>2 DEF Further, Behind
<1>8. m.pts \in log[b] /\ waiter[b].good <= m.pts
  <2>1. AnswerOK(m)
    BY DEF Safe, AnswersOK
  <2>. QED
    BY <1>1, <1>5, <2>1 DEF AnswerOK
<1>9. waiter \in [Boxes -> Waiters] /\ waiter[b] \in Waiters
  BY <1>7 DEF Safe, Types
<1>10. m.pts >= 1
  <2>1. PICK max \in Nat : max = MaxPts(b)
    BY BoundsAreNats DEF MaxPts
  <2>2. LogIs(log[b], max)
    BY <1>7, <2>1 DEF Safe, LogsOK
  <2>. QED
    BY <1>8, <2>1, <2>2, TopIs
<1>11. PICK v \in Waiters : /\ v = SetRequesting(PtsInit(waiter[b], m.pts), FALSE)
                            /\ Started(v, m.pts) /\ ~v.requesting
  <2>1. PICK w0, p, v0 : w0 = waiter[b] /\ p = m.pts /\ v0 = PtsInit(w0, p)
    OBVIOUS
  <2>2. Started(v0, p) /\ v0.requesting = w0.requesting
    BY <1>7, <1>9, <2>1, PtsInitIs
  <2>3. PICK is, v : is \in BOOLEAN /\ is = FALSE /\ v = SetRequesting(v0, is)
    OBVIOUS
  <2>4. v0 \in Waiters /\ v0.good = p /\ v0.last = p /\ v0.count = p /\ v0.queue = {}
    BY <2>2 DEF Started
  <2>5. /\ v \in Waiters /\ v.good = v0.good /\ v.last = v0.last /\ v.count = v0.count
        /\ v.waiting = v0.waiting /\ v.requesting = is
        /\ is => v.queue = {}
        /\ ~is => v.queue = v0.queue
    BY <2>3, <2>4, SetRequestingIs
  <2>6. Started(v, p) /\ ~v.requesting
    BY <2>3, <2>4, <2>5 DEF Started
  <2>. QED
    BY <2>1, <2>3, <2>5, <2>6
<1>12. w[b] = v /\ \A c \in Boxes \ {b} : w[c] = waiter[c]
  BY <1>1, <1>7, <1>9, <1>11
<1>13. Inited(v)
  <2>1. PICK p \in Nat : p = m.pts
    BY <1>7
  <2>2. v.good = p /\ p > 0
    <3>1. p > 0
      BY <1>10, <2>1
    <3>2. v.good = p
      BY <1>11, <2>1 DEF Started
    <3>. QED
      BY <3>1, <3>2
  <2>3. v.good > 0
    BY <2>2
  <2>. QED
    BY <2>3 DEF Inited
<1>14. A = {c \in S : c = b \/ (~waiter[c].requesting /\ Inited(waiter[c]))}
  <2>1. ASSUME NEW c \in S, c # b
        PROVE  c # Main /\ w[c] = waiter[c]
    <3>1. c \in Channels
      BY <1>1, <1>2, <2>1 DEF Further, Behind
    <3>. QED
      BY <1>7, <1>12, <2>1, <3>1, MainIsNoChannel
  <2>2. ASSUME NEW c \in S
        PROVE  (~w[c].requesting /\ (c = Main \/ Inited(w[c])))
                 <=> (c = b \/ (~waiter[c].requesting /\ Inited(waiter[c])))
    <3>1. CASE c = b
      BY <1>11, <1>12, <1>13, <3>1
    <3>2. CASE c # b
      BY <2>1, <3>2
    <3>. QED
      BY <3>1, <3>2
  <2>. QED
    BY <1>3, <2>2 DEF Asks
<1>15. A \subseteq Boxes
  BY <1>7, <1>14
<1>16. /\ y \in 1..Len(pending) /\ AnswerTo(pending[y], m)
       /\ t \in Seq(Requests) /\ Removes(t, pending, y)
       /\ stream' \in Seq(Messages) /\ Removes(stream', stream, i)
       /\ i \in 0..Len(stream) /\ y \in 0..Len(pending) /\ y # 0 /\ i # 0
       /\ IsAnswer(stream[i])
  BY <1>4, <1>5, AnswerHandles
<1>17. Asked(b, pending[y])
  BY <1>1, <1>5, <1>16, PendingIs, Kinds DEF AnswerTo, SameAsk, Asked, Safe
<1>18. Handles(i, y, A)
  <2>1. PICK p, q : p = pending /\ q = pending'
    OBVIOUS
  <2>2. p \in Seq(Requests)
    BY <2>1 DEF Safe, Types
  <2>3. q \in Seq(Requests) /\ From(q, p, y, A)
    BY <1>6, <1>15, <1>16, <2>1, <2>2, AskingFrom
  <2>4. ASSUME NEW k \in 1..Len(pending), NEW c \in A, k # y, Asked(c, pending[k])
        PROVE  FALSE
    <3>1. CASE c = b
      <4>1. SameAsk(pending[k], pending[y])
        BY <1>17, <2>4, <3>1 DEF Asked, SameAsk
      <4>. QED
        BY <1>16, <2>4, <4>1 DEF Safe, RequestsDiffer
    <3>2. CASE c # b
      BY <1>14, <1>15, <2>4, <3>2, NotAsked
    <3>. QED
      BY <3>1, <3>2
  <2>. QED
    BY <1>5, <1>15, <1>16, <2>1, <2>3, <2>4 DEF Handles
<1>19. Restarts(m, A)
  <2>1. PICK u : u = SetRequesting(v, TRUE)
    OBVIOUS
  <2>2. /\ u \in Waiters /\ Started(u, m.pts) /\ u.requesting
    <3>1. PICK is \in BOOLEAN : is = TRUE
      OBVIOUS
    <3>2. u = SetRequesting(v, is)
      BY <2>1, <3>1
    <3>3. /\ u \in Waiters /\ u.good = v.good /\ u.last = v.last /\ u.count = v.count
          /\ u.waiting = v.waiting /\ u.requesting = is
          /\ is => u.queue = {}
          /\ ~is => u.queue = v.queue
      BY <3>2, SetRequestingIs
    <3>. QED
      BY <1>11, <3>1, <3>3 DEF Started
  <2>3. b \in A <=> m.more
    <3>1. b \in S <=> m.more
      BY <1>1, <1>2, MainIsNoChannel DEF Further, Behind
    <3>. QED
      BY <1>14, <3>1
  <2>4. waiter'[b] = IF b \in A THEN u ELSE v
    BY <1>6, <1>7, <1>12, <2>1
  <2>5. Started(waiter'[b], m.pts) /\ (waiter'[b].requesting <=> m.more)
    BY <1>11, <2>2, <2>3, <2>4
  <2>6. ASSUME NEW c \in Boxes
        PROVE  /\ waiter'[c] \in Waiters
               /\ c # b => waiter'[c] = IF c \in A THEN SetRequesting(waiter[c], TRUE) ELSE waiter[c]
    <3>1. CASE c = b
      BY <1>11, <2>2, <2>4, <3>1
    <3>2. CASE c # b
      <4>1. waiter'[c] = IF c \in A THEN SetRequesting(waiter[c], TRUE) ELSE waiter[c]
        BY <1>6, <1>12, <3>2
      <4>2. waiter[c] \in Waiters
        BY <1>9
      <4>3. PICK is, w0, v0 :
              is \in BOOLEAN /\ is = TRUE /\ w0 \in Waiters /\ w0 = waiter[c] /\ v0 = SetRequesting(w0, is)
        BY <4>2
      <4>4. v0 \in Waiters
        BY <4>3, SetRequestingIs
      <4>. QED
        BY <3>2, <4>1, <4>2, <4>3, <4>4
    <3>. QED
      BY <3>1, <3>2
  <2>7. waiter' \in [Boxes -> Waiters]
    <3>1. PICK f : f = waiter'
      OBVIOUS
    <3>2. f = [c \in Boxes |-> IF c \in A THEN SetRequesting(w[c], TRUE) ELSE w[c]]
      BY <1>6, <3>1
    <3>3. \A c \in Boxes : f[c] \in Waiters
      BY <2>6, <3>1
    <3>4. f \in [Boxes -> Waiters]
      BY <3>2, <3>3
    <3>. QED
      BY <3>1, <3>4
  <2>. QED
    BY <1>1, <1>2, <1>5, <1>6, <1>7, <1>8, <1>14, <2>5, <2>6, <2>7 DEF Restarts
<1>. QED
  BY <1>1, <1>15, <1>17, <1>18, <1>19

LEMMA RestartIs ==
    ASSUME Safe, NEW m, NEW A, Restarts(m, A), NEW b, b = m.box
    PROVE  /\ b \in Boxes /\ m.pts \in log[b] /\ waiter[b].good <= m.pts
           /\ waiter' \in [Boxes -> Waiters] /\ Started(waiter'[b], m.pts)
           /\ known'[b] = known[b] \cup (waiter[b].good + 1)..m.pts
           /\ again'[b] = again[b] \cup (known[b] \cap (waiter[b].good + 1)..m.pts)
           /\ known' \in [Boxes -> SUBSET Nat] /\ again' \in [Boxes -> SUBSET Nat]
           /\ m.pts \in Nat /\ waiter[b].good \in Nat
<1>1. b \in Boxes /\ m.pts \in log[b]
  BY DEF Restarts
<1>2. PICK max \in Nat : max = MaxPts(b)
  BY BoundsAreNats DEF MaxPts
<1>3. LogIs(log[b], max)
  BY <1>1, <1>2 DEF Safe, LogsOK
<1>4. m.pts \in Nat
  BY <1>1, <1>2, <1>3, TopIs
<1>5. known \in [Boxes -> SUBSET Nat] /\ again \in [Boxes -> SUBSET Nat] /\ waiter[b].good \in Nat
  BY <1>1 DEF Safe, Types, Waiters
<1>6. PICK fed : fed = (waiter[b].good + 1)..m.pts
  OBVIOUS
<1>7. fed \subseteq Nat
  BY <1>4, <1>5, <1>6
<1>8. /\ known' = [known EXCEPT ![b] = known[b] \cup fed]
      /\ again' = [again EXCEPT ![b] = again[b] \cup (known[b] \cap fed)]
  BY <1>1, <1>5, <1>6 DEF Restarts
<1>9. /\ known'[b] = known[b] \cup fed /\ again'[b] = again[b] \cup (known[b] \cap fed)
      /\ known' \in [Boxes -> SUBSET Nat] /\ again' \in [Boxes -> SUBSET Nat]
  BY <1>1, <1>5, <1>7, <1>8
<1>. QED
  BY <1>4, <1>5, <1>6, <1>9 DEF Restarts

LEMMA RestartElse ==
    ASSUME Safe, NEW m, NEW A, Restarts(m, A), NEW c \in Boxes, c # m.box
    PROVE  /\ waiter'[c] \in Waiters /\ waiter'[c].good = waiter[c].good
           /\ waiter'[c].last = waiter[c].last /\ waiter[c].good \in Nat
           /\ BoxOK(waiter'[c], known[c], log[c])
           /\ c \in A => waiter'[c].queue = {} /\ waiter'[c].requesting
           /\ c \notin A => waiter'[c] = waiter[c]
           /\ known'[c] = known[c] /\ again'[c] = again[c]
<1>1. waiter[c] \in Waiters /\ waiter[c].good \in Nat
  BY DEF Safe, Types, Waiters
<1>2. waiter'[c] = IF c \in A THEN SetRequesting(waiter[c], TRUE) ELSE waiter[c]
  BY DEF Restarts
<1>3. PICK is, w, v :
        is \in BOOLEAN /\ is = TRUE /\ w \in Waiters /\ w = waiter[c] /\ v = SetRequesting(w, is)
  BY <1>1
<1>4. /\ v \in Waiters /\ v.good = w.good /\ v.last = w.last /\ v.count = w.count
      /\ v.waiting = w.waiting /\ v.requesting = is
      /\ is => v.queue = {}
      /\ ~is => v.queue = w.queue
  BY <1>3, SetRequestingIs
<1>5. BoxOK(w, known[c], log[c])
  BY <1>3 DEF Safe, BoxesOK
<1>6. BoxOK(v, known[c], log[c])
  <2>1. BoxOK(SetRequesting(w, TRUE), known[c], log[c])
    BY <1>5, RequestingBox
  <2>. QED
    BY <1>3, <2>1
<1>7. known'[c] = known[c] /\ again'[c] = again[c]
  <2>1. known \in [Boxes -> SUBSET Nat] /\ again \in [Boxes -> SUBSET Nat]
    BY DEF Safe, Types
  <2>. QED
    BY <2>1 DEF Restarts
<1>8. CASE c \in A
  BY <1>1, <1>2, <1>3, <1>4, <1>6, <1>7, <1>8
<1>9. CASE c \notin A
  BY <1>1, <1>2, <1>3, <1>5, <1>7, <1>9
<1>. QED
  BY <1>8, <1>9

LEMMA RestartStep ==
    ASSUME Safe, NEW x, NEW y, NEW m, NEW A, Handles(x, y, A), Restarts(m, A),
           y \in 1..Len(pending), Asked(m.box, pending[y])
    PROVE  Safe'
<1>1. PICK b : b = m.box
  OBVIOUS
<1>2. /\ b \in Boxes /\ m.pts \in log[b] /\ waiter[b].good <= m.pts
      /\ waiter' \in [Boxes -> Waiters] /\ Started(waiter'[b], m.pts)
      /\ known'[b] = known[b] \cup (waiter[b].good + 1)..m.pts
      /\ again'[b] = again[b] \cup (known[b] \cap (waiter[b].good + 1)..m.pts)
      /\ known' \in [Boxes -> SUBSET Nat] /\ again' \in [Boxes -> SUBSET Nat]
      /\ m.pts \in Nat /\ waiter[b].good \in Nat
  BY <1>1, RestartIs
<1>3. waiter'[b].good = m.pts /\ waiter'[b].queue = {}
  BY <1>2 DEF Started
<1>4. /\ byPts' = byPts \ Further(m) /\ afterFail' = afterFail \ A
      /\ A = {c \in Further(m) : c = b \/ (~waiter[c].requesting /\ Inited(waiter[c]))}
      /\ UNCHANGED <<minChannel, bounds>> /\ (b \in A => waiter'[b].requesting)
  <2>1. b \in Further(m) => m.more
    BY <1>1, MainIsNoChannel DEF Further, Behind
  <2>2. A = {c \in Further(m) : c = b \/ (~waiter[c].requesting /\ Inited(waiter[c]))}
        /\ (waiter'[b].requesting <=> m.more)
    BY <1>1 DEF Restarts
  <2>3. b \in A => waiter'[b].requesting
    BY <2>1, <2>2
  <2>. QED
    BY <1>1, <2>2, <2>3 DEF Restarts
<1>5. Types /\ log' = log /\ own' = own
  BY DEF Safe, Handles
<1>6. Types'
  BY <1>2, <1>4, <1>5 DEF Types, Handles, bounds
<1>7. ASSUME NEW c \in Boxes, c # b
      PROVE  /\ waiter'[c].good = waiter[c].good /\ waiter[c].good \in Nat
             /\ BoxOK(waiter'[c], known[c], log[c])
             /\ c \in A => waiter'[c].queue = {} /\ waiter'[c].requesting
             /\ c \notin A => waiter'[c] = waiter[c]
             /\ known'[c] = known[c] /\ again'[c] = again[c]
  BY <1>1, <1>7, RestartElse
<1>8. BoxesOK'
  <2>1. ASSUME NEW c \in Boxes
        PROVE  BoxOK(waiter'[c], known'[c], log[c]) /\ again'[c] \subseteq known'[c]
    <3>0. again[c] \subseteq known[c]
      BY DEF Safe, BoxesOK
    <3>1. CASE c # b
      BY <1>7, <3>0, <3>1
    <3>2. CASE c = b
      <4>L. PICK L : L = log[b]
        OBVIOUS
      <4>1. PICK max \in Nat : max = MaxPts(b) /\ L = log[b]
        BY <4>L, BoundsAreNats DEF MaxPts
      <4>2. LogIs(L, max) /\ BoxOK(waiter[b], known[b], L)
        BY <1>2, <4>1 DEF Safe, LogsOK, BoxesOK
      <4>b. PICK w, k, v, k2 : w = waiter[b] /\ k = known[b] /\ v = waiter'[b] /\ k2 = known'[b]
        OBVIOUS
      <4>3. PICK p \in L : /\ p = m.pts /\ w = waiter[b] /\ k = known[b]
                           /\ v = waiter'[b] /\ k2 = known'[b]
        BY <1>2, <4>1, <4>b
      <4>4. BoxOK(w, k, L) /\ w.good <= p /\ Started(v, p) /\ k2 = k \cup (w.good + 1)..p
        BY <1>2, <4>2, <4>3
      <4>5. BoxOK(v, k2, L)
        BY <4>1, <4>2, <4>4, StartedBox, Z3
      <4>6. again'[b] \subseteq known'[b]
        BY <1>2, <3>0, <3>2
      <4>. QED
        BY <3>2, <4>1, <4>3, <4>5, <4>6
    <3>. QED
      BY <3>1, <3>2
  <2>. QED
    BY <1>5, <2>1 DEF BoxesOK
<1>9. TimersOK'
  <2>1. SUFFICES ASSUME NEW c \in Boxes, waiter'[c].queue # {}
                 PROVE  c \in byPts'
    BY DEF TimersOK
  <2>2. c # b /\ c \notin A /\ waiter[c].queue # {}
    BY <1>3, <1>7, <2>1
  <2>3. c \in byPts
    BY <2>2 DEF Safe, TimersOK
  <2>4. c \notin Further(m)
    <3>1. BoxOK(waiter[c], known[c], log[c])
      BY DEF Safe, BoxesOK
    <3>2. ~waiter[c].requesting /\ waiter[c].good # 0
      BY <2>2, <3>1 DEF BoxOK
    <3>3. Inited(waiter[c])
      BY <1>7, <2>2, <3>2 DEF Inited
    <3>. QED
      BY <1>4, <2>2, <3>2, <3>3
  <2>. QED
    BY <1>4, <2>3, <2>4
<1>10. MainOK'
  <2>1. MainOK /\ Main \in Boxes
    BY BoxesAreFinite DEF Safe
  <2>2. CASE b # Main
    BY <1>5, <1>7, <2>1, <2>2 DEF MainOK, AppliedOnce
  <2>3. CASE b = Main
    <3>1. known'[Main] \ (1..waiter'[Main].good) \subseteq known[Main] \ (1..waiter[Main].good)
      <4>1. 1..waiter[Main].good \cup (waiter[Main].good + 1)..m.pts = 1..m.pts
        BY <1>2, <2>3
      <4>. QED
        BY <1>2, <1>3, <2>3, <4>1
    <3>2. known[Main] \cap (waiter[Main].good + 1)..m.pts \subseteq known[Main] \ (1..waiter[Main].good)
      BY <1>2, <2>3
    <3>. QED
      BY <1>2, <1>5, <2>1, <2>3, <3>1, <3>2 DEF MainOK, AppliedOnce
  <2>. QED
    BY <2>2, <2>3
<1>11. ASSUME NEW k \in 1..Len(pending), k # y, pending[k].kind = "difference"
       PROVE  /\ waiter'[pending[k].box].requesting
              /\ waiter'[pending[k].box].good = waiter[pending[k].box].good
  <2>1. PICK r : r = pending[k]
    OBVIOUS
  <2>2. r.box \in Boxes /\ RequestOK(r)
    BY <1>5, <2>1, PendingIs DEF Safe, RequestsOK
  <2>3. waiter[r.box].requesting
    BY <1>11, <2>1, <2>2 DEF RequestOK
  <2>4. r.box # b
    <3>1. ASSUME r.box = b PROVE FALSE
      <4>1. SameAsk(pending[k], pending[y])
        BY <1>1, <1>11, <2>1, <3>1 DEF Asked, SameAsk
      <4>. QED
        BY <1>11, <4>1 DEF Safe, RequestsDiffer
    <3>. QED
      BY <3>1
  <2>5. r.box \in A \/ r.box \notin A
    OBVIOUS
  <2>. QED
    BY <1>7, <2>1, <2>2, <2>3, <2>4, <2>5
<1>12. ASSUME Main \in afterFail'
       PROVE  Main \notin A /\ \A k \in 1..Len(pending) : k # y => ~Asked(Main, pending[k])
  BY <1>4, <1>12, FailedNotAsked
<1>13. ASSUME NEW c \in Boxes
       PROVE  waiter[c].good <= waiter'[c].good /\ known[c] \subseteq known'[c]
  <2>1. CASE c = b
    BY <1>2, <1>3, <2>1
  <2>2. CASE c # b
    <3>1. PICK n \in Nat : n = waiter[c].good /\ n = waiter'[c].good
      BY <1>7, <2>2
    <3>2. n <= n
      OBVIOUS
    <3>3. known'[c] = known[c]
      BY <1>7, <2>2
    <3>. QED
      BY <3>1, <3>2, <3>3
  <2>. QED
    BY <2>1, <2>2
<1>14. Moves(y, A)
  <2>1. \A c \in A : waiter'[c].requesting
    <3>1. A \subseteq Boxes
      BY DEF Handles
    <3>. QED
      BY <1>4, <1>7, <3>1
  <2>. QED
    BY <1>11, <1>12, <1>13, <2>1 DEF Moves
<1>15. ASSUME NEW c \in Boxes
       PROVE  \E p \in log[c] \cup {0} :
                /\ p <= waiter'[c].good
                /\ known'[c] \cup Content(waiter'[c].queue)
                     \subseteq known[c] \cup Content(waiter[c].queue) \cup Taken(x, c) \cup 1..p
  <2>1. CASE c = b
    <3>1. known'[b] \cup Content(waiter'[b].queue)
             \subseteq known[b] \cup Content(waiter[b].queue) \cup Taken(x, b) \cup 1..m.pts
      <4>1. (waiter[b].good + 1)..m.pts \subseteq 1..m.pts
        BY <1>2
      <4>. QED
        BY <1>2, <1>3, <4>1, ContentIs
    <3>2. m.pts \in log[b] \cup {0} /\ m.pts <= waiter'[b].good
      BY <1>2, <1>3
    <3>. QED
      BY <2>1, <3>1, <3>2
  <2>2. CASE c # b
    <3>1. Content(waiter'[c].queue) \subseteq Content(waiter[c].queue)
      <4>1. waiter'[c].queue = {} \/ waiter'[c].queue = waiter[c].queue
        BY <1>7, <2>2
      <4>. QED
        BY <4>1, ContentIs
    <3>2. 0 \in log[c] \cup {0} /\ 0 <= waiter'[c].good
      <4>1. waiter'[c].good \in Nat
        BY <1>7, <2>2
      <4>. QED
        BY <4>1
    <3>3. known'[c] \cup Content(waiter'[c].queue)
            \subseteq known[c] \cup Content(waiter[c].queue) \cup Taken(x, c) \cup 1..0
      BY <1>7, <2>2, <3>1
    <3>. QED
      BY <3>2, <3>3
  <2>. QED
    BY <2>1, <2>2
<1>16. Goes(x)
  BY <1>15 DEF Goes
<1>. QED
  BY <1>6, <1>8, <1>9, <1>10, <1>14, <1>16, HandledSafe

-----------------------------------------------------------------------------
(***************************************************************************)
(* The user, the server and the connection.                                *)
(***************************************************************************)
\* The log of the box b has the update p, that may be new.
Grows(b, p) ==
    /\ log' = [log EXCEPT ![b] = @ \cup {p}]
    /\ p \in log[b] \/ (p > Top(log[b]) /\ p <= MaxPts(b))

LEMMA GrowsIs ==
    ASSUME Safe, NEW b \in Boxes, NEW p \in Nat, Grows(b, p), NEW c \in Boxes
    PROVE  /\ log' \in [Boxes -> SUBSET Nat] /\ log[c] \subseteq log'[c]
           /\ LogIs(log'[c], MaxPts(c)) /\ Top(log[c]) <= Top(log'[c])
           /\ \A u : Real(log[c], u) => Real(log'[c], u)
           /\ log'[b] = log[b] \cup {p} /\ (c # b => log'[c] = log[c])
<1>1. log \in [Boxes -> SUBSET Nat] /\ \A d \in Boxes : LogIs(log[d], MaxPts(d))
  BY DEF Safe, Types, LogsOK
<1>2. /\ log' \in [Boxes -> SUBSET Nat] /\ log'[b] = log[b] \cup {p}
      /\ c # b => log'[c] = log[c]
  BY <1>1 DEF Grows
<1>L. PICK L : L = log[c]
  OBVIOUS
<1>3. PICK max \in Nat : max = MaxPts(c) /\ L = log[c]
  BY <1>L, BoundsAreNats DEF MaxPts
<1>4. LogIs(L, max)
  BY <1>1, <1>3
<1>5. Top(L) \in Nat
  BY <1>4, TopIs
<1>6. CASE log'[c] = log[c]
  BY <1>2, <1>3, <1>4, <1>5, <1>6
<1>7. CASE c = b /\ p \in log[b]
  <2>1. log'[c] = log[c]
    BY <1>2, <1>7
  <2>. QED
    BY <1>6, <2>1
<1>8. CASE c = b /\ p > Top(L) /\ p <= max
  <2>1. LogIs(L \cup {p}, max) /\ Top(L \cup {p}) = p
    BY <1>4, <1>8, TopGrows
  <2>2. ASSUME NEW u, Real(L, u) PROVE Real(L \cup {p}, u)
    BY <1>4, <1>8, <2>2, RealStays
  <2>3. log'[c] = L \cup {p}
    BY <1>2, <1>3, <1>8
  <2>4. Top(L) <= p
    BY <1>5, <1>8
  <2>. QED
    BY <1>2, <1>3, <2>1, <2>2, <2>3, <2>4
<1>. QED
  BY <1>2, <1>3, <1>6, <1>7, <1>8 DEF Grows

LEMMA GrownBoxes ==
    ASSUME Safe, NEW b \in Boxes, NEW p \in Nat, Grows(b, p), UNCHANGED <<client, known, again>>
    PROVE  BoxesOK' /\ TimersOK'
<1>1. waiter' = waiter /\ byPts' = byPts /\ known' = known /\ again' = again
  BY DEF client
<1>2. ASSUME NEW c \in Boxes
      PROVE  BoxOK(waiter[c], known[c], log'[c]) /\ again[c] \subseteq known[c]
  <2>1. /\ LogIs(log[c], MaxPts(c)) /\ BoxOK(waiter[c], known[c], log[c])
        /\ again[c] \subseteq known[c]
    BY DEF Safe, LogsOK, BoxesOK
  <2>2. /\ LogIs(log'[c], MaxPts(c)) /\ Top(log[c]) <= Top(log'[c])
        /\ \A u : Real(log[c], u) => Real(log'[c], u)
    BY GrowsIs
  <2>3. PICK max \in Nat : max = MaxPts(c)
    BY BoundsAreNats DEF MaxPts
  <2>4. Top(log[c]) \in Nat /\ Top(log'[c]) \in Nat
    BY <2>1, <2>2, <2>3, TopIs
  <2>5. waiter[c].last \in Nat /\ 1..Top(log[c]) \subseteq 1..Top(log'[c])
    BY <2>2, <2>4 DEF Safe, Types, Waiters
  <2>6. waiter[c].last <= Top(log'[c])
    BY <2>1, <2>2, <2>4, <2>5 DEF BoxOK
  <2>7. known[c] \subseteq 1..Top(log'[c])
    BY <2>1, <2>5 DEF BoxOK
  <2>8. \A u \in waiter[c].queue : Real(log'[c], u) /\ u.pts <= waiter[c].last
    BY <2>1, <2>2 DEF BoxOK
  <2>. QED
    BY <2>1, <2>6, <2>7, <2>8 DEF BoxOK
<1>3. BoxesOK'
  BY <1>1, <1>2 DEF BoxesOK
<1>. QED
  BY <1>1, <1>3 DEF Safe, TimersOK

\* The message m comes into the stream at K.
Adds(K, m) ==
    /\ stream' \in Seq(Messages) /\ K \in 1..Len(stream') /\ stream'[K] = m
    /\ Removes(stream, stream', K)

LEMMA AddsIs ==
    ASSUME Safe, NEW K, NEW m, Adds(K, m), NEW s, s = stream'
    PROVE  /\ \A j \in 1..Len(s) :
                j # K => \E k \in 1..Len(stream) : At(K, k) = j /\ s[j] = stream[k]
           /\ \A k \in 1..Len(stream) : At(K, k) \in 1..Len(s) /\ At(K, k) # K /\ s[At(K, k)] = stream[k]
           /\ s[K] = m /\ K \in 1..Len(s)
<1>1. s \in Seq(Messages) /\ stream \in Seq(Messages) /\ Removes(stream, s, K)
  BY DEF Adds, Safe, Types
<1>2. PICK t : t = stream
  OBVIOUS
<1>3. /\ \A k \in 1..Len(t) : At(K, k) \in 1..Len(s) /\ At(K, k) # K /\ t[k] = s[At(K, k)]
      /\ \A i \in 1..Len(s) : i # K => \E k \in 1..Len(t) : At(K, k) = i
  BY <1>1, <1>2, RemovesIs
<1>. QED
  BY <1>2, <1>3 DEF Adds

LEMMA AppendAdds ==
    ASSUME Safe, NEW m \in Messages, stream' = Append(stream, m)
    PROVE  Adds(Len(stream) + 1, m)
<1>1. PICK s, t, n : s = stream /\ t = stream' /\ n = Len(s)
  OBVIOUS
<1>2. s \in Seq(Messages) /\ n \in Nat
  BY <1>1 DEF Safe, Types
<1>3. t \in Seq(Messages) /\ Len(t) = n + 1 /\ t[n + 1] = m /\ \A k \in 1..n : t[k] = s[k]
  BY <1>1, <1>2
<1>4. Removes(s, t, n + 1)
  BY <1>1, <1>2, <1>3 DEF Removes
<1>. QED
  BY <1>1, <1>2, <1>3, <1>4 DEF Adds

LEMMA ServerPtsIs ==
    ASSUME Safe, NEW b \in Boxes
    PROVE  /\ ServerPts(b) = Top(log[b]) /\ ServerPts(b) \in log[b] /\ ServerPts(b) \in Nat \ {0}
           /\ \A q \in log[b] : q \in Nat /\ q >= 1 /\ q <= ServerPts(b)
           /\ MaxPts(b) \in Nat
<1>1. PICK max \in Nat : max = MaxPts(b)
  BY BoundsAreNats DEF MaxPts
<1>2. LogIs(log[b], max)
  BY <1>1 DEF Safe, LogsOK
<1>. QED
  BY <1>1, <1>2, TopIs DEF ServerPts, Top

\* An update of somebody else is made, and pushed.
LEMMA ProducedStep ==
    ASSUME Safe, Types', NEW b \in Boxes, NEW n \in Nat \ {0}, NEW p \in Nat,
           p = ServerPts(b) + n, p <= MaxPts(b), log' = [log EXCEPT ![b] = @ \cup {p}],
           NEW m, m = Message("push", b, p, n), NEW K, Adds(K, m),
           UNCHANGED <<client, pending, history>>
    PROVE  Safe'
<1>1. /\ ServerPts(b) = Top(log[b]) /\ ServerPts(b) \in Nat \ {0}
      /\ \A q \in log[b] : q \in Nat /\ q >= 1 /\ q <= ServerPts(b)
  BY ServerPtsIs
<1>2. p > Top(log[b]) /\ p \notin log[b]
  BY <1>1
<1>3. Grows(b, p)
  BY <1>2 DEF Grows
<1>4. waiter' = waiter /\ known' = known /\ again' = again /\ own' = own /\ pending' = pending
      /\ afterFail' = afterFail
  BY DEF client, history
<1>5. BoxesOK' /\ TimersOK'
  BY <1>3, GrownBoxes DEF history
<1>6. ASSUME NEW c \in Boxes
      PROVE  /\ log[c] \subseteq log'[c] /\ LogIs(log'[c], MaxPts(c))
             /\ \A u : Real(log[c], u) => Real(log'[c], u)
             /\ log'[b] = log[b] \cup {p} /\ (c # b => log'[c] = log[c])
  BY <1>3, GrowsIs
<1>7. LogsOK'
  BY <1>4, <1>6 DEF Safe, LogsOK
<1>8. m.kind = "push" /\ m.box = b /\ m.pts = p /\ m.count = n
  BY DEF Message
<1>9. PICK s : s = stream'
  OBVIOUS
<1>10. /\ \A j \in 1..Len(s) :
            j # K => \E k \in 1..Len(stream) : At(K, k) = j /\ s[j] = stream[k]
       /\ s[K] = m /\ K \in 1..Len(s)
  BY <1>9, AddsIs
<1>11. Types
  BY DEF Safe
<1>12. ASSUME NEW r, RequestOK(r), r.box \in Boxes
       PROVE  RequestOK(r)'
  BY <1>4, <1>6, <1>12 DEF RequestOK
<1>13. RequestsDiffer' /\ RequestsOK'
  <2>1. ASSUME NEW i \in 1..Len(pending), NEW r, r = pending[i]
        PROVE  RequestOK(r)'
    <3>1. RequestOK(r) /\ r.box \in Boxes
      BY <1>11, <2>1, PendingIs DEF Safe, RequestsOK
    <3>. QED
      BY <1>12, <3>1
  <2>. QED
    BY <1>4, <2>1 DEF Safe, RequestsDiffer, RequestsOK
<1>14. ~IsAnswer(m)
  BY <1>8 DEF IsAnswer
<1>15. AnswersDiffer'
  <2>1. \A i, j \in 1..Len(s) :
          i # j /\ IsAnswer(s[i]) /\ IsAnswer(s[j]) => ~SameAsk(s[i], s[j])
    <3>1. SUFFICES ASSUME NEW i \in 1..Len(s), NEW j \in 1..Len(s), i # j, IsAnswer(s[i]),
                          IsAnswer(s[j])
                   PROVE  ~SameAsk(s[i], s[j])
      OBVIOUS
    <3>2. i # K /\ j # K
      BY <1>10, <1>14, <3>1
    <3>3. PICK k \in 1..Len(stream) : At(K, k) = i /\ s[i] = stream[k]
      BY <1>10, <3>2
    <3>4. PICK l \in 1..Len(stream) : At(K, l) = j /\ s[j] = stream[l]
      BY <1>10, <3>2
    <3>5. k # l
      BY <3>1, <3>3, <3>4
    <3>. QED
      BY <3>1, <3>3, <3>4, <3>5 DEF Safe, AnswersDiffer
  <2>. QED
    BY <1>9, <2>1 DEF AnswersDiffer
<1>16. ASSUME NEW j \in 1..Len(s), NEW a, a = s[j]
       PROVE  AnswerOK(a)'
  <2>1. CASE j = K
    <3>1. a = m /\ m.kind \notin OwnKinds /\ m.kind # "difference"
      BY <1>8, <1>10, <1>16, <2>1, Kinds
    <3>. QED
      BY <1>14, <3>1 DEF AnswerOK, IsAnswer
  <2>2. CASE j # K
    <3>1. PICK k \in 1..Len(stream) : a = stream[k]
      BY <1>10, <1>16, <2>2
    <3>2. AnswerOK(a) /\ a.box \in Boxes
      BY <1>11, <3>1, MessageIs DEF Safe, AnswersOK
    <3>. QED
      BY <1>4, <1>6, <3>2 DEF AnswerOK, IsAnswer, AnswerTo, SameAsk
  <2>. QED
    BY <2>1, <2>2
<1>17. AnswersOK'
  BY <1>9, <1>16 DEF AnswersOK
<1>18. ASSUME NEW k \in 1..Len(stream), stream[k].kind = "push"
       PROVE  stream[k].box = b => stream[k].pts \in log[b]
  BY <1>18 DEF Safe, PushesOK, PushOK, Real
<1>19. PushesDiffer'
  <2>1. \A i, j \in 1..Len(s) :
          i # j /\ s[i].kind = "push" /\ s[j].kind = "push" /\ s[i].box = s[j].box
              => s[i].pts # s[j].pts
    <3>1. SUFFICES ASSUME NEW i \in 1..Len(s), NEW j \in 1..Len(s), i # j, s[i].kind = "push",
                          s[j].kind = "push", s[i].box = s[j].box, s[i].pts = s[j].pts
                   PROVE  FALSE
      OBVIOUS
    <3>2. CASE i # K /\ j # K
      <4>3. PICK k \in 1..Len(stream) : At(K, k) = i /\ s[i] = stream[k]
        BY <1>10, <3>2
      <4>4. PICK l \in 1..Len(stream) : At(K, l) = j /\ s[j] = stream[l]
        BY <1>10, <3>2
      <4>5. k # l
        BY <3>1, <4>3, <4>4
      <4>. QED
        BY <3>1, <4>3, <4>4, <4>5 DEF Safe, PushesDiffer
    <3>3. CASE i = K /\ j # K
      <4>1. PICK l \in 1..Len(stream) : s[j] = stream[l]
        BY <1>10, <3>3
      <4>. QED
        BY <1>2, <1>8, <1>10, <1>18, <3>1, <3>3, <4>1
    <3>4. CASE j = K /\ i # K
      <4>1. PICK l \in 1..Len(stream) : s[i] = stream[l]
        BY <1>10, <3>4
      <4>. QED
        BY <1>2, <1>8, <1>10, <1>18, <3>1, <3>4, <4>1
    <3>. QED
      BY <3>1, <3>2, <3>3, <3>4
  <2>. QED
    BY <1>9, <2>1 DEF PushesDiffer
<1>20. ASSUME NEW j \in 1..Len(s), NEW a, a = s[j]
       PROVE  PushOK(a)'
  <2>1. CASE j = K
    <3>1. a = m
      BY <1>10, <1>16, <1>20, <2>1
    <3>L. PICK L : L = log[b]
      OBVIOUS
    <3>2. PICK max \in Nat : max = MaxPts(b) /\ L = log[b]
      BY <3>L, BoundsAreNats DEF MaxPts
    <3>3. LogIs(L, max) /\ m.pts = Top(L) + n /\ m.count = n
      BY <1>1, <1>8, <3>2 DEF Safe, LogsOK
    <3>4. /\ Real(L \cup {m.pts}, m)
          /\ Covers(m) = (Top(L) + 1)..(Top(L) + n)
      <4>1. Top(L) \in Nat \ {0} /\ \A q \in L : q \in Nat /\ q <= Top(L)
        BY <3>2, <3>3, TopIs
      <4>2. PICK T \in Nat \ {0} : T = Top(L)
        BY <4>1
      <4>3. p = T + n /\ n \in 1..(p - 1) /\ p - n = T /\ p - n + 1 = T + 1
        BY <1>1, <3>2, <4>2
      <4>4. \A q \in L \cup {p} : q < p => q <= p - n
        BY <4>1, <4>2, <4>3
      <4>5. Real(L \cup {p}, m)
        BY <1>8, <4>3, <4>4 DEF Real
      <4>6. Covers(m) = (T + 1)..(T + n)
        BY <1>8, <4>3 DEF Covers
      <4>. QED
        BY <1>8, <4>2, <4>5, <4>6
    <3>5. Real(log'[b], m)
      BY <1>6, <1>8, <3>2, <3>4
    <3>6. m.pts \notin own[b]
      BY <1>2, <1>8 DEF Safe, LogsOK
    <3>7. Covers(m) \cap (known[b] \cup Content(waiter[b].queue)) = {}
      <4>1. BoxOK(waiter[b], known[b], L)
        BY <3>2 DEF Safe, BoxesOK
      <4>2. PICK w, k : w = waiter[b] /\ k = known[b]
        OBVIOUS
      <4>3. w.last \in Nat /\ w.last <= Top(L) /\ Top(L) \in Nat /\ Content(w.queue) \subseteq 1..w.last
        BY <3>2, <3>3, <4>1, <4>2, QueueIs
      <4>4. k \subseteq 1..Top(L)
        BY <4>1, <4>2 DEF BoxOK
      <4>5. k \cup Content(w.queue) \subseteq 1..Top(L)
        <5>1. PICK l \in Nat, T \in Nat : l = w.last /\ T = Top(L) /\ l <= T
          BY <4>3
        <5>2. 1..l \subseteq 1..T
          BY <5>1
        <5>. QED
          BY <4>3, <4>4, <5>1, <5>2
      <4>6. (Top(L) + 1)..(Top(L) + n) \cap 1..Top(L) = {}
        BY <4>3
      <4>. QED
        BY <3>4, <4>2, <4>5, <4>6
    <3>. QED
      BY <1>4, <1>8, <3>1, <3>5, <3>6, <3>7 DEF PushOK, Fresh
  <2>2. CASE j # K
    <3>1. PICK k \in 1..Len(stream) : a = stream[k]
      BY <1>10, <1>20, <2>2
    <3>2. PushOK(a) /\ a.box \in Boxes
      BY <1>11, <3>1, MessageIs DEF Safe, PushesOK
    <3>. QED
      BY <1>4, <1>6, <3>2 DEF PushOK
  <2>. QED
    BY <2>1, <2>2
<1>21. PushesOK'
  BY <1>9, <1>20 DEF PushesOK
<1>22. OwnsOK'
  <2>1. ASSUME NEW i \in 1..Len(pending), NEW r, r = pending[i]
        PROVE  OwnOK(r)'
    <3>1. OwnOK(r) /\ r.box \in Boxes
      BY <1>11, <2>1, PendingIs DEF Safe, OwnsOK
    <3>. QED
      BY <1>4, <1>6, <3>1 DEF OwnOK
  <2>. QED
    BY <1>4, <2>1 DEF OwnsOK
<1>23. MainOK'
  BY <1>4 DEF Safe, MainOK, AppliedOnce
<1>. QED
  BY <1>5, <1>7, <1>13, <1>15, <1>17, <1>19, <1>21, <1>22, <1>23 DEF Safe

LEMMA ProduceStep ==
    ASSUME Safe, NEW b \in Boxes, NEW n \in 1..MaxCount, Produce(b, n)
    PROVE  Safe'
<1>1. PICK p, m : p = ServerPts(b) + n /\ m = Message("push", b, p, n)
  OBVIOUS
<1>2. n \in Nat \ {0}
  BY BoundsAreNats
<1>3. p \in Nat /\ p <= MaxPts(b)
  BY <1>1, <1>2, ServerPtsIs DEF Produce
<1>4. m \in Messages
  <2>1. n \in Nat
    BY <1>2
  <2>. QED
    BY <1>1, <1>3, <2>1 DEF Message, Messages, NoLate
<1>5. /\ log' = [log EXCEPT ![b] = @ \cup {p}] /\ stream' = Append(stream, m)
      /\ UNCHANGED <<client, pending, history, bounds>>
  BY <1>1 DEF Produce
<1>6. PICK K : K = Len(stream) + 1
  OBVIOUS
<1>7. Adds(K, m)
  BY <1>4, <1>5, <1>6, AppendAdds
<1>8. Types'
  <2>1. log' \in [Boxes -> SUBSET Nat]
    BY <1>3, <1>5 DEF Safe, Types
  <2>2. stream' \in Seq(Messages)
    BY <1>7 DEF Adds
  <2>. QED
    BY <1>5, <2>1, <2>2 DEF Safe, Types, client, history, bounds
<1>. QED
  BY <1>1, <1>2, <1>3, <1>5, <1>7, <1>8, ProducedStep, Zenon

\* The new update is put before the last one of the stream.
LEMMA AheadAdds ==
    ASSUME Safe, stream # <<>>, NEW a \in Messages,
           stream' = SubSeq(stream, 1, Len(stream) - 1) \o <<a, stream[Len(stream)]>>
    PROVE  Adds(Len(stream), a)
<1>1. PICK s, t, n : s = stream /\ t = stream' /\ n = Len(s)
  OBVIOUS
<1>2. s \in Seq(Messages) /\ n \in Nat \ {0}
  BY <1>1 DEF Safe, Types
<1>3. PICK r : r = SubSeq(s, 1, n - 1)
  OBVIOUS
<1>4. r \in Seq(Messages) /\ Len(r) = n - 1 /\ \A k \in 1..(n - 1) : r[k] = s[k]
  BY <1>1, <1>2, <1>3
<1>5. s[n] \in Messages
  BY <1>1, <1>2
<1>6. PICK d : d = <<a, s[n]>>
  OBVIOUS
<1>7. d \in Seq(Messages) /\ Len(d) = 2 /\ d[1] = a /\ d[2] = s[n]
  BY <1>5, <1>6
<1>8. t = r \o d
  BY <1>1, <1>3, <1>6
<1>9. t \in Seq(Messages) /\ Len(t) = n + 1
  <2>1. r \o d \in Seq(Messages)
    BY <1>4, <1>7
  <2>0. r \in Seq(Messages) /\ d \in Seq(Messages)
    BY <1>4, <1>7
  <2>2. Len(r \o d) = Len(r) + Len(d)
    BY <2>0
  <2>. QED
    BY <1>2, <1>4, <1>7, <1>8, <2>1, <2>2
<1>10. /\ \A k \in 1..Len(r) : t[k] = r[k]
       /\ \A k \in 1..Len(d) : t[Len(r) + k] = d[k]
  <2>1. r \in Seq(Messages) /\ d \in Seq(Messages)
    BY <1>4, <1>7
  <2>2. \A k \in 1..Len(r) : (r \o d)[k] = r[k]
    BY <2>1
  <2>3. \A k \in 1..Len(d) : (r \o d)[Len(r) + k] = d[k]
    BY <2>1
  <2>. QED
    BY <1>8, <2>2, <2>3
<1>11. t[n] = a /\ t[n + 1] = s[n] /\ \A k \in 1..(n - 1) : t[k] = s[k]
  <2>1. Len(r) + 1 = n /\ Len(r) + 2 = n + 1 /\ 1 \in 1..Len(d) /\ 2 \in 1..Len(d)
    BY <1>2, <1>4, <1>7
  <2>2. t[n] = a /\ t[n + 1] = s[n]
    BY <1>7, <1>10, <2>1
  <2>. QED
    BY <1>4, <1>10, <2>2
<1>12. \A k \in 1..n : s[k] = t[IF k < n THEN k ELSE k + 1]
  BY <1>2, <1>11
<1>13. Removes(s, t, n)
  <2>1. n \in 1..Len(t) /\ Len(s) = Len(t) - 1
    BY <1>1, <1>2, <1>9
  <2>2. \A k \in 1..Len(s) : s[k] = t[IF k < n THEN k ELSE k + 1]
    BY <1>1, <1>12
  <2>. QED
    BY <2>1, <2>2 DEF Removes
<1>14. n \in 1..Len(t)
  BY <1>2, <1>9
<1>. QED
  BY <1>1, <1>9, <1>11, <1>13, <1>14 DEF Adds

LEMMA ProduceAheadStep ==
    ASSUME Safe, NEW b \in Boxes, NEW n \in 1..MaxCount, ProduceAhead(b, n)
    PROVE  Safe'
<1>1. PICK p, m : p = ServerPts(b) + n /\ m = Message("push", b, p, n)
  OBVIOUS
<1>2. n \in Nat \ {0}
  BY BoundsAreNats
<1>3. p \in Nat /\ p <= MaxPts(b)
  BY <1>1, <1>2, ServerPtsIs DEF ProduceAhead
<1>4. m \in Messages
  <2>1. n \in Nat
    BY <1>2
  <2>. QED
    BY <1>1, <1>3, <2>1 DEF Message, Messages, NoLate
<1>5. /\ log' = [log EXCEPT ![b] = @ \cup {p}] /\ stream # <<>>
      /\ stream' = SubSeq(stream, 1, Len(stream) - 1) \o <<m, stream[Len(stream)]>>
      /\ UNCHANGED <<client, pending, history, acts, losses, fails>>
      /\ swaps < MaxSwaps /\ swaps' = swaps + 1
  BY <1>1 DEF ProduceAhead
<1>6. PICK K : K = Len(stream)
  OBVIOUS
<1>7. Adds(K, m)
  BY <1>4, <1>5, <1>6, AheadAdds
<1>8. Types'
  <2>1. log' \in [Boxes -> SUBSET Nat]
    BY <1>3, <1>5 DEF Safe, Types
  <2>2. stream' \in Seq(Messages)
    BY <1>7 DEF Adds
  <2>3. swaps' \in 0..MaxSwaps
    BY <1>5, BoundsAreNats DEF Safe, Types
  <2>. QED
    BY <1>5, <2>1, <2>2, <2>3 DEF Safe, Types, client, history
<1>. QED
  BY <1>1, <1>2, <1>3, <1>5, <1>7, <1>8, ProducedStep, Zenon

\* The user asks for something.
LEMMA ActStep ==
    ASSUME Safe, NEW b \in Boxes, NEW kind \in Acts, Act(kind, b)
    PROVE  Safe'
<1>1. PICK r : r = Request(kind, b)
  OBVIOUS
<1>2. /\ r.kind = kind /\ r.box = b /\ r.pts = 0 /\ r.answered = FALSE /\ r \in Requests
  BY <1>1 DEF Request, Requests
<1>3. /\ acts < MaxActs /\ Inited(waiter[Main])
      /\ IF kind = "history" THEN b \in Channels ELSE Inited(waiter[b])
      /\ \A i \in 1..Len(pending) : pending[i].kind \in Acts => pending[i].box # b
      /\ pending' = Append(pending, r) /\ acts' = acts + 1
      /\ UNCHANGED <<client, stream, log, history, swaps, losses, fails>>
  BY <1>1 DEF Act
<1>4. PICK p, q, n : p = pending /\ q = pending' /\ n = Len(p)
  OBVIOUS
<1>5. p \in Seq(Requests) /\ n \in Nat
  BY <1>4 DEF Safe, Types
<1>6. q \in Seq(Requests) /\ Len(q) = n + 1 /\ q[n + 1] = r /\ \A k \in 1..n : q[k] = p[k]
  BY <1>2, <1>3, <1>4, <1>5
<1>7. Types'
  <2>1. acts' \in 0..MaxActs
    BY <1>3, BoundsAreNats DEF Safe, Types
  <2>. QED
    BY <1>3, <1>4, <1>6, <2>1 DEF Safe, Types, client, history
<1>8. /\ waiter' = waiter /\ byPts' = byPts /\ afterFail' = afterFail /\ known' = known
      /\ again' = again /\ own' = own /\ log' = log /\ stream' = stream
  BY <1>3 DEF client, history
<1>9. \A i \in 1..(n + 1) : i = n + 1 \/ i \in 1..n
  BY <1>5
<1>10. RequestsDiffer'
  <2>1. ASSUME NEW i \in 1..n, SameAsk(p[i], r) PROVE FALSE
    BY <1>2, <1>3, <1>4, <2>1 DEF SameAsk
  <2>2. ASSUME NEW i \in 1..n, SameAsk(r, p[i]) PROVE FALSE
    BY <1>2, <1>3, <1>4, <2>2 DEF SameAsk
  <2>3. \A i, j \in 1..Len(q) : i # j => ~SameAsk(q[i], q[j])
    BY <1>4, <1>6, <1>9, <2>1, <2>2 DEF Safe, RequestsDiffer
  <2>. QED
    BY <1>4, <2>3 DEF RequestsDiffer
<1>11. ASSUME NEW i \in 1..Len(q), NEW a, a = q[i]
       PROVE  RequestOK(a)' /\ OwnOK(a)'
  <2>1. CASE i \in 1..n
    <3>1. RequestOK(a) /\ OwnOK(a)
      BY <1>4, <1>6, <1>11, <2>1 DEF Safe, RequestsOK, OwnsOK
    <3>. QED
      BY <1>8, <3>1 DEF RequestOK, OwnOK
  <2>2. CASE i = n + 1
    <3>1. a = r
      BY <1>6, <1>11, <2>2
    <3>2. r.kind # "difference" /\ (r.kind = "history" => b \in Channels)
          /\ (r.kind \in OwnKinds => Inited(waiter[b]))
      BY <1>2, <1>3, Kinds
    <3>. QED
      BY <1>2, <1>3, <1>8, <3>1, <3>2 DEF RequestOK, OwnOK
  <2>. QED
    BY <1>6, <1>9, <2>1, <2>2
<1>12. RequestsOK' /\ OwnsOK'
  BY <1>4, <1>11 DEF RequestsOK, OwnsOK
<1>13. AnswersDiffer' /\ PushesDiffer' /\ PushesOK' /\ LogsOK' /\ BoxesOK' /\ TimersOK' /\ MainOK'
  <2>1. AnswersDiffer' /\ PushesDiffer'
    BY <1>8 DEF Safe, AnswersDiffer, PushesDiffer
  <2>2. PushesOK'
    BY <1>8 DEF Safe, PushesOK, PushOK
  <2>3. LogsOK' /\ BoxesOK' /\ TimersOK' /\ MainOK'
    BY <1>8 DEF Safe, LogsOK, BoxesOK, TimersOK, MainOK, AppliedOnce
  <2>. QED
    BY <2>1, <2>2, <2>3
<1>14. ASSUME NEW j \in 1..Len(stream), NEW m, m = stream[j]
       PROVE  AnswerOK(m)'
  <2>1. AnswerOK(m)
    BY <1>14 DEF Safe, AnswersOK
  <2>2. ASSUME IsAnswer(m)
        PROVE  \E i \in 1..Len(q) : AnswerTo(q[i], m)
    <3>1. PICK i \in 1..n : AnswerTo(p[i], m)
      BY <1>4, <2>1, <2>2 DEF AnswerOK
    <3>2. i \in 1..Len(q) /\ q[i] = p[i]
      BY <1>5, <1>6
    <3>. QED
      BY <3>1, <3>2
  <2>. QED
    BY <1>4, <1>8, <2>1, <2>2 DEF AnswerOK, IsAnswer, AnswerTo, SameAsk
<1>15. AnswersOK'
  BY <1>8, <1>14 DEF AnswersOK
<1>. QED
  BY <1>7, <1>10, <1>12, <1>13, <1>15 DEF Safe

\* The server answers the request at i, that has the pts p then.
Answered(i, p) ==
    /\ i \in 1..Len(pending) /\ ~pending[i].answered
    /\ pending' \in Seq(Requests) /\ Len(pending') = Len(pending)
    /\ \A k \in 1..Len(pending) : k # i => pending'[k] = pending[k]
    /\ pending'[i].kind = pending[i].kind /\ pending'[i].box = pending[i].box
    /\ pending'[i].answered = TRUE /\ pending'[i].pts = p

LEMMA AnsweredRecord ==
    ASSUME NEW r \in Requests, NEW p, NEW is \in BOOLEAN, NEW v,
           \/ v = [r EXCEPT !.answered = is, !.pts = p]
           \/ v = [r EXCEPT !.answered = is] /\ p = r.pts
    PROVE  v = [kind |-> r.kind, box |-> r.box, pts |-> p, answered |-> is]
<1>1. CASE v = [r EXCEPT !.answered = is, !.pts = p]
  BY <1>1 DEF Requests
<1>2. CASE v = [r EXCEPT !.answered = is] /\ p = r.pts
  BY <1>2 DEF Requests
<1>. QED
  BY <1>1, <1>2

LEMMA AnsweredIs ==
    ASSUME Safe, NEW i \in 1..Len(pending), ~pending[i].answered, NEW p \in Nat,
           \/ pending' = [pending EXCEPT ![i].answered = TRUE, ![i].pts = p]
           \/ pending' = [pending EXCEPT ![i].answered = TRUE] /\ p = pending[i].pts
    PROVE  Answered(i, p)
<1>1. PICK s, t, r : s = pending /\ t = pending' /\ r = pending[i]
  OBVIOUS
<1>2. s \in Seq(Requests) /\ r \in Requests /\ Len(s) \in Nat
  BY <1>1 DEF Safe, Types
<1>3. PICK a : a = [kind |-> r.kind, box |-> r.box, pts |-> p, answered |-> TRUE]
  OBVIOUS
<1>4. a \in Requests
  BY <1>2, <1>3 DEF Requests
<1>5. t = [s EXCEPT ![i] = a]
  <2>1. CASE t = [s EXCEPT ![i].answered = TRUE, ![i].pts = p]
    <3>1. PICK v : v = [r EXCEPT !.answered = TRUE, !.pts = p]
      OBVIOUS
    <3>2. v = a
      BY <1>2, <1>3, <3>1, AnsweredRecord
    <3>. QED
      BY <1>1, <1>2, <2>1, <3>1, <3>2
  <2>2. CASE t = [s EXCEPT ![i].answered = TRUE] /\ p = r.pts
    <3>1. PICK v : v = [r EXCEPT !.answered = TRUE]
      OBVIOUS
    <3>2. v = a
      BY <1>2, <1>3, <2>2, <3>1, AnsweredRecord
    <3>. QED
      BY <1>1, <1>2, <2>2, <3>1, <3>2
  <2>. QED
    BY <1>1, <2>1, <2>2
<1>6. t \in Seq(Requests) /\ Len(t) = Len(s)
  BY <1>1, <1>2, <1>4, <1>5
<1>7. t[i] = a /\ \A k \in 1..Len(s) : k # i => t[k] = s[k]
  BY <1>1, <1>2, <1>5
<1>. QED
  BY <1>1, <1>3, <1>6, <1>7 DEF Answered

\* ... with the message m.
AnswersWith(i, p, m) ==
    /\ Answered(i, p) /\ Adds(Len(stream) + 1, m) /\ m \in Messages
    /\ SameAsk(pending[i], m) /\ IsAnswer(m)
    /\ m.kind \in Acts => pending[i].kind = m.kind /\ p = m.pts
    /\ m.kind \in OwnKinds => m.count = 1
    /\ m.kind = "difference" => m.pts \in log[m.box] /\ waiter[m.box].good <= m.pts
    /\ UNCHANGED <<client, known, again>> /\ \A c \in Boxes : log[c] \subseteq log'[c]

LEMMA AnswersWithIs ==
    ASSUME Safe, NEW i, NEW p, NEW m, AnswersWith(i, p, m)
    PROVE  RequestsDiffer' /\ AnswersDiffer' /\ AnswersOK' /\ PushesDiffer'
<1>1. PICK q, s, K : q = pending' /\ s = stream' /\ K = Len(stream) + 1
  OBVIOUS
<1>2. /\ i \in 1..Len(pending) /\ ~pending[i].answered /\ Len(q) = Len(pending)
      /\ \A k \in 1..Len(pending) : k # i => q[k] = pending[k]
      /\ q[i].kind = pending[i].kind /\ q[i].box = pending[i].box
      /\ q[i].answered = TRUE /\ q[i].pts = p
  BY <1>1 DEF AnswersWith, Answered
<1>3. /\ SameAsk(pending[i], m) /\ IsAnswer(m) /\ m \in Messages
      /\ m.kind \in Acts => pending[i].kind = m.kind /\ p = m.pts
      /\ m.kind \in OwnKinds => m.count = 1
      /\ m.kind = "difference" => m.pts \in log[m.box] /\ waiter[m.box].good <= m.pts
      /\ waiter' = waiter /\ \A c \in Boxes : log[c] \subseteq log'[c]
  BY DEF AnswersWith, client
<1>4. /\ \A j \in 1..Len(s) :
            j # K => \E k \in 1..Len(stream) : At(K, k) = j /\ s[j] = stream[k]
      /\ s[K] = m /\ K \in 1..Len(s)
  BY <1>1, AddsIs DEF AnswersWith
<1>5. Types
  BY DEF Safe
<1>6. \A k \in 1..Len(q) : q[k].kind = pending[k].kind /\ q[k].box = pending[k].box
  BY <1>2
<1>7. RequestsDiffer'
  <2>1. \A k, l \in 1..Len(q) : k # l => ~SameAsk(q[k], q[l])
    BY <1>2, <1>6 DEF Safe, RequestsDiffer, SameAsk
  <2>. QED
    BY <1>1, <2>1 DEF RequestsDiffer
<1>8. ASSUME NEW k \in 1..Len(stream), IsAnswer(stream[k])
      PROVE  /\ ~SameAsk(stream[k], m) /\ ~SameAsk(m, stream[k])
             /\ \E l \in 1..Len(pending) : l # i /\ AnswerTo(pending[l], stream[k])
  <2>1. PICK l \in 1..Len(pending) : AnswerTo(pending[l], stream[k])
    BY <1>8 DEF Safe, AnswersOK, AnswerOK
  <2>2. l # i
    BY <1>2, <2>1 DEF AnswerTo
  <2>3. ~SameAsk(pending[l], pending[i])
    BY <1>2, <2>1, <2>2 DEF Safe, RequestsDiffer
  <2>. QED
    BY <1>3, <2>1, <2>2, <2>3 DEF AnswerTo, SameAsk
<1>9. AnswersDiffer'
  <2>1. \A j, l \in 1..Len(s) :
          j # l /\ IsAnswer(s[j]) /\ IsAnswer(s[l]) => ~SameAsk(s[j], s[l])
    <3>1. SUFFICES ASSUME NEW j \in 1..Len(s), NEW l \in 1..Len(s), j # l, IsAnswer(s[j]),
                          IsAnswer(s[l])
                   PROVE  ~SameAsk(s[j], s[l])
      OBVIOUS
    <3>2. CASE j = K /\ l # K
      <4>1. PICK k \in 1..Len(stream) : s[l] = stream[k]
        BY <1>4, <3>2
      <4>. QED
        BY <1>4, <1>8, <3>1, <3>2, <4>1
    <3>3. CASE l = K /\ j # K
      <4>1. PICK k \in 1..Len(stream) : s[j] = stream[k]
        BY <1>4, <3>3
      <4>. QED
        BY <1>4, <1>8, <3>1, <3>3, <4>1
    <3>4. CASE j # K /\ l # K
      <4>1. PICK k \in 1..Len(stream) : At(K, k) = j /\ s[j] = stream[k]
        BY <1>4, <3>4
      <4>2. PICK o \in 1..Len(stream) : At(K, o) = l /\ s[l] = stream[o]
        BY <1>4, <3>4
      <4>3. k # o
        BY <3>1, <4>1, <4>2
      <4>. QED
        BY <3>1, <4>1, <4>2, <4>3 DEF Safe, AnswersDiffer
    <3>. QED
      BY <3>1, <3>2, <3>3, <3>4
  <2>. QED
    BY <1>1, <2>1 DEF AnswersDiffer
<1>10. ASSUME NEW j \in 1..Len(s), NEW a, a = s[j]
       PROVE  AnswerOK(a)'
  <2>1. CASE j = K
    <3>1. a = m
      BY <1>4, <1>10, <2>1
    <3>2. AnswerTo(q[i], m)
      BY <1>2, <1>3 DEF AnswerTo, SameAsk
    <3>3. m.box \in Boxes
      BY <1>3 DEF Messages
    <3>. QED
      BY <1>1, <1>2, <1>3, <3>1, <3>2, <3>3 DEF AnswerOK, IsAnswer, AnswerTo, SameAsk
  <2>2. CASE j # K
    <3>1. PICK k \in 1..Len(stream) : a = stream[k]
      BY <1>4, <1>10, <2>2
    <3>2. AnswerOK(a) /\ a.box \in Boxes
      BY <1>5, <3>1, MessageIs DEF Safe, AnswersOK
    <3>3. ASSUME IsAnswer(a) PROVE \E l \in 1..Len(q) : AnswerTo(q[l], a)
      <4>1. PICK l \in 1..Len(pending) : l # i /\ AnswerTo(pending[l], a)
        BY <1>8, <3>1, <3>3
      <4>2. l \in 1..Len(q) /\ q[l] = pending[l]
        BY <1>2, <4>1
      <4>. QED
        BY <4>1, <4>2
    <3>. QED
      BY <1>1, <1>3, <3>2, <3>3 DEF AnswerOK, IsAnswer, AnswerTo, SameAsk
  <2>. QED
    BY <2>1, <2>2
<1>11. AnswersOK'
  BY <1>1, <1>10 DEF AnswersOK
<1>12. PushesDiffer'
  <2>1. \A j, l \in 1..Len(s) :
          j # l /\ s[j].kind = "push" /\ s[l].kind = "push" /\ s[j].box = s[l].box
              => s[j].pts # s[l].pts
    <3>1. SUFFICES ASSUME NEW j \in 1..Len(s), NEW l \in 1..Len(s), j # l, s[j].kind = "push",
                          s[l].kind = "push", s[j].box = s[l].box
                   PROVE  s[j].pts # s[l].pts
      OBVIOUS
    <3>2. j # K /\ l # K
      BY <1>3, <1>4, <3>1 DEF IsAnswer
    <3>3. PICK k \in 1..Len(stream) : At(K, k) = j /\ s[j] = stream[k]
      BY <1>4, <3>2
    <3>4. PICK o \in 1..Len(stream) : At(K, o) = l /\ s[l] = stream[o]
      BY <1>4, <3>2
    <3>5. k # o
      BY <3>1, <3>3, <3>4
    <3>. QED
      BY <3>1, <3>3, <3>4, <3>5 DEF Safe, PushesDiffer
  <2>. QED
    BY <1>1, <2>1 DEF PushesDiffer
<1>. QED
  BY <1>7, <1>9, <1>11, <1>12

\* An answer that no update is made for.
LEMMA AnswerStep ==
    ASSUME Safe, Types', NEW i, NEW p, NEW m, AnswersWith(i, p, m), p = pending[i].pts,
           pending[i].kind = "difference", UNCHANGED <<log, own>>
    PROVE  Safe'
<1>1. RequestsDiffer' /\ AnswersDiffer' /\ AnswersOK' /\ PushesDiffer'
  BY AnswersWithIs
<1>2. /\ waiter' = waiter /\ byPts' = byPts /\ afterFail' = afterFail /\ known' = known
      /\ again' = again /\ own' = own /\ log' = log
  BY DEF AnswersWith, client
<1>3. PICK q, s, K : q = pending' /\ s = stream' /\ K = Len(stream) + 1
  OBVIOUS
<1>4. /\ i \in 1..Len(pending) /\ Len(q) = Len(pending)
      /\ \A k \in 1..Len(pending) : k # i => q[k] = pending[k]
      /\ q[i].kind = "difference" /\ q[i].box = pending[i].box /\ q[i].pts = pending[i].pts
  BY <1>3 DEF AnswersWith, Answered
<1>5. ASSUME NEW k \in 1..Len(q), NEW a, a = q[k]
      PROVE  RequestOK(a)' /\ OwnOK(a)'
  <2>1. CASE k # i
    <3>1. RequestOK(a) /\ OwnOK(a)
      BY <1>4, <1>5, <2>1 DEF Safe, RequestsOK, OwnsOK
    <3>. QED
      BY <1>2, <3>1 DEF RequestOK, OwnOK
  <2>2. CASE k = i
    <3>1. RequestOK(pending[i])
      BY <1>4 DEF Safe, RequestsOK
    <3>2. a.kind = "difference" /\ a.box = pending[i].box /\ a.pts = pending[i].pts
      BY <1>4, <1>5, <2>2
    <3>. QED
      BY <1>2, <3>1, <3>2, Kinds DEF RequestOK, OwnOK
  <2>. QED
    BY <2>1, <2>2
<1>6. RequestsOK' /\ OwnsOK'
  BY <1>3, <1>5 DEF RequestsOK, OwnsOK
<1>7. ASSUME NEW j \in 1..Len(s), NEW a, a = s[j]
      PROVE  PushOK(a)'
  <2>1. /\ \A l \in 1..Len(s) : l # K => \E k \in 1..Len(stream) : s[l] = stream[k]
        /\ s[K] = m
    BY <1>3, AddsIs DEF AnswersWith
  <2>2. CASE j = K
    BY <1>7, <2>1, <2>2 DEF AnswersWith, IsAnswer, PushOK
  <2>3. CASE j # K
    <3>1. PICK k \in 1..Len(stream) : a = stream[k]
      BY <1>7, <2>1, <2>3
    <3>2. PushOK(a)
      BY <3>1 DEF Safe, PushesOK
    <3>. QED
      BY <1>2, <3>2 DEF PushOK
  <2>. QED
    BY <2>2, <2>3
<1>8. PushesOK'
  BY <1>3, <1>7 DEF PushesOK
<1>9. LogsOK' /\ BoxesOK' /\ TimersOK' /\ MainOK'
  BY <1>2 DEF Safe, LogsOK, BoxesOK, TimersOK, MainOK, AppliedOnce
<1>. QED
  BY <1>1, <1>6, <1>8, <1>9 DEF Safe

LEMMA AnswerDifferenceStep ==
    ASSUME Safe, NEW i \in 1..Len(pending), AnswerDifference(i)
    PROVE  Safe'
<1>1. PICK b : b = pending[i].box
  OBVIOUS
<1>2. PICK late : late = IF b = Main /\ Inited(waiter[b]) THEN [c \in Channels |-> ServerPts(c)]
                         ELSE NoLate
  OBVIOUS
<1>3. /\ pending[i].kind = "difference" /\ ~pending[i].answered
      /\ pending' = [pending EXCEPT ![i].answered = TRUE]
      /\ UNCHANGED <<client, log, history, bounds>>
  BY DEF AnswerDifference
<1>4. b \in Boxes /\ pending[i].pts \in Nat
  BY <1>1, PendingIs DEF Safe
<1>5. PICK p \in log[b] :
        /\ p > waiter[b].good \/ p = ServerPts(b)
        /\ stream' = Append(stream, [Message("difference", b, p, 0) EXCEPT
                                        !.more = p < ServerPts(b), !.late = late])
  BY <1>1, <1>2 DEF AnswerDifference
<1>6. /\ ServerPts(b) = Top(log[b]) /\ ServerPts(b) \in log[b] /\ ServerPts(b) \in Nat \ {0}
      /\ \A q \in log[b] : q \in Nat /\ q >= 1 /\ q <= ServerPts(b)
  BY <1>4, ServerPtsIs
<1>7. PICK m : m = [Message("difference", b, p, 0) EXCEPT !.more = p < ServerPts(b), !.late = late]
  OBVIOUS
<1>8. late \in [Channels -> Nat]
  <2>1. \A c \in Channels : ServerPts(c) \in Nat
    BY ServerPtsIs, BoxesAreFinite
  <2>. QED
    BY <1>2, <2>1 DEF NoLate
<1>9. m = [kind |-> "difference", box |-> b, pts |-> p, count |-> 0,
           more |-> p < ServerPts(b), late |-> late]
  BY <1>7 DEF Message
<1>10. m \in Messages
  BY <1>4, <1>6, <1>8, <1>9 DEF Messages
<1>11. m.kind = "difference" /\ m.box = b /\ m.pts = p
  BY <1>9
<1>12. waiter[b].good <= p
  <2>1. BoxOK(waiter[b], known[b], log[b]) /\ waiter[b] \in Waiters
    BY <1>4 DEF Safe, BoxesOK, Types
  <2>2. PICK g \in Nat, l \in Nat : g = waiter[b].good /\ l = waiter[b].last
    BY <2>1 DEF Waiters
  <2>3. g <= l /\ l <= ServerPts(b)
    BY <1>6, <2>1, <2>2 DEF BoxOK
  <2>4. g <= ServerPts(b)
    BY <1>6, <2>2, <2>3
  <2>. QED
    BY <1>5, <1>6, <2>2, <2>4
<1>13. AnswersWith(i, pending[i].pts, m)
  <2>1. stream' = Append(stream, m)
    BY <1>5, <1>7
  <2>2. Adds(Len(stream) + 1, m)
    BY <1>10, <2>1, AppendAdds
  <2>3. PICK p0 \in Nat : p0 = pending[i].pts
    BY <1>4
  <2>4. Answered(i, p0)
    BY <1>3, <2>3, AnsweredIs
  <2>5. SameAsk(pending[i], m) /\ IsAnswer(m) /\ m.kind \notin Acts /\ m.kind \notin OwnKinds
    BY <1>1, <1>3, <1>11, Kinds DEF SameAsk, IsAnswer
  <2>. QED
    BY <1>3, <1>10, <1>11, <1>12, <2>2, <2>3, <2>4, <2>5 DEF AnswersWith, history
<1>14. Types'
  BY <1>3, <1>13 DEF Safe, Types, AnswersWith, Adds, Answered, client, history, bounds
<1>. QED
  BY <1>3, <1>13, <1>14, AnswerStep DEF history

LEMMA RefuseDifferenceStep ==
    ASSUME Safe, NEW i \in 1..Len(pending), RefuseDifference(i)
    PROVE  Safe'
<1>1. PICK b, m : b = pending[i].box /\ m = Message("fail", b, 0, 0)
  OBVIOUS
<1>2. /\ pending[i].kind = "difference" /\ ~pending[i].answered
      /\ pending' = [pending EXCEPT ![i].answered = TRUE] /\ stream' = Append(stream, m)
      /\ fails < MaxFails /\ fails' = fails + 1
      /\ UNCHANGED <<client, log, history, swaps, acts, losses>>
  BY <1>1 DEF RefuseDifference
<1>3. b \in Boxes /\ pending[i].pts \in Nat
  BY <1>1, PendingIs DEF Safe
<1>4. m.kind = "fail" /\ m.box = b /\ m \in Messages
  BY <1>1, <1>3 DEF Message, Messages, NoLate
<1>5. AnswersWith(i, pending[i].pts, m)
  <2>1. Adds(Len(stream) + 1, m)
    BY <1>2, <1>4, AppendAdds
  <2>2. PICK p0 \in Nat : p0 = pending[i].pts
    BY <1>3
  <2>3. Answered(i, p0)
    BY <1>2, <2>2, AnsweredIs
  <2>4. /\ SameAsk(pending[i], m) /\ IsAnswer(m) /\ m.kind \notin Acts /\ m.kind \notin OwnKinds
        /\ m.kind # "difference"
    BY <1>1, <1>2, <1>4, Kinds DEF SameAsk, IsAnswer
  <2>. QED
    BY <1>2, <1>4, <2>1, <2>2, <2>3, <2>4 DEF AnswersWith, history
<1>6. Types'
  <2>1. fails' \in 0..MaxFails
    BY <1>2, BoundsAreNats DEF Safe, Types
  <2>. QED
    BY <1>2, <1>5, <2>1 DEF Safe, Types, AnswersWith, Adds, Answered, client, history
<1>. QED
  BY <1>2, <1>5, <1>6, AnswerStep DEF history

\* An answer to an act of the user, that may have made the update p.
LEMMA ActAnswerStep ==
    ASSUME Safe, Types', NEW i, NEW p \in Nat \ {0}, NEW m, AnswersWith(i, p, m),
           NEW b \in Boxes, b = pending[i].box, pending[i].kind \in Acts, Grows(b, p),
           \/ pending[i].kind = "history" /\ own' = own
           \/ /\ pending[i].kind \in OwnKinds /\ own' = [own EXCEPT ![b] = @ \cup {p}]
              /\ \/ p = pending[i].pts
                 \/ p = ServerPts(b) + 1
    PROVE  Safe'
<1>1. RequestsDiffer' /\ AnswersDiffer' /\ AnswersOK' /\ PushesDiffer'
  BY AnswersWithIs
<1>2. /\ waiter' = waiter /\ byPts' = byPts /\ afterFail' = afterFail /\ known' = known
      /\ again' = again /\ UNCHANGED <<client, known, again>>
  BY DEF AnswersWith, client
<1>3. PICK q, s, K, r : q = pending' /\ s = stream' /\ K = Len(stream) + 1 /\ r = pending[i]
  OBVIOUS
<1>4. /\ i \in 1..Len(pending) /\ Len(q) = Len(pending)
      /\ \A k \in 1..Len(pending) : k # i => q[k] = pending[k]
      /\ q[i].kind = r.kind /\ q[i].box = b /\ q[i].pts = p
      /\ r.box = b /\ r.kind \in Acts /\ RequestOK(r) /\ OwnOK(r)
  BY <1>3 DEF AnswersWith, Answered, Safe, RequestsOK, OwnsOK
<1>5. BoxesOK' /\ TimersOK'
  BY <1>2, GrownBoxes
<1>6. ASSUME NEW c \in Boxes
      PROVE  /\ log[c] \subseteq log'[c] /\ LogIs(log'[c], MaxPts(c))
             /\ \A u : Real(log[c], u) => Real(log'[c], u)
             /\ log'[b] = log[b] \cup {p} /\ (c # b => log'[c] = log[c])
  BY GrowsIs
<1>7. own \in [Boxes -> SUBSET Nat] /\ own' \in [Boxes -> SUBSET Nat] /\ Types
  BY DEF Safe, Types
<1>8. ASSUME NEW c \in Boxes
      PROVE  /\ own[c] \subseteq own'[c] /\ own'[c] \subseteq own[c] \cup {p}
             /\ c # b => own'[c] = own[c]
             /\ r.kind = "history" => own'[c] = own[c]
             /\ r.kind \in OwnKinds => p \in own'[b]
  <2>1. CASE own' = own /\ r.kind = "history"
    BY <2>1, Kinds
  <2>2. CASE own' = [own EXCEPT ![b] = @ \cup {p}] /\ r.kind \in OwnKinds
    BY <1>7, <2>2, Kinds
  <2>. QED
    BY <1>3, <2>1, <2>2
<1>9. LogsOK'
  <2>1. ASSUME NEW c \in Boxes
        PROVE  LogIs(log'[c], MaxPts(c)) /\ own'[c] \subseteq log'[c]
    <3>1. own[c] \subseteq log[c]
      BY DEF Safe, LogsOK
    <3>. QED
      BY <1>6, <1>8, <3>1
  <2>. QED
    BY <2>1 DEF LogsOK
<1>10. /\ ServerPts(b) = Top(log[b]) /\ ServerPts(b) \in Nat \ {0}
       /\ \A u \in log[b] : u \in Nat /\ u >= 1 /\ u <= ServerPts(b)
  BY ServerPtsIs
<1>11. p \in own'[b] => p \in own[b] \/ (p = ServerPts(b) + 1 /\ p \notin log[b])
  <2>1. CASE r.kind = "history"
    BY <1>8, <2>1
  <2>2. CASE r.kind \in OwnKinds /\ p = r.pts
    BY <1>4, <2>2 DEF RequestOK
  <2>3. CASE p = ServerPts(b) + 1
    BY <1>10, <2>3
  <2>. QED
    BY <1>3, <2>1, <2>2, <2>3
<1>12. ASSUME p = ServerPts(b) + 1
       PROVE  Real(log'[b], One(p)) /\ Fresh(waiter[b], known[b], One(p))
  <2>L. PICK L : L = log[b]
    OBVIOUS
  <2>1. PICK max \in Nat : max = MaxPts(b) /\ L = log[b]
    BY <2>L, BoundsAreNats DEF MaxPts
  <2>2. LogIs(L, max) /\ BoxOK(waiter[b], known[b], L)
    BY <2>1 DEF Safe, LogsOK, BoxesOK
  <2>3. PICK T \in Nat \ {0} : T = Top(L) /\ p = T + 1 /\ \A u \in L : u \in Nat /\ u <= T
    BY <1>10, <1>12, <2>1
  <2>4. PICK u : u = One(p)
    OBVIOUS
  <2>5. u.pts = p /\ u.count = 1 /\ Covers(u) = {p}
    BY <2>4, OneIs DEF One
  <2>6. Real(L \cup {p}, u)
    <3>1. 1 \in 1..(p - 1) /\ \A v \in L \cup {p} : v < p => v <= p - 1
      BY <2>3
    <3>. QED
      BY <2>5, <3>1 DEF Real
  <2>7. p \notin known[b] \cup Content(waiter[b].queue)
    <3>1. PICK w, k : w = waiter[b] /\ k = known[b]
      OBVIOUS
    <3>2. w.last \in Nat /\ w.last <= T /\ Content(w.queue) \subseteq 1..w.last
      BY <2>2, <2>3, <3>1, QueueIs
    <3>3. k \subseteq 1..T
      BY <2>2, <2>3, <3>1 DEF BoxOK
    <3>4. PICK l \in Nat : l = w.last /\ l <= T
      BY <3>2
    <3>5. p \notin 1..l /\ p \notin 1..T
      BY <2>3, <3>4
    <3>. QED
      BY <3>1, <3>2, <3>3, <3>4, <3>5
  <2>8. Fresh(waiter[b], known[b], u)
    BY <2>5, <2>7 DEF Fresh
  <2>9. log'[b] = L \cup {p}
    BY <1>6, <2>1
  <2>. QED
    BY <2>4, <2>6, <2>8, <2>9
<1>13. ASSUME NEW k \in 1..Len(q), NEW a, a = q[k]
       PROVE  RequestOK(a)' /\ OwnOK(a)'
  <2>1. CASE k # i
    <3>1. RequestOK(a) /\ OwnOK(a) /\ a.box \in Boxes
      BY <1>4, <1>7, <1>13, <2>1, PendingIs DEF Safe, RequestsOK, OwnsOK
    <3>2. PICK c \in Boxes : c = a.box
      BY <3>1
    <3>3. /\ log[c] \subseteq log'[c] /\ own[c] \subseteq own'[c]
          /\ \A u : Real(log[c], u) => Real(log'[c], u)
      BY <1>6, <1>8
    <3>4. RequestOK(a)'
      BY <1>2, <3>1, <3>2, <3>3 DEF RequestOK
    <3>5. OwnOK(a)'
      BY <1>2, <3>1, <3>2, <3>3 DEF OwnOK
    <3>. QED
      BY <3>4, <3>5
  <2>2. CASE k = i
    <3>1. a.kind = r.kind /\ a.box = b /\ a.pts = p
      BY <1>4, <1>13, <2>2
    <3>2. p \in log'[b]
      BY <1>6
    <3>3. RequestOK(a)'
      BY <1>2, <1>4, <1>8, <3>1, <3>2, Kinds DEF RequestOK
    <3>4. ASSUME a.kind \in OwnKinds
          PROVE  Real(log'[b], One(p)) /\ Fresh(waiter[b], known[b], One(p))
      <4>1. CASE p = r.pts
        BY <1>4, <1>6, <3>1, <3>4, <4>1 DEF OwnOK
      <4>2. CASE p = ServerPts(b) + 1
        BY <1>12, <4>2
      <4>. QED
        BY <1>3, <3>1, <3>4, <4>1, <4>2, Kinds
    <3>. QED
      BY <1>2, <3>1, <3>3, <3>4 DEF OwnOK
  <2>. QED
    BY <2>1, <2>2
<1>14. RequestsOK' /\ OwnsOK'
  BY <1>3, <1>13 DEF RequestsOK, OwnsOK
<1>15. ASSUME NEW j \in 1..Len(s), NEW a, a = s[j]
       PROVE  PushOK(a)'
  <2>1. /\ \A l \in 1..Len(s) : l # K => \E k \in 1..Len(stream) : s[l] = stream[k]
        /\ s[K] = m
    BY <1>3, AddsIs DEF AnswersWith
  <2>2. CASE j = K
    BY <1>15, <2>1, <2>2 DEF AnswersWith, IsAnswer, PushOK
  <2>3. CASE j # K
    <3>1. PICK k \in 1..Len(stream) : a = stream[k]
      BY <1>15, <2>1, <2>3
    <3>2. PushOK(a) /\ a.box \in Boxes
      BY <1>7, <3>1, MessageIs DEF Safe, PushesOK
    <3>3. PICK c \in Boxes : c = a.box
      BY <3>2
    <3>4. ASSUME a.kind = "push" PROVE a.pts \notin own'[c]
      <4>1. a.pts \in log[c] /\ a.pts \notin own[c]
        BY <3>2, <3>3, <3>4 DEF PushOK, Real
      <4>. QED
        BY <1>8, <1>11, <4>1
    <3>5. \A u : Real(log[c], u) => Real(log'[c], u)
      BY <1>6
    <3>. QED
      BY <1>2, <3>2, <3>3, <3>4, <3>5 DEF PushOK
  <2>. QED
    BY <2>2, <2>3
<1>16. PushesOK'
  BY <1>3, <1>15 DEF PushesOK
<1>17. MainOK'
  <2>1. Main \in Boxes
    BY BoxesAreFinite
  <2>2. own[Main] \subseteq own'[Main]
    BY <1>8, <2>1
  <2>. QED
    BY <1>2, <2>2 DEF Safe, MainOK, AppliedOnce
<1>. QED
  BY <1>1, <1>5, <1>9, <1>14, <1>16, <1>17 DEF Safe

LEMMA AnswerActStep ==
    ASSUME Safe, NEW i \in 1..Len(pending), AnswerAct(i)
    PROVE  Safe'
<1>1. PICK r, b : r = pending[i] /\ b = r.box
  OBVIOUS
<1>2. PICK n : n = IF r.kind = "history" THEN 0 ELSE 1
  OBVIOUS
<1>3. PICK p : p = IF r.kind = "history" \/ r.pts = 0 THEN ServerPts(b) + n ELSE r.pts
  OBVIOUS
<1>4. /\ r.kind \in Acts /\ ~pending[i].answered /\ p <= MaxPts(b)
      /\ log' = [log EXCEPT ![b] = @ \cup {p}]
      /\ own' = IF n = 0 THEN own ELSE [own EXCEPT ![b] = @ \cup {p}]
      /\ pending' = [pending EXCEPT ![i].answered = TRUE, ![i].pts = p]
      /\ stream' = Append(stream, Message(r.kind, b, p, n))
      /\ UNCHANGED <<client, known, again, bounds>>
  BY <1>1, <1>2, <1>3 DEF AnswerAct
<1>5. b \in Boxes /\ r.pts \in Nat /\ RequestOK(r)
  BY <1>1, PendingIs DEF Safe, RequestsOK
<1>6. /\ ServerPts(b) = Top(log[b]) /\ ServerPts(b) \in log[b] /\ ServerPts(b) \in Nat \ {0}
      /\ \A q \in log[b] : q \in Nat /\ q >= 1 /\ q <= ServerPts(b)
  BY <1>5, ServerPtsIs
<1>7. /\ p \in Nat \ {0}
      /\ \/ r.kind = "history" /\ n = 0 /\ p = ServerPts(b)
         \/ r.kind \in OwnKinds /\ n = 1 /\ p = ServerPts(b) + 1
         \/ r.kind \in OwnKinds /\ n = 1 /\ p = r.pts /\ p \in own[b]
  <2>1. CASE r.kind = "history"
    BY <1>2, <1>3, <1>6, <2>1
  <2>2. CASE r.kind \in OwnKinds /\ r.pts = 0
    BY <1>2, <1>3, <1>6, <2>2, Kinds
  <2>3. CASE r.kind \in OwnKinds /\ r.pts # 0
    <3>1. r.kind # "history"
      BY <2>3, Kinds
    <3>2. n = 1 /\ p = r.pts
      BY <1>2, <1>3, <2>3, <3>1
    <3>3. p \in own[b]
      BY <1>1, <1>5, <2>3, <3>2 DEF RequestOK
    <3>. QED
      BY <1>5, <2>3, <3>2, <3>3
  <2>. QED
    BY <1>4, <2>1, <2>2, <2>3, Kinds
<1>8. Grows(b, p)
  <2>1. own[b] \subseteq log[b]
    BY <1>5 DEF Safe, LogsOK
  <2>2. p \in log[b] \/ p > Top(log[b])
    BY <1>6, <1>7, <2>1
  <2>. QED
    BY <1>4, <2>2 DEF Grows
<1>9. PICK m : m = Message(r.kind, b, p, n)
  OBVIOUS
<1>10. m \in Messages /\ m.kind = r.kind /\ m.box = b /\ m.pts = p /\ m.count = n
  <2>1. r.kind \in Acts \cup {"push", "session", "difference", "fail"} /\ p \in Nat /\ n \in Nat
    BY <1>4, <1>7
  <2>2. PICK k, l : k = r.kind /\ l = b
    OBVIOUS
  <2>3. m = Message(k, l, p, n)
    BY <1>9, <2>2
  <2>4. k \in Acts \cup {"push", "session", "difference", "fail"} /\ l \in Boxes
    BY <1>5, <2>1, <2>2
  <2>5. /\ m \in Messages /\ m.kind = k /\ m.box = l /\ m.pts = p /\ m.count = n
    BY <2>1, <2>3, <2>4 DEF Message, Messages, NoLate
  <2>. QED
    BY <2>2, <2>5
<1>11. AnswersWith(i, p, m)
  <2>1. Adds(Len(stream) + 1, m)
    BY <1>4, <1>9, <1>10, AppendAdds
  <2>2. p \in Nat
    BY <1>7
  <2>3. Answered(i, p)
    BY <1>4, <2>2, AnsweredIs
  <2>4. SameAsk(r, m) /\ IsAnswer(m) /\ m.kind # "difference"
    BY <1>1, <1>4, <1>10, Kinds DEF SameAsk, IsAnswer
  <2>5. m.kind \in OwnKinds => m.count = 1
    BY <1>7, <1>10, Kinds
  <2>6. \A c \in Boxes : log[c] \subseteq log'[c]
    <3>1. ASSUME NEW c \in Boxes PROVE log[c] \subseteq log'[c]
      BY <1>5, <1>8, <2>2, GrowsIs
    <3>. QED
      BY <3>1
  <2>7. UNCHANGED <<client, known, again>>
    BY <1>4
  <2>. QED
    BY <1>1, <1>10, <2>1, <2>3, <2>4, <2>5, <2>6, <2>7 DEF AnswersWith
<1>12. Types'
  <2>1. log' \in [Boxes -> SUBSET Nat]
    BY <1>4, <1>5, <1>7 DEF Safe, Types
  <2>2. own' \in [Boxes -> SUBSET Nat]
    BY <1>4, <1>5, <1>7 DEF Safe, Types
  <2>3. pending' \in Seq(Requests) /\ stream' \in Seq(Messages)
    BY <1>11 DEF AnswersWith, Answered, Adds
  <2>. QED
    BY <1>4, <2>1, <2>2, <2>3 DEF Safe, Types, client, bounds
<1>13. \/ pending[i].kind = "history" /\ own' = own
       \/ /\ pending[i].kind \in OwnKinds /\ own' = [own EXCEPT ![b] = @ \cup {p}]
          /\ \/ p = pending[i].pts
             \/ p = ServerPts(b) + 1
  BY <1>1, <1>4, <1>7
<1>. QED
  BY <1>1, <1>4, <1>5, <1>7, <1>8, <1>11, <1>12, <1>13, ActAnswerStep

\* The session is lost: the stream is cut, and the requests whose answers are lost wait again.
LEMMA LoseSessionStep ==
    ASSUME Safe, NEW n \in 0..Len(stream), LoseSession(n)
    PROVE  Safe'
<1>0. Types
  BY DEF Safe
<1>1. PICK s, t, m, p, q : /\ s = stream /\ t = stream' /\ m = Message("session", Main, 0, 0)
                           /\ p = pending /\ q = pending'
  OBVIOUS
<1>2. /\ losses < MaxLosses /\ losses' = losses + 1 /\ t = Append(SubSeq(s, 1, n), m)
      /\ q = [i \in DOMAIN p |-> [p[i] EXCEPT !.answered = @ /\ \E j \in 1..n :
                                     IsAnswer(s[j]) /\ PlaceOf(s[j]) = i]]
      /\ UNCHANGED <<client, log, history, swaps, acts, fails>>
  BY <1>1 DEF LoseSession
<1>3. s \in Seq(Messages) /\ Len(s) \in Nat /\ n \in 0..Len(s) /\ p \in Seq(Requests) /\ Len(p) \in Nat
  BY <1>0, <1>1 DEF Types
<1>4. m.kind = "session" /\ m \in Messages
  BY <1>1, BoxesAreFinite DEF Message, Messages, NoLate
<1>5. /\ t \in Seq(Messages) /\ Len(t) = n + 1 /\ t[n + 1] = m
      /\ \A j \in 1..n : t[j] = s[j] /\ j \in 1..Len(s) /\ j \in 1..Len(t)
  <2>1. PICK a : a = SubSeq(s, 1, n)
    OBVIOUS
  <2>2. a \in Seq(Messages) /\ Len(a) = n /\ \A j \in 1..n : a[j] = s[j]
    BY <1>3, <2>1
  <2>3. t = Append(a, m)
    BY <1>2, <2>1
  <2>. QED
    BY <1>3, <1>4, <2>2, <2>3
<1>6. \A j \in 1..Len(t) : j \in 1..n \/ j = n + 1
  BY <1>3, <1>5
<1>7. ASSUME NEW i \in 1..Len(p), NEW r, r = p[i], NEW v, v = q[i]
      PROVE  /\ v.kind = r.kind /\ v.box = r.box /\ v.pts = r.pts /\ v \in Requests
             /\ v.answered => r.answered
             /\ r.answered /\ (\E j \in 1..n : IsAnswer(s[j]) /\ PlaceOf(s[j]) = i) => v.answered
  <2>1. r \in Requests /\ i \in DOMAIN p
    BY <1>3, <1>7
  <2>2. PICK is \in BOOLEAN : is = (r.answered /\ \E j \in 1..n : IsAnswer(s[j]) /\ PlaceOf(s[j]) = i)
    OBVIOUS
  <2>3. v = [r EXCEPT !.answered = is]
    BY <1>2, <1>7, <2>1, <2>2
  <2>4. v = [kind |-> r.kind, box |-> r.box, pts |-> r.pts, answered |-> is]
    BY <2>1, <2>3, AnsweredRecord
  <2>5. v.kind = r.kind /\ v.box = r.box /\ v.pts = r.pts /\ v \in Requests
    BY <2>1, <2>4 DEF Requests
  <2>6. v.answered = is
    BY <2>4
  <2>. QED
    BY <2>2, <2>5, <2>6
<1>8. q \in Seq(Requests) /\ Len(q) = Len(p)
  <2>0. DOMAIN q = 1..Len(p)
    <3>1. DOMAIN p = 1..Len(p)
      BY <1>3
    <3>. QED
      BY <1>2, <3>1
  <2>1. \A i \in 1..Len(p) : q[i] \in Requests
    BY <1>7
  <2>2. q = [i \in 1..Len(p) |-> q[i]]
    BY <1>2, <1>3, <2>0
  <2>3. q \in Seq(Requests)
    BY <1>3, <2>1, <2>2
  <2>. QED
    BY <1>3, <2>0, <2>3
<1>9. /\ waiter' = waiter /\ byPts' = byPts /\ afterFail' = afterFail /\ known' = known
      /\ again' = again /\ own' = own /\ log' = log
  BY <1>2 DEF client, history
<1>10. Types'
  <2>1. losses' \in 0..MaxLosses
    <3>1. losses \in 0..MaxLosses /\ losses < MaxLosses /\ losses' = losses + 1 /\ MaxLosses \in Nat
      BY <1>0, <1>2, BoundsAreNats DEF Types
    <3>. QED
      BY <3>1
  <2>. QED
    BY <1>0, <1>1, <1>2, <1>5, <1>8, <2>1 DEF Types, client, history
<1>11. LogsOK' /\ BoxesOK' /\ TimersOK' /\ MainOK'
  BY <1>9 DEF Safe, LogsOK, BoxesOK, TimersOK, MainOK, AppliedOnce
<1>12. RequestsDiffer'
  <2>1. ASSUME NEW i \in 1..Len(p), NEW j \in 1..Len(p), i # j, SameAsk(q[i], q[j])
        PROVE  FALSE
    <3>1. q[i].kind = p[i].kind /\ q[i].box = p[i].box /\ q[j].kind = p[j].kind /\ q[j].box = p[j].box
      BY <1>7
    <3>2. SameAsk(p[i], p[j])
      BY <2>1, <3>1 DEF SameAsk
    <3>. QED
      BY <1>1, <2>1, <3>2 DEF Safe, RequestsDiffer
  <2>2. \A i, j \in 1..Len(q) : i # j => ~SameAsk(q[i], q[j])
    BY <1>8, <2>1
  <2>. QED
    BY <1>1, <2>2 DEF RequestsDiffer
<1>13. ASSUME NEW i \in 1..Len(q), NEW v, v = q[i]
       PROVE  RequestOK(v)' /\ OwnOK(v)'
  <2>1. PICK r : r = p[i]
    OBVIOUS
  <2>2. i \in 1..Len(p)
    BY <1>8
  <2>3. v.kind = r.kind /\ v.box = r.box /\ v.pts = r.pts /\ (v.answered => r.answered)
    BY <1>7, <1>13, <2>1, <2>2
  <2>4. RequestOK(r) /\ OwnOK(r)
    BY <1>1, <2>1, <2>2 DEF Safe, RequestsOK, OwnsOK
  <2>5. RequestOK(v) /\ OwnOK(v)
    BY <2>3, <2>4 DEF RequestOK, OwnOK
  <2>. QED
    BY <1>9, <2>5 DEF RequestOK, OwnOK
<1>14. RequestsOK' /\ OwnsOK'
  BY <1>1, <1>13 DEF RequestsOK, OwnsOK
<1>15. ASSUME NEW j \in 1..Len(t)
       PROVE  \/ j \in 1..n /\ t[j] = s[j] /\ j \in 1..Len(stream)
              \/ t[j] = m /\ ~IsAnswer(m) /\ m.kind # "push" /\ m.kind \notin OwnKinds /\ m.kind # "difference"
  BY <1>1, <1>4, <1>5, <1>6, Kinds DEF IsAnswer
<1>16. AnswersDiffer'
  <2>1. \A i, j \in 1..Len(t) : i # j /\ IsAnswer(t[i]) /\ IsAnswer(t[j]) => ~SameAsk(t[i], t[j])
    BY <1>1, <1>15 DEF Safe, AnswersDiffer
  <2>. QED
    BY <1>1, <2>1 DEF AnswersDiffer
<1>17. PushesDiffer'
  <2>1. \A i, j \in 1..Len(t) :
          i # j /\ t[i].kind = "push" /\ t[j].kind = "push" /\ t[i].box = t[j].box
              => t[i].pts # t[j].pts
    BY <1>1, <1>15 DEF Safe, PushesDiffer
  <2>. QED
    BY <1>1, <2>1 DEF PushesDiffer
<1>18. ASSUME NEW j \in 1..Len(t), NEW a, a = t[j]
       PROVE  AnswerOK(a)' /\ PushOK(a)'
  <2>1. CASE j \in 1..n /\ a = s[j] /\ j \in 1..Len(stream)
    <3>1. AnswerOK(a) /\ PushOK(a)
      BY <1>1, <2>1 DEF Safe, AnswersOK, PushesOK
    <3>2. ASSUME IsAnswer(a) PROVE \E i \in 1..Len(q) : AnswerTo(q[i], a)
      <4>1. PICK i : i = PlaceOf(a)
        OBVIOUS
      <4>2. i \in 1..Len(p) /\ AnswerTo(p[i], a)
        BY <1>1, <2>1, <3>2, <4>1, PlaceIs DEF Safe
      <4>3. PICK r, v : r = p[i] /\ v = q[i]
        OBVIOUS
      <4>4. r.answered /\ \E k \in 1..n : IsAnswer(s[k]) /\ PlaceOf(s[k]) = i
        BY <2>1, <3>2, <4>1, <4>2, <4>3 DEF AnswerTo
      <4>5. v.kind = r.kind /\ v.box = r.box /\ v.pts = r.pts /\ v.answered
        BY <1>7, <4>2, <4>3, <4>4
      <4>6. AnswerTo(v, a)
        BY <4>2, <4>3, <4>5 DEF AnswerTo, SameAsk
      <4>. QED
        BY <1>8, <4>2, <4>3, <4>6
    <3>3. AnswerOK(a)'
      BY <1>1, <1>9, <3>1, <3>2 DEF AnswerOK, IsAnswer, AnswerTo, SameAsk
    <3>4. PushOK(a)'
      BY <1>9, <3>1 DEF PushOK
    <3>. QED
      BY <3>3, <3>4
  <2>2. CASE a = m
    <3>1. ~IsAnswer(m) /\ m.kind # "push" /\ m.kind \notin OwnKinds /\ m.kind # "difference"
      BY <1>4, Kinds DEF IsAnswer
    <3>. QED
      BY <2>2, <3>1 DEF AnswerOK, PushOK, IsAnswer
  <2>. QED
    BY <1>15, <1>18, <2>1, <2>2
<1>19. AnswersOK' /\ PushesOK'
  BY <1>1, <1>18 DEF AnswersOK, PushesOK
<1>. QED
  BY <1>10, <1>11, <1>12, <1>14, <1>16, <1>17, <1>19 DEF Safe

-----------------------------------------------------------------------------
(***************************************************************************)
(* The theorems.                                                           *)
(***************************************************************************)
LEMMA SafeInit == Init => Safe
<1>1. SUFFICES ASSUME Init PROVE Safe
  OBVIOUS
<1>2. PICK w, r : /\ w = [good |-> 0, last |-> 0, count |-> 0, queue |-> {},
                          requesting |-> TRUE, waiting |-> FALSE]
                  /\ r = Request("difference", Main)
  OBVIOUS
<1>3. PICK v : v = [good |-> 0, last |-> 0, count |-> 0, queue |-> {},
                    requesting |-> FALSE, waiting |-> FALSE]
  OBVIOUS
<1>4. w \in Waiters /\ v \in Waiters /\ w.requesting
  BY <1>2, <1>3 DEF Waiters
<1>5. ASSUME NEW b \in Boxes
      PROVE  /\ waiter[b] = IF b = Main THEN w ELSE v
             /\ known[b] = {} /\ own[b] = {} /\ again[b] = {} /\ log[b] = {1}
  <2>1. waiter[b] = [good |-> 0, last |-> 0, count |-> 0, queue |-> {},
                     requesting |-> b = Main, waiting |-> FALSE]
    BY <1>1 DEF Init
  <2>2. waiter[b] = IF b = Main THEN w ELSE v
    <3>1. CASE b = Main
      <4>1. (b = Main) = TRUE
        BY <3>1
      <4>. QED
        BY <1>2, <2>1, <3>1, <4>1
    <3>2. CASE b # Main
      <4>1. (b = Main) = FALSE
        BY <3>2
      <4>. QED
        BY <1>3, <2>1, <3>2, <4>1
    <3>. QED
      BY <3>1, <3>2
  <2>. QED
    BY <1>1, <2>2 DEF Init
<1>6. r.kind = "difference" /\ r.box = Main /\ r.pts = 0 /\ r.answered = FALSE /\ r \in Requests
  BY <1>2, BoxesAreFinite DEF Request, Requests
<1>7. pending = <<r>> /\ stream = <<>> /\ byPts = {} /\ afterFail = {} /\ minChannel = FALSE
      /\ swaps = 0 /\ acts = 0 /\ losses = 0 /\ fails = 0
  BY <1>1, <1>2 DEF Init
<1>8. Types
  <2>1. waiter \in [Boxes -> Waiters]
    <3>1. waiter = [b \in Boxes |-> waiter[b]]
      BY <1>1 DEF Init
    <3>. QED
      BY <1>4, <1>5, <3>1
  <2>2. /\ log \in [Boxes -> SUBSET Nat] /\ known \in [Boxes -> SUBSET Nat]
        /\ own \in [Boxes -> SUBSET Nat] /\ again \in [Boxes -> SUBSET Nat]
    BY <1>1 DEF Init
  <2>3. swaps \in 0..MaxSwaps /\ acts \in 0..MaxActs /\ losses \in 0..MaxLosses /\ fails \in 0..MaxFails
    BY <1>7, BoundsAreNats
  <2>4. pending \in Seq(Requests) /\ stream \in Seq(Messages)
    BY <1>6, <1>7
  <2>. QED
    BY <1>7, <2>1, <2>2, <2>3, <2>4 DEF Types
<1>9. ASSUME NEW b \in Boxes
      PROVE  LogIs(log[b], MaxPts(b)) /\ own[b] \subseteq log[b]
  <2>1. PICK max \in Nat \ {0} : max = MaxPts(b)
    BY BoundsAreNats DEF MaxPts
  <2>2. {1} \subseteq 1..max /\ 1 \in {1} /\ \E p \in {1} : \A q \in {1} : q <= p
    BY <2>1
  <2>. QED
    BY <1>5, <2>1, <2>2 DEF LogIs
<1>10. ASSUME NEW b \in Boxes
       PROVE  /\ BoxOK(waiter[b], known[b], log[b]) /\ again[b] \subseteq known[b]
              /\ waiter[b].queue = {} /\ waiter[b].good = 0
  <2>1. PICK u, L : u = waiter[b] /\ L = log[b]
    OBVIOUS
  <2>2. u = w \/ u = v
    BY <1>5, <2>1
  <2>3. u \in Waiters /\ u.good = 0 /\ u.last = 0 /\ u.queue = {}
    <3>1. CASE u = w
      BY <1>2, <1>4, <3>1
    <3>2. CASE u = v
      BY <1>3, <1>4, <3>2
    <3>. QED
      BY <2>2, <3>1, <3>2
  <2>4. PICK max \in Nat : max = MaxPts(b)
    BY BoundsAreNats DEF MaxPts
  <2>5. Top(L) \in Nat
    BY <1>9, <2>1, <2>4, TopIs
  <2>6. BoxOK(u, {}, L)
    BY <2>3, <2>5, ContentIs DEF BoxOK, CountOK
  <2>. QED
    BY <1>5, <2>1, <2>3, <2>6
<1>11. LogsOK /\ BoxesOK /\ TimersOK
  BY <1>9, <1>10 DEF LogsOK, BoxesOK, TimersOK
<1>12. Len(pending) = 1 /\ pending[1] = r /\ Len(stream) = 0
  BY <1>7
<1>13. 1..Len(pending) = {1} /\ 1..Len(stream) = {}
  BY <1>12
<1>14. RequestsDiffer /\ AnswersDiffer /\ AnswersOK /\ PushesDiffer /\ PushesOK
  BY <1>13 DEF RequestsDiffer, AnswersDiffer, AnswersOK, PushesDiffer, PushesOK
<1>15. RequestOK(r) /\ OwnOK(r)
  <2>1. waiter[Main].requesting /\ r.kind \notin Acts /\ r.kind # "history" /\ r.kind \notin OwnKinds
    BY <1>4, <1>5, <1>6, BoxesAreFinite, Kinds
  <2>. QED
    BY <1>6, <1>7, <2>1 DEF RequestOK, OwnOK
<1>16. RequestsOK /\ OwnsOK
  BY <1>12, <1>13, <1>15 DEF RequestsOK, OwnsOK
<1>17. MainOK
  BY <1>5, BoxesAreFinite DEF MainOK, AppliedOnce
<1>. QED
  BY <1>8, <1>11, <1>14, <1>16, <1>17 DEF Safe

LEMMA SafeStutters == ASSUME Safe, UNCHANGED vars PROVE Safe'
<1>1. /\ waiter' = waiter /\ byPts' = byPts /\ afterFail' = afterFail /\ minChannel' = minChannel
      /\ pending' = pending /\ stream' = stream /\ log' = log /\ known' = known /\ own' = own
      /\ again' = again /\ swaps' = swaps /\ acts' = acts /\ losses' = losses /\ fails' = fails
  BY DEF vars, client, history, bounds
<1>2. Types' /\ LogsOK' /\ BoxesOK' /\ TimersOK' /\ MainOK'
  BY <1>1 DEF Safe, Types, LogsOK, BoxesOK, TimersOK, MainOK, AppliedOnce
<1>3. RequestsDiffer' /\ AnswersDiffer' /\ PushesDiffer'
  BY <1>1 DEF Safe, RequestsDiffer, AnswersDiffer, PushesDiffer
<1>4. RequestsOK' /\ OwnsOK'
  BY <1>1 DEF Safe, RequestsOK, RequestOK, OwnsOK, OwnOK
<1>5. AnswersOK' /\ PushesOK'
  BY <1>1 DEF Safe, AnswersOK, AnswerOK, AnswerTo, PushesOK, PushOK
<1>. QED
  BY <1>2, <1>3, <1>4, <1>5 DEF Safe

LEMMA TimersStep == ASSUME Safe, Timers PROVE Safe'
<1>1. CASE TimeMinChannel
  BY <1>1, TimeMinChannelAsks, AskingStep
<1>2. ASSUME NEW b \in Boxes, TimeByPts(b) PROVE Safe'
  BY <1>2, TimeByPtsAsks, AskingStep
<1>3. ASSUME NEW b \in Boxes, TimeAfterFail(b) PROVE Safe'
  <2>1. CASE b = Main
    BY <1>3, <2>1, TimeAfterFailWaits, WaitsStep
  <2>2. CASE b \in Channels
    BY <1>3, <2>2, TimeAfterFailAsks, AskingStep
  <2>. QED
    BY <2>1, <2>2 DEF Boxes
<1>. QED
  BY <1>1, <1>2, <1>3 DEF Timers

LEMMA ReceiveStep == ASSUME Safe, Receive PROVE Safe'
<1>1. CASE ReceivePush
  <2>1. PICK m, b : m = stream[1] /\ b = m.box
    OBVIOUS
  <2>2. \E C : Feeds(1, 0, b, C, {})
    BY <1>1, <2>1, PushFeeds
  <2>. QED
    BY <2>2, FeedsStep
<1>2. CASE ReceiveNotLoaded
  <2>1. CASE Head(stream).box = Main
    BY <1>2, <2>1, NotLoadedAsks, AskingStep
  <2>2. CASE Head(stream).box # Main
    BY <1>2, <2>2, NotLoadedWaits, WaitsStep
  <2>. QED
    BY <2>1, <2>2
<1>3. CASE ReceiveNewSession
  BY <1>3, NewSessionAsks, AskingStep
<1>4. ASSUME NEW i \in 1..Len(stream), ReceiveAct(i) PROVE Safe'
  <2>1. PICK m, b, y : m = stream[i] /\ b = m.box /\ y = PlaceOf(stream[i])
    OBVIOUS
  <2>2. \E C, O : Feeds(i, y, b, C, O)
    BY <1>4, <2>1, ActFeeds
  <2>. QED
    BY <2>2, FeedsStep
<1>5. ASSUME NEW i \in 1..Len(stream), ReceiveDifference(i) PROVE Safe'
  <2>1. PICK m, y : m = stream[i] /\ y = PlaceOf(stream[i])
    OBVIOUS
  <2>2. PICK A \in SUBSET Boxes : Handles(i, y, A) /\ Restarts(m, A) /\ Asked(m.box, pending[y])
    BY <1>5, <2>1, DifferenceRestarts
  <2>3. IsAnswer(stream[i])
    BY <1>5 DEF ReceiveDifference, AnswerIsNext
  <2>4. y \in 1..Len(pending)
    BY <2>1, <2>3, PlaceIs DEF Safe
  <2>. QED
    BY <2>2, <2>4, RestartStep
<1>6. ASSUME NEW i \in 1..Len(stream), ReceiveFail(i) PROVE Safe'
  <2>1. PICK y : y = PlaceOf(stream[i])
    OBVIOUS
  <2>2. Handles(i, y, {}) /\ Waits(y, {})
    BY <1>6, <2>1, FailWaits
  <2>. QED
    BY <2>2, WaitsStep
<1>. QED
  BY <1>1, <1>2, <1>3, <1>4, <1>5, <1>6 DEF Receive

\* The invariant is inductive.
THEOREM Inductive == ASSUME Safe, [Next]_vars PROVE Safe'
<1>1. CASE Timers
  BY <1>1, TimersStep
<1>2. CASE Receive
  BY <1>2, ReceiveStep
<1>3. CASE Answer
  <2>1. PICK i \in 1..Len(pending) : AnswerAct(i) \/ AnswerDifference(i) \/ RefuseDifference(i)
    BY <1>3 DEF Answer
  <2>. QED
    BY <2>1, AnswerActStep, AnswerDifferenceStep, RefuseDifferenceStep
<1>4. ASSUME NEW b \in Boxes, NEW kind \in Acts, Act(kind, b) PROVE Safe'
  BY <1>4, ActStep
<1>5. ASSUME NEW b \in Boxes, NEW n \in 1..MaxCount, Produce(b, n) PROVE Safe'
  BY <1>5, ProduceStep
<1>6. ASSUME NEW b \in Boxes, NEW n \in 1..MaxCount, ProduceAhead(b, n) PROVE Safe'
  BY <1>6, ProduceAheadStep
<1>7. ASSUME NEW n \in 0..Len(stream), LoseSession(n) PROVE Safe'
  BY <1>7, LoseSessionStep
<1>8. CASE UNCHANGED vars
  BY <1>8, SafeStutters
<1>. QED
  BY <1>1, <1>2, <1>3, <1>4, <1>5, <1>6, <1>7, <1>8 DEF Next

LEMMA AlwaysSafe == Spec => []Safe
<1>1. Init => Safe
  BY SafeInit
<1>2. Safe /\ [Next]_vars => Safe'
  BY Inductive
<1>. QED
  BY <1>1, <1>2, PTL DEF Spec

\* The history of what was dropped has its type: only the answer of an act changes it.
DroppedOK == dropped \in [Channels -> SUBSET Nat]

LEMMA DroppedGrows ==
    ASSUME Safe, DroppedOK, NEW i \in 1..Len(stream), ReceiveAct(i)
    PROVE  DroppedOK'
<1>1. PICK m : m = stream[i]
  OBVIOUS
<1>2. m.pts \in Nat
  BY <1>1, MessageIs DEF Safe
<1>3. \/ dropped' = dropped
      \/ m.box \in Channels /\ dropped' = [dropped EXCEPT ![m.box] = @ \cup {m.pts}]
  BY <1>1 DEF ReceiveAct, FeedSkips
<1>. QED
  BY <1>2, <1>3 DEF DroppedOK

LEMMA DroppedStep == ASSUME Safe, DroppedOK, [Next]_vars PROVE DroppedOK'
<1>1. CASE UNCHANGED dropped
  BY <1>1 DEF DroppedOK
<1>2. CASE Timers
  BY <1>1, <1>2 DEF Timers, TimeMinChannel, TimeByPts, TimeAfterFail, history
<1>3. CASE Receive
  <2>1. ASSUME NEW i \in 1..Len(stream), ReceiveDifference(i) \/ ReceiveFail(i) PROVE DroppedOK'
    BY <1>1, <2>1 DEF ReceiveDifference, ReceiveFail, history
  <2>2. CASE ReceivePush \/ ReceiveNotLoaded \/ ReceiveNewSession
    BY <1>1, <2>2 DEF ReceivePush, ReceiveNotLoaded, ReceiveNewSession, history
  <2>. QED
    BY <1>3, <2>1, <2>2, DroppedGrows DEF Receive
<1>4. CASE Answer
  BY <1>1, <1>4 DEF Answer, AnswerAct, AnswerDifference, RefuseDifference, history
<1>5. CASE \E b \in Boxes : \/ \E kind \in Acts : Act(kind, b)
                            \/ \E n \in 1..MaxCount : Produce(b, n) \/ ProduceAhead(b, n)
  BY <1>1, <1>5 DEF Act, Produce, ProduceAhead, history
<1>6. CASE \E n \in 0..Len(stream) : LoseSession(n)
  BY <1>1, <1>6 DEF LoseSession, history
<1>7. CASE UNCHANGED vars
  BY <1>1, <1>7 DEF vars, history
<1>. QED
  BY <1>2, <1>3, <1>4, <1>5, <1>6, <1>7 DEF Next

LEMMA SafeTypes == Safe /\ DroppedOK => TypeOK
<1>1. SUFFICES ASSUME Safe, DroppedOK PROVE TypeOK
  OBVIOUS
<1>2. Types
  BY <1>1 DEF Safe
<1>3. ASSUME NEW b \in Boxes
      PROVE  /\ waiter[b] \in Waiters /\ waiter[b].good <= waiter[b].last
             /\ \A u \in waiter[b].queue : u.pts <= waiter[b].last
             /\ log[b] \subseteq 1..MaxPts(b) /\ log[b] # {}
             /\ known[b] \subseteq 1..ServerPts(b) /\ own[b] \subseteq 1..ServerPts(b)
             /\ again[b] \subseteq known[b]
  <2>1. /\ BoxOK(waiter[b], known[b], log[b]) /\ again[b] \subseteq known[b]
        /\ LogIs(log[b], MaxPts(b)) /\ own[b] \subseteq log[b]
    BY <1>1 DEF Safe, LogsOK, BoxesOK
  <2>2. /\ ServerPts(b) = Top(log[b]) /\ ServerPts(b) \in Nat
        /\ \A q \in log[b] : q \in Nat /\ q >= 1 /\ q <= ServerPts(b)
    BY <1>1, ServerPtsIs
  <2>3. log[b] \subseteq 1..ServerPts(b)
    BY <2>2
  <2>. QED
    BY <2>1, <2>2, <2>3 DEF BoxOK, LogIs
<1>4. DOMAIN waiter = Boxes
  BY <1>2 DEF Types
<1>. QED
  BY <1>1, <1>2, <1>3, <1>4 DEF TypeOK, Types, DroppedOK

\* The state has the types of the model: a waiter counts no further than the last pts of
\* the server, and nothing is known that the server did not make.
THEOREM TypesAreRight == Spec => []TypeOK
<1>1. Init => DroppedOK
  BY DEF Init, DroppedOK
<1>2. Safe /\ DroppedOK /\ [Next]_vars => DroppedOK'
  BY DroppedStep
<1>. QED
  BY <1>1, <1>2, AlwaysSafe, SafeTypes, PTL DEF Spec

\* What a waiter counts as good has come to the client, whatever is lost and overtaken.
THEOREM NothingIsSkipped == Spec => []NothingSkipped
<1>1. Safe => NothingSkipped
  BY DEF Safe, BoxesOK, BoxOK, NothingSkipped
<1>. QED
  BY <1>1, AlwaysSafe, PTL

\* Updates of the account are applied once, and somebody else's in their order.
THEOREM AppliedRight == Spec => []AppliedOnceInOrder
<1>1. Safe => AppliedOnceInOrder
  <2>1. SUFFICES ASSUME Safe PROVE AppliedInOrder /\ AppliedOnce
    BY DEF AppliedOnceInOrder
  <2>2. AppliedOnce
    BY <2>1 DEF Safe, MainOK
  <2>3. ASSUME NEW p \in known[Main] \ own[Main], NEW q \in 1..p
        PROVE  q \in known[Main]
    <3>1. Main \in Boxes
      BY BoxesAreFinite
    <3>2. p \in 1..waiter[Main].good /\ 1..waiter[Main].good \subseteq known[Main]
      BY <2>1, <2>3, <3>1 DEF Safe, MainOK, BoxesOK, BoxOK
    <3>3. waiter[Main].good \in Nat
      BY <2>1, <3>1 DEF Safe, Types, Waiters
    <3>. QED
      BY <3>2, <3>3
  <2>. QED
    BY <2>2, <2>3 DEF AppliedInOrder
<1>. QED
  BY <1>1, AlwaysSafe, PTL

=============================================================================
