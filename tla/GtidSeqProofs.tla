---------------------------- MODULE GtidSeqProofs ----------------------------
(***************************************************************************)
(* Proofs about GtidSeq, for all uuids, bounds, segment spans and cell     *)
(* counts.                                                                 *)
(***************************************************************************)
EXTENDS GtidSeq, SequenceTheorems, WellFoundedInduction, TLAPS

----------------------------------------------------------------------------
(* Numbers, and functions defined by recursion on them.                    *)

\* A nonempty set of numbers has a least member.
LEMMA LeastExists ==
  ASSUME NEW S \in SUBSET Nat, S # {}
  PROVE  \E n \in S : \A k \in S : n <= k
<1>1. PICK n \in S : \A k \in S : ~(<<k, n>> \in OpToRel(<, Nat))
  BY NatLessThanWellFounded, WFMin
<1>2. ASSUME NEW k \in S PROVE n <= k
  <2>1. ~(k < n)
    BY <1>1 DEF OpToRel
  <2> QED BY <2>1
<1> QED BY <1>2

\* One with a bound has a greatest.
LEMMA GreatestExists ==
  ASSUME NEW b \in Nat, NEW S \in SUBSET (0..b), S # {}
  PROVE  \E n \in S : \A k \in S : k <= n
<1> DEFINE R == {b - n : n \in S}
<1>1. R \in SUBSET Nat
  OBVIOUS
<1>2. R # {}
  OBVIOUS
<1>3. \E m \in R : \A k \in R : m <= k
  <2> HIDE DEF R
  <2> QED BY <1>1, <1>2, LeastExists
<1>4. PICK n \in S : \A k \in S : b - n <= b - k
  BY <1>3
<1> QED BY <1>4

\* Induction up to n, over the members of a set.
LEMMA UpTo ==
  ASSUME NEW n \in Nat, NEW T, 0 \in T, \A k \in 1..n : k - 1 \in T => k \in T
  PROVE  \A k \in 0..n : k \in T
<1> DEFINE Out == {k \in 0..n : k \notin T}
<1> SUFFICES ASSUME Out # {} PROVE FALSE
  OBVIOUS
<1>1. PICK k \in Out : \A j \in Out : k <= j
  <2>1. Out \in SUBSET Nat
    OBVIOUS
  <2> HIDE DEF Out
  <2> QED BY <2>1, LeastExists
<1>2. k \in 1..n
  BY <1>1
<1>3. k - 1 \in 0..n
  BY <1>2
<1>4. k - 1 \notin Out
  BY <1>1, <1>2
<1> QED BY <1>1, <1>2, <1>3, <1>4

\* f[k] is what k steps make of init.
Steps(n, S) == [S \X (1..n) -> S]
Iterates(f, n, S, init, step) ==
    f \in [0..n -> S] /\ f[0] = init /\ \A k \in 1..n : f[k] = step[<<f[k - 1], k>>]

\* A recursion over 1..n defines a function.
LEMMA RecursionExists ==
  ASSUME NEW n \in Nat, NEW S, NEW init \in S, NEW step \in Steps(n, S)
  PROVE  \E f : Iterates(f, n, S, init, step)
<1> USE DEF Steps
<1> DEFINE T == {m \in 0..n : \E f \in [0..n -> S] :
                   f[0] = init /\ \A k \in 1..m : f[k] = step[<<f[k - 1], k>>]}
<1>1. 0 \in T
  <2> DEFINE c == [k \in 0..n |-> init]
  <2>1. c \in [0..n -> S] /\ c[0] = init /\ 0 \in 0..n /\ 1..0 = {}
    OBVIOUS
  <2> HIDE DEF c
  <2> QED BY <2>1
<1>2. ASSUME NEW m \in 1..n, m - 1 \in T PROVE m \in T
  <2>1. PICK f \in [0..n -> S] :
           f[0] = init /\ \A k \in 1..(m - 1) : f[k] = step[<<f[k - 1], k>>]
    BY <1>2
  <2> DEFINE g == [f EXCEPT ![m] = step[<<f[m - 1], m>>]]
  <2>2. f[m - 1] \in S
    OBVIOUS
  <2>3. step[<<f[m - 1], m>>] \in S
    BY <2>2
  <2>4. g \in [0..n -> S]
    BY <2>3
  <2>5. \A k \in 0..n : g[k] = IF k = m THEN step[<<f[m - 1], m>>] ELSE f[k]
    OBVIOUS
  <2> HIDE DEF g
  <2>6. ASSUME NEW k \in 1..m PROVE g[k] = step[<<g[k - 1], k>>]
    <3>1. k \in 0..n /\ k - 1 \in 0..n /\ k - 1 # m
      OBVIOUS
    <3>2. g[k - 1] = f[k - 1]
      BY <2>5, <3>1
    <3>3. CASE k = m
      BY <2>5, <3>1, <3>2, <3>3
    <3>4. CASE k # m
      <4>1. k \in 1..(m - 1)
        BY <3>4
      <4> QED BY <2>1, <2>5, <3>1, <3>2, <3>4, <4>1
    <3> QED BY <3>3, <3>4
  <2>7. g[0] = init
    BY <2>1, <2>5
  <2>8. m \in 0..n
    OBVIOUS
  <2> QED BY <2>4, <2>6, <2>7, <2>8
<1>3. \A k \in 1..n : k - 1 \in T => k \in T
  BY <1>2
<1>4. \A k \in 0..n : k \in T
  <2> HIDE DEF T
  <2> QED BY <1>1, <1>3, UpTo
<1>5. n \in T
  <2> HIDE DEF T
  <2> QED BY <1>4
<1> QED BY <1>5 DEF Iterates

\* What is below the modulus is not changed.
LEMMA ModSmall ==
  ASSUME NEW a \in Nat, NEW b \in Nat, a < b
  PROVE  a % b = a
BY SMT

----------------------------------------------------------------------------
(* Sums of capacities.                                                     *)

\* f[k] is the sum of the first k capacities.
IsSum(s, f) == f \in [0..Len(s) -> Nat] /\ f[0] = 0 /\ \A k \in 1..Len(s) : f[k] = f[k - 1] + s[k]

LEMMA SumIs ==
  ASSUME NEW s \in Seq(Nat)
  PROVE  \E f : IsSum(s, f) /\ SumOfCapacities(s) = f[Len(s)]
<1> DEFINE step == [x \in Nat \X (1..Len(s)) |-> x[1] + s[x[2]]]
           Fix(f) == f = [k \in 0..Len(s) |-> IF k = 0 THEN 0 ELSE f[k - 1] + s[k]]
<1>1. Len(s) \in Nat
  OBVIOUS
<1>2. \A k \in 1..Len(s) : s[k] \in Nat
  OBVIOUS
<1>3. step \in [Nat \X (1..Len(s)) -> Nat]
  BY <1>2
<1>4. \A a \in Nat, k \in 1..Len(s) : step[<<a, k>>] = a + s[k]
  OBVIOUS
<1> HIDE DEF step
<1>5. PICK g : Iterates(g, Len(s), Nat, 0, step)
  <2>1. 0 \in Nat /\ step \in Steps(Len(s), Nat)
    BY <1>3 DEF Steps
  <2> QED BY <1>1, <2>1, RecursionExists
<1>6. ASSUME NEW k \in 1..Len(s) PROVE g[k] = g[k - 1] + s[k]
  <2>1. k - 1 \in 0..Len(s)
    BY <1>1
  <2>2. g[k - 1] \in Nat
    BY <1>5, <2>1 DEF Iterates
  <2> QED BY <1>4, <1>5, <2>2 DEF Iterates
<1>7. g = [k \in 0..Len(s) |-> g[k]]
  BY <1>5 DEF Iterates
<1>8. \A k \in 0..Len(s) : g[k] = IF k = 0 THEN 0 ELSE g[k - 1] + s[k]
  BY <1>1, <1>5, <1>6 DEF Iterates
<1>9. Fix(g)
  BY <1>7, <1>8, Zenon
<1> DEFINE f == CHOOSE f : Fix(f)
<1>10. Fix(f)
  BY <1>9, Zenon
<1>11. SumOfCapacities(s) = f[Len(s)]
  BY DEF SumOfCapacities
<1> HIDE DEF f
<1>12. f[0] = 0
  BY <1>10, <1>1
<1>13. ASSUME NEW k \in 1..Len(s) PROVE f[k] = f[k - 1] + s[k]
  <2>1. k \in 0..Len(s) /\ k # 0
    BY <1>1
  <2> QED BY <1>10, <2>1
<1>14. \A k \in 0..Len(s) : f[k] \in Nat
  <2> DEFINE T == {k \in 0..Len(s) : f[k] \in Nat}
  <2>1. 0 \in T
    BY <1>12, <1>1
  <2>2. \A k \in 1..Len(s) : k - 1 \in T => k \in T
    BY <1>13, <1>1, <1>2
  <2>3. \A k \in 0..Len(s) : k \in T
    <3> HIDE DEF T
    <3> QED BY <2>1, <2>2, <1>1, UpTo
  <2> QED BY <2>3
<1>15. f \in [0..Len(s) -> Nat]
  <2>1. f = [k \in 0..Len(s) |-> IF k = 0 THEN 0 ELSE f[k - 1] + s[k]]
    BY <1>10
  <2>2. DOMAIN f = 0..Len(s) /\ f = [k \in DOMAIN f |-> f[k]]
    BY <2>1
  <2> QED BY <2>2, <1>14
<1> QED BY <1>11, <1>12, <1>13, <1>15 DEF IsSum

LEMMA SumCells ==
  ASSUME NEW s \in Seq(Nat), NEW f, IsSum(s, f)
  PROVE  /\ Len(s) \in Nat
         /\ f[0] = 0
         /\ \A k \in 0..Len(s) : f[k] \in Nat
         /\ \A k \in 1..Len(s) : f[k] = f[k - 1] + s[k] /\ s[k] \in Nat
<1>1. Len(s) \in Nat
  OBVIOUS
<1>2. \A k \in 0..Len(s) : f[k] \in Nat
  BY DEF IsSum
<1>3. \A k \in 1..Len(s) : s[k] \in Nat
  OBVIOUS
<1> QED BY <1>1, <1>2, <1>3 DEF IsSum

\* Sums with the same terms are the same so far.
LEMMA SameSums ==
  ASSUME NEW s \in Seq(Nat), NEW t \in Seq(Nat), NEW f, NEW g, IsSum(s, f), IsSum(t, g),
         Len(s) <= Len(t), \A k \in 1..Len(s) : s[k] = t[k]
  PROVE  f[Len(s)] = g[Len(s)]
<1> DEFINE T == {k \in 0..Len(s) : f[k] = g[k]}
<1>0. Len(s) \in Nat
  OBVIOUS
<1>1. 0 \in T
  BY DEF IsSum
<1>2. ASSUME NEW k \in 1..Len(s), k - 1 \in T PROVE k \in T
  <2>1. k \in 1..Len(s) /\ k \in 1..Len(t)
    BY <1>0
  <2>2. f[k] = f[k - 1] + s[k] /\ g[k] = g[k - 1] + t[k] /\ s[k] = t[k] /\ f[k - 1] = g[k - 1]
    BY <1>2, <2>1 DEF IsSum
  <2> QED BY <2>2
<1>3. \A k \in 0..Len(s) : k \in T
  <2> HIDE DEF T
  <2> QED BY <1>0, <1>1, <1>2, UpTo
<1> QED BY <1>0, <1>3

LEMMA SumType ==
  ASSUME NEW s \in Seq(Nat)
  PROVE  SumOfCapacities(s) \in Nat
<1>1. PICK f : IsSum(s, f) /\ SumOfCapacities(s) = f[Len(s)]
  BY SumIs
<1>2. Len(s) \in 0..Len(s) /\ \A k \in 0..Len(s) : f[k] \in Nat
  BY <1>1, SumCells
<1> QED BY <1>1, <1>2

LEMMA SumEmpty == SumOfCapacities(<< >>) = 0
<1>1. << >> \in Seq(Nat) /\ Len(<< >>) = 0
  OBVIOUS
<1> QED BY <1>1, SumIs DEF IsSum

\* One more term at the end.
LEMMA SumLast ==
  ASSUME NEW s \in Seq(Nat), NEW t \in Seq(Nat), Len(t) = Len(s) + 1,
         \A k \in 1..Len(s) : t[k] = s[k]
  PROVE  SumOfCapacities(t) = SumOfCapacities(s) + t[Len(t)]
<1>1. PICK f : IsSum(s, f) /\ SumOfCapacities(s) = f[Len(s)]
  BY SumIs
<1>2. PICK g : IsSum(t, g) /\ SumOfCapacities(t) = g[Len(t)]
  BY SumIs
<1>3. Len(s) \in Nat
  OBVIOUS
<1>4. f[Len(s)] = g[Len(s)]
  <2>1. Len(s) <= Len(t)
    BY <1>3
  <2> QED BY <1>1, <1>2, <2>1, SameSums
<1>5. g[Len(t)] = g[Len(t) - 1] + t[Len(t)]
  <2>1. Len(t) \in 1..Len(t)
    BY <1>3
  <2> QED BY <1>2, <2>1 DEF IsSum
<1>6. Len(t) - 1 = Len(s)
  BY <1>3
<1> QED BY <1>1, <1>2, <1>4, <1>5, <1>6

\* One more term in front.
LEMMA SumFirst ==
  ASSUME NEW s \in Seq(Nat), NEW t \in Seq(Nat), Len(t) = Len(s) + 1,
         \A k \in 1..Len(s) : t[k + 1] = s[k]
  PROVE  SumOfCapacities(t) = t[1] + SumOfCapacities(s)
<1>1. PICK f : IsSum(s, f) /\ SumOfCapacities(s) = f[Len(s)]
  BY SumIs
<1>2. PICK g : IsSum(t, g) /\ SumOfCapacities(t) = g[Len(t)]
  BY SumIs
<1>3. Len(s) \in Nat
  OBVIOUS
<1>4. t[1] \in Nat
  BY <1>3
<1> DEFINE T == {k \in 0..Len(s) : g[k + 1] = t[1] + f[k]}
<1>5. 0 \in T
  <2>1. g[1] = g[0] + t[1]
    <3>1. 1 \in 1..Len(t)
      BY <1>3
    <3> QED BY <1>2, <3>1, SumCells
  <2>2. f[0] = 0 /\ g[0] = 0
    BY <1>1, <1>2, SumCells
  <2> QED BY <2>1, <2>2, <1>3, <1>4
<1>6. ASSUME NEW k \in 1..Len(s), k - 1 \in T PROVE k \in T
  <2>1. k + 1 \in 1..Len(t) /\ (k + 1) - 1 = k
    BY <1>3
  <2>2. g[k + 1] = g[k] + t[k + 1]
    BY <1>2, <2>1 DEF IsSum
  <2>3. f[k] = f[k - 1] + s[k] /\ s[k] \in Nat
    BY <1>1, SumCells
  <2>4. f[k - 1] \in Nat
    BY <1>1, <1>3, SumCells
  <2>5. g[k] = t[1] + f[k - 1]
    BY <1>6
  <2>6. t[k + 1] = s[k]
    OBVIOUS
  <2>7. g[k + 1] = (t[1] + f[k - 1]) + s[k]
    BY <2>2, <2>5, <2>6
  <2>8. g[k + 1] = t[1] + f[k]
    <3>1. \A a, b, c \in Nat : (a + b) + c = a + (b + c)
      OBVIOUS
    <3>2. (t[1] + f[k - 1]) + s[k] = t[1] + (f[k - 1] + s[k])
      BY <1>4, <2>3, <2>4, <3>1, Zenon
    <3> QED BY <2>3, <2>7, <3>2, Zenon
  <2> QED BY <2>8, <1>3
<1>7. \A k \in 0..Len(s) : k \in T
  <2> HIDE DEF T
  <2> QED BY <1>3, <1>5, <1>6, UpTo
<1>8. g[Len(s) + 1] = t[1] + f[Len(s)]
  BY <1>3, <1>7
<1> QED BY <1>1, <1>2, <1>8

----------------------------------------------------------------------------
(* The pool.                                                               *)

\* The counters are right for a pool and the capacities of the segments in use,
\* and no free segment is without cells.
PoolFits(p, caps) ==
    /\ p \in [free : Seq(Nat), nsegment : Nat, nfreeseg : Nat,
              nsegment_deltas : Nat, nfreeseg_deltas : Nat]
    /\ p.nsegment = Len(caps)
    /\ p.nfreeseg = Len(p.free)
    /\ p.nsegment_deltas = SumOfCapacities(caps)
    /\ p.nfreeseg_deltas = SumOfCapacities(p.free)
    /\ \A i \in 1..Len(p.free) : p.free[i] > 0

\* The loop body of gtidSeqTrim.
Dropped(p, cap) ==
    LET q == [p EXCEPT !.nsegment = @ - 1, !.nsegment_deltas = @ - cap]
    IN  IF q.nsegment > q.nfreeseg
        THEN [q EXCEPT !.free = <<cap>> \o @, !.nfreeseg = @ + 1,
                       !.nfreeseg_deltas = @ + cap]
        ELSE q

\* Pools on the way.
Counters == [free : Seq(Nat), nsegment : Int, nfreeseg : Int,
             nsegment_deltas : Int, nfreeseg_deltas : Int]

LEMMA DroppedIs ==
  ASSUME NEW p \in Counters, NEW cap \in Nat
  PROVE  LET d == Dropped(p, cap)
         IN  /\ d \in Counters
             /\ d.nsegment = p.nsegment - 1
             /\ d.nsegment_deltas = p.nsegment_deltas - cap
             /\ p.nsegment - 1 > p.nfreeseg =>
                  /\ d.free = <<cap>> \o p.free
                  /\ d.nfreeseg = p.nfreeseg + 1
                  /\ d.nfreeseg_deltas = p.nfreeseg_deltas + cap
             /\ ~(p.nsegment - 1 > p.nfreeseg) =>
                  /\ d.free = p.free
                  /\ d.nfreeseg = p.nfreeseg
                  /\ d.nfreeseg_deltas = p.nfreeseg_deltas
<1> DEFINE q == [p EXCEPT !.nsegment = @ - 1, !.nsegment_deltas = @ - cap]
<1>0. q \in Counters
  <2>1. p.nsegment - 1 \in Int /\ p.nsegment_deltas - cap \in Int
    BY DEF Counters
  <2>2. \A a \in Int, b \in Int : [p EXCEPT !.nsegment = a, !.nsegment_deltas = b] \in Counters
    BY DEF Counters
  <2> QED BY <2>1, <2>2
<1>1. /\ q \in Counters
      /\ q.nsegment = p.nsegment - 1 /\ q.nsegment_deltas = p.nsegment_deltas - cap
      /\ q.free = p.free /\ q.nfreeseg = p.nfreeseg /\ q.nfreeseg_deltas = p.nfreeseg_deltas
  <2>1. q.nsegment = p.nsegment - 1
    BY DEF Counters
  <2>2. q.nsegment_deltas = p.nsegment_deltas - cap
    BY DEF Counters
  <2>3. q.free = p.free /\ q.nfreeseg = p.nfreeseg /\ q.nfreeseg_deltas = p.nfreeseg_deltas
    BY DEF Counters
  <2> HIDE DEF q
  <2> QED BY <1>0, <2>1, <2>2, <2>3
<1>2. Dropped(p, cap) = IF q.nsegment > q.nfreeseg
                        THEN [q EXCEPT !.free = <<cap>> \o @, !.nfreeseg = @ + 1,
                                       !.nfreeseg_deltas = @ + cap]
                        ELSE q
  BY DEF Dropped
<1>3. <<cap>> \o q.free \in Seq(Nat)
  BY <1>1 DEF Counters
<1> HIDE DEF q
<1>4. CASE q.nsegment > q.nfreeseg
  <2> DEFINE d == [q EXCEPT !.free = <<cap>> \o @, !.nfreeseg = @ + 1,
                            !.nfreeseg_deltas = @ + cap]
  <2>a. d.free = <<cap>> \o q.free
    BY <1>1 DEF Counters
  <2>b. d.nsegment = q.nsegment /\ d.nsegment_deltas = q.nsegment_deltas
    BY <1>1 DEF Counters
  <2>c. d.nfreeseg = q.nfreeseg + 1
    BY <1>1 DEF Counters
  <2>d. d.nfreeseg_deltas = q.nfreeseg_deltas + cap
    BY <1>1 DEF Counters
  <2>2. d \in Counters
    <3>1. q.nfreeseg + 1 \in Int /\ q.nfreeseg_deltas + cap \in Int
      BY <1>1 DEF Counters
    <3>2. \A f \in Seq(Nat), a \in Int, b \in Int :
             [q EXCEPT !.free = f, !.nfreeseg = a, !.nfreeseg_deltas = b] \in Counters
      BY <1>1 DEF Counters
    <3> QED BY <1>3, <3>1, <3>2
  <2> HIDE DEF d
  <2>3. Dropped(p, cap) = d
    BY <1>2, <1>4 DEF d
  <2> QED BY <1>1, <1>4, <2>a, <2>b, <2>c, <2>d, <2>2, <2>3
<1>5. CASE ~(q.nsegment > q.nfreeseg)
  BY <1>1, <1>2, <1>5
<1> QED BY <1>4, <1>5

\* One segment is dropped: the counters stay right, and the cache grows only
\* while it is smaller than what is in use.
LEMMA DroppedFits ==
  ASSUME NEW caps \in Seq(Nat), NEW p, PoolFits(p, caps), caps # << >>, Head(caps) > 0
  PROVE  /\ PoolFits(Dropped(p, Head(caps)), Tail(caps))
         /\ LET d == Dropped(p, Head(caps))
            IN  d.nfreeseg = p.nfreeseg \/ d.nfreeseg <= p.nsegment
<1> DEFINE cap == Head(caps)
           rest == Tail(caps)
           d == Dropped(p, cap)
<1>1. cap \in Nat /\ rest \in Seq(Nat) /\ Len(caps) = Len(rest) + 1 /\ cap = caps[1]
  OBVIOUS
<1>2. \A k \in 1..Len(rest) : caps[k + 1] = rest[k]
  OBVIOUS
<1>3. SumOfCapacities(caps) = cap + SumOfCapacities(rest)
  <2> HIDE DEF cap, rest
  <2> QED BY <1>1, <1>2, SumFirst
<1>4. SumOfCapacities(rest) \in Nat /\ Len(rest) \in Nat
  <2>1. Len(rest) \in Nat
    BY <1>1
  <2> HIDE DEF rest
  <2> QED BY <1>1, <2>1, SumType
<1>5. /\ p \in Counters /\ p.free \in Seq(Nat)
      /\ p.nsegment \in Nat /\ p.nfreeseg \in Nat /\ p.nfreeseg_deltas \in Nat
  BY DEF PoolFits, Counters
<1>6. /\ p.nsegment = Len(caps) /\ p.nfreeseg = Len(p.free)
      /\ p.nsegment_deltas = SumOfCapacities(caps)
      /\ p.nfreeseg_deltas = SumOfCapacities(p.free)
      /\ \A i \in 1..Len(p.free) : p.free[i] > 0
  BY DEF PoolFits
<1> DEFINE longer == <<cap>> \o p.free
<1>7. /\ longer \in Seq(Nat) /\ Len(longer) = Len(p.free) + 1 /\ longer[1] = cap
      /\ \A k \in 1..Len(p.free) : longer[k + 1] = p.free[k]
  BY <1>1, <1>5
<1>8. SumOfCapacities(longer) = cap + SumOfCapacities(p.free)
  <2> HIDE DEF longer
  <2> QED BY <1>5, <1>7, SumFirst
<1>9. \A i \in 1..Len(longer) : longer[i] > 0
  <2> SUFFICES ASSUME NEW i \in 1..Len(longer) PROVE longer[i] > 0
    OBVIOUS
  <2>1. Len(p.free) \in Nat
    BY <1>5
  <2>2. CASE i = 1
    BY <1>7, <2>2
  <2>3. CASE i # 1
    <3> HIDE DEF longer
    <3>1. i - 1 \in 1..Len(p.free) /\ (i - 1) + 1 = i
      <4>1. i \in 1..(Len(p.free) + 1)
        BY <1>7
      <4> QED BY <2>1, <2>3, <4>1
    <3>2. longer[(i - 1) + 1] = p.free[i - 1]
      BY <1>7, <3>1
    <3> QED BY <1>6, <3>1, <3>2
  <2> QED BY <2>2, <2>3
<1> HIDE DEF longer, cap, rest
<1>10. /\ d \in Counters
       /\ d.nsegment = p.nsegment - 1
       /\ d.nsegment_deltas = p.nsegment_deltas - cap
       /\ p.nsegment - 1 > p.nfreeseg =>
            /\ d.free = longer
            /\ d.nfreeseg = p.nfreeseg + 1
            /\ d.nfreeseg_deltas = p.nfreeseg_deltas + cap
       /\ ~(p.nsegment - 1 > p.nfreeseg) =>
            /\ d.free = p.free
            /\ d.nfreeseg = p.nfreeseg
            /\ d.nfreeseg_deltas = p.nfreeseg_deltas
  BY <1>1, <1>5, DroppedIs DEF longer
<1> HIDE DEF d
<1>11. d.nsegment = Len(rest) /\ d.nsegment_deltas = SumOfCapacities(rest)
  BY <1>1, <1>3, <1>4, <1>6, <1>10
<1>12. /\ d.nfreeseg = Len(d.free) /\ d.nfreeseg \in Nat
       /\ \A i \in 1..Len(d.free) : d.free[i] > 0
       /\ d.nfreeseg = p.nfreeseg \/ d.nfreeseg <= p.nsegment
  <2>1. CASE p.nsegment - 1 > p.nfreeseg
    <3>1. d.free = longer /\ d.nfreeseg = p.nfreeseg + 1
      BY <1>10, <2>1
    <3>2. d.nfreeseg = Len(longer) /\ d.nfreeseg <= p.nsegment /\ d.nfreeseg \in Nat
      BY <1>5, <1>6, <1>7, <2>1, <3>1
    <3> QED BY <1>9, <3>1, <3>2
  <2>2. CASE ~(p.nsegment - 1 > p.nfreeseg)
    BY <1>5, <1>6, <1>10, <2>2
  <2> QED BY <2>1, <2>2
<1>13. d.nfreeseg_deltas = SumOfCapacities(d.free) /\ d.nfreeseg_deltas \in Nat
  <2>1. CASE p.nsegment - 1 > p.nfreeseg
    <3>1. d.free = longer /\ d.nfreeseg_deltas = p.nfreeseg_deltas + cap
      BY <1>10, <2>1
    <3>2. SumOfCapacities(d.free) = cap + p.nfreeseg_deltas
      BY <1>6, <1>8, <3>1
    <3> QED BY <1>1, <1>5, <3>1, <3>2
  <2>2. CASE ~(p.nsegment - 1 > p.nfreeseg)
    BY <1>5, <1>6, <1>10, <2>2
  <2> QED BY <2>1, <2>2
<1>14. d \in [free : Seq(Nat), nsegment : Nat, nfreeseg : Nat,
              nsegment_deltas : Nat, nfreeseg_deltas : Nat]
  BY <1>4, <1>10, <1>11, <1>12, <1>13 DEF Counters
<1>15. PoolFits(d, rest)
  BY <1>11, <1>12, <1>13, <1>14 DEF PoolFits
<1> QED BY <1>12, <1>15 DEF d, rest, cap

----------------------------------------------------------------------------
(* The invariant.                                                          *)

\* A segment is well formed, and its cells are far enough apart for one byte
\* per command.
GoodSegment(seg) ==
    /\ seg \in Segment
    /\ seg.tgno < ngno(seg)
    /\ ngno(seg) <= seg.capacity
    /\ seg.deltas[1] = 0
    /\ \A i, j \in 1..ngno(seg) : i < j => seg.deltas[i] < seg.deltas[j]
    /\ \A i \in 1..ngno(seg) : i - 1 <= seg.deltas[i]

Caps(s) == [k \in 1..Len(s) |-> s[k].capacity]

IInv ==
    /\ segs \in Seq(Segment)
    /\ next \in 1..(MaxOffset + 1)
    /\ \A k \in 1..Len(segs) : GoodSegment(segs[k])
    /\ SegmentsOrdered
    /\ PoolFits(pool, Caps(segs))

\* The capacities are positive numbers.
LEMMA CapsType ==
  ASSUME IInv
  PROVE  /\ Caps(segs) \in Seq(Nat) /\ Len(Caps(segs)) = Len(segs) /\ Len(segs) \in Nat
         /\ \A k \in 1..Len(segs) : Caps(segs)[k] = segs[k].capacity /\ segs[k].capacity \in Nat \ {0}
<1>1. Len(segs) \in Nat
  BY DEF IInv
<1>2. ASSUME NEW k \in 1..Len(segs) PROVE segs[k].capacity \in Nat \ {0}
  <2>1. GoodSegment(segs[k])
    BY DEF IInv
  <2>2. segs[k].capacity \in Nat /\ segs[k].tgno \in Nat /\ segs[k].deltas \in Seq(0..SegoffMax)
    BY <2>1 DEF GoodSegment, Segment
  <2> QED BY <2>1, <2>2 DEF GoodSegment, ngno
<1>3. Caps(segs) \in [1..Len(segs) -> Nat]
  BY <1>2 DEF Caps
<1>4. Caps(segs) \in Seq(Nat) /\ Len(Caps(segs)) = Len(segs)
  BY <1>1, <1>3
<1> QED BY <1>1, <1>2, <1>4 DEF Caps

\* The loop of gtidSeqTrim: after n segments the counters are right for the
\* rest, and the pool has not grown past what was in use.
LEMMA PoolTrim ==
  ASSUME IInv, NEW n \in 0..Len(segs)
  PROVE  /\ PoolFits(PoolAfterTrim(n), SubSeq(Caps(segs), n + 1, Len(segs)))
         /\ LET p == PoolAfterTrim(n)
            IN  p.nfreeseg > pool.nfreeseg => p.nfreeseg <= pool.nsegment
<1> DEFINE c == Caps(segs)
           N == Len(segs)
           Rest(k) == SubSeq(c, k + 1, N)
           Fix(f) == f = [k \in 0..n |-> IF k = 0 THEN pool
                                         ELSE Dropped(f[k - 1], segs[k].capacity)]
           step == [x \in Counters \X (1..n) |-> Dropped(x[1], segs[x[2]].capacity)]
<1>1. /\ c \in Seq(Nat) /\ Len(c) = N /\ N \in Nat
      /\ \A k \in 1..N : c[k] = segs[k].capacity /\ segs[k].capacity \in Nat \ {0}
  BY CapsType
<1>2. pool \in Counters /\ PoolFits(pool, c)
  BY DEF IInv, PoolFits, Counters
<1> HIDE DEF c, N
<1>3. n \in Nat /\ \A k \in 1..n : k \in 1..N
  BY <1>1 DEF N
<1>4. ASSUME NEW p \in Counters, NEW k \in 1..n
      PROVE  Dropped(p, segs[k].capacity) \in Counters
  <2>1. segs[k].capacity \in Nat
    BY <1>1, <1>3
  <2> QED BY <2>1, DroppedIs
<1>5. step \in Steps(n, Counters)
  BY <1>4 DEF Steps
<1>6. \A p \in Counters, k \in 1..n : step[<<p, k>>] = Dropped(p, segs[k].capacity)
  OBVIOUS
<1> HIDE DEF step
<1>7. PICK g : Iterates(g, n, Counters, pool, step)
  BY <1>2, <1>3, <1>5, RecursionExists
<1>8. ASSUME NEW k \in 1..n PROVE g[k] = Dropped(g[k - 1], segs[k].capacity)
  <2>1. k - 1 \in 0..n
    BY <1>3
  <2>2. g[k - 1] \in Counters
    BY <1>7, <2>1 DEF Iterates
  <2> QED BY <1>6, <1>7, <2>2 DEF Iterates
<1>9. g = [k \in 0..n |-> g[k]]
  BY <1>7 DEF Iterates
<1>10. \A k \in 0..n : g[k] = IF k = 0 THEN pool ELSE Dropped(g[k - 1], segs[k].capacity)
  BY <1>3, <1>7, <1>8 DEF Iterates
<1>11. Fix(g)
  BY <1>9, <1>10, Zenon
<1> DEFINE f == CHOOSE f : Fix(f)
<1>12. Fix(f)
  BY <1>11, Zenon
<1>13. PoolAfterTrim(n) = f[n]
  BY DEF PoolAfterTrim, Dropped
<1> HIDE DEF f
<1>14. f[0] = pool
  BY <1>3, <1>12
<1>15. ASSUME NEW k \in 1..n PROVE f[k] = Dropped(f[k - 1], segs[k].capacity)
  <2>1. k \in 0..n /\ k # 0
    BY <1>3
  <2> QED BY <1>12, <2>1
<1> HIDE DEF Fix
<1> DEFINE Bounded(p) == p.nfreeseg > pool.nfreeseg => p.nfreeseg <= pool.nsegment
           T == {k \in 0..n : PoolFits(f[k], Rest(k)) /\ f[k].nsegment <= pool.nsegment /\ Bounded(f[k])}
<1>16. 0 \in T
  <2>1. Rest(0) = c
    <3>1. SubSeq(c, 1, Len(c)) = c
      BY <1>1, SubSeqFull
    <3> QED BY <1>1, <3>1
  <2> HIDE DEF Rest
  <2>2. pool.nfreeseg \in Nat /\ pool.nsegment \in Nat
    BY <1>2 DEF PoolFits
  <2> QED BY <1>2, <1>3, <1>14, <2>1, <2>2
<1>17. ASSUME NEW k \in 1..n, k - 1 \in T PROVE k \in T
  <2>1. PoolFits(f[k - 1], Rest(k - 1)) /\ f[k - 1].nsegment <= pool.nsegment /\ Bounded(f[k - 1])
    BY <1>17
  <2>2. k \in 1..N /\ k - 1 \in 0..n /\ k \in 0..n /\ (k - 1) + 1 = k
    BY <1>3
  <2>3. Rest(k - 1) = SubSeq(c, k, N)
    BY <2>2
  <2>4. /\ Head(SubSeq(c, k, N)) = c[k]
        /\ Tail(SubSeq(c, k, N)) = SubSeq(c, k + 1, N)
    <3>1. k \in 1..Len(c) /\ N \in k..Len(c)
      BY <1>1, <2>2
    <3> QED BY <1>1, <3>1, HeadTailOfSubSeq
  <2>5. SubSeq(c, k, N) \in Seq(Nat) /\ SubSeq(c, k, N) # << >>
    <3>1. \A i \in k..N : c[i] \in Nat
      BY <1>1, <2>2
    <3>2. SubSeq(c, k, N) \in Seq(Nat)
      BY <1>1, <2>2, <3>1, SubSeqProperties
    <3>3. Len(SubSeq(c, k, N)) = N - k + 1
      BY <1>1, <2>2, <3>1, SubSeqProperties
    <3>4. N - k + 1 > 0
      BY <1>1, <2>2
    <3>5. Len(SubSeq(c, k, N)) # 0
      BY <3>3, <3>4
    <3>6. Len(<< >>) = 0
      OBVIOUS
    <3> QED BY <3>2, <3>5, <3>6, Zenon
  <2>6. Head(SubSeq(c, k, N)) = segs[k].capacity /\ segs[k].capacity > 0
    BY <1>1, <2>2, <2>4
  <2>7. /\ PoolFits(f[k], Rest(k))
        /\ f[k].nfreeseg = f[k - 1].nfreeseg \/ f[k].nfreeseg <= f[k - 1].nsegment
    <3> DEFINE r == SubSeq(c, k, N)
    <3>1. r \in Seq(Nat) /\ r # << >> /\ Head(r) > 0 /\ PoolFits(f[k - 1], r)
      BY <2>1, <2>3, <2>5, <2>6
    <3>2. Tail(r) = Rest(k)
      BY <2>4
    <3> HIDE DEF r, Rest
    <3>3. /\ PoolFits(Dropped(f[k - 1], Head(r)), Tail(r))
          /\ LET d == Dropped(f[k - 1], Head(r))
             IN  d.nfreeseg = f[k - 1].nfreeseg \/ d.nfreeseg <= f[k - 1].nsegment
      BY <3>1, DroppedFits
    <3>4. f[k] = Dropped(f[k - 1], Head(r))
      BY <1>15, <2>6 DEF r
    <3> QED BY <3>2, <3>3, <3>4
  <2> HIDE DEF Rest
  <2>8. f[k].nsegment = f[k - 1].nsegment - 1
    <3>1. f[k - 1] \in Counters
      BY <2>1 DEF PoolFits, Counters
    <3>2. segs[k].capacity \in Nat
      BY <1>1, <2>2
    <3>3. Dropped(f[k - 1], segs[k].capacity).nsegment = f[k - 1].nsegment - 1
      BY <3>1, <3>2, DroppedIs
    <3> QED BY <1>15, <3>3
  <2>9. /\ f[k - 1].nsegment \in Nat /\ f[k - 1].nfreeseg \in Nat /\ f[k].nfreeseg \in Nat
        /\ pool.nsegment \in Nat /\ pool.nfreeseg \in Nat
    BY <1>2, <2>1, <2>7 DEF PoolFits
  <2>10. f[k].nsegment <= pool.nsegment /\ Bounded(f[k])
    <3>1. f[k].nsegment <= pool.nsegment /\ f[k - 1].nsegment <= pool.nsegment
      BY <2>1, <2>8, <2>9
    <3>2. CASE f[k].nfreeseg = f[k - 1].nfreeseg
      BY <2>1, <3>1, <3>2
    <3>3. CASE f[k].nfreeseg <= f[k - 1].nsegment
      BY <2>9, <3>1, <3>3
    <3> QED BY <2>7, <3>1, <3>2, <3>3
  <2> HIDE DEF Bounded
  <2> QED BY <2>2, <2>7, <2>10
<1>18. \A k \in 0..n : k \in T
  <2> HIDE DEF T
  <2> QED BY <1>3, <1>16, <1>17, UpTo
<1>19. n \in T
  <2> HIDE DEF T
  <2> QED BY <1>3, <1>18
<1>20. PoolFits(f[n], Rest(n)) /\ Bounded(f[n])
  <2> HIDE DEF Rest, Bounded
  <2> QED BY <1>19
<1> QED BY <1>13, <1>20 DEF c, N

----------------------------------------------------------------------------
(* gtidSeqAppend.                                                          *)

\* A segment more, with the cells of the free segment it takes or with new ones.
LEMMA PoolSwitch ==
  ASSUME IInv
  PROVE  /\ SwitchCapacity \in Nat \ {0}
         /\ PoolFits(PoolAfterSwitch, Append(Caps(segs), SwitchCapacity))
         /\ PoolAfterSwitch.nfreeseg <= pool.nfreeseg
<1> DEFINE c == Caps(segs)
           more == Append(c, SwitchCapacity)
           p == PoolAfterSwitch
<1>1. c \in Seq(Nat)
  BY CapsType
<1>2. /\ pool \in Counters /\ pool.free \in Seq(Nat)
      /\ pool.nsegment \in Nat /\ pool.nfreeseg \in Nat
      /\ pool.nsegment_deltas \in Nat /\ pool.nfreeseg_deltas \in Nat
      /\ pool.nsegment = Len(c) /\ pool.nfreeseg = Len(pool.free)
      /\ pool.nsegment_deltas = SumOfCapacities(c)
      /\ pool.nfreeseg_deltas = SumOfCapacities(pool.free)
      /\ \A i \in 1..Len(pool.free) : pool.free[i] > 0
  <2>1. PoolFits(pool, c)
    BY DEF IInv
  <2> HIDE DEF c
  <2>2. pool \in [free : Seq(Nat), nsegment : Nat, nfreeseg : Nat,
                  nsegment_deltas : Nat, nfreeseg_deltas : Nat]
    BY <2>1 DEF PoolFits
  <2>3. /\ pool.free \in Seq(Nat)
        /\ pool.nsegment \in Nat /\ pool.nfreeseg \in Nat
        /\ pool.nsegment_deltas \in Nat /\ pool.nfreeseg_deltas \in Nat
    BY <2>2
  <2>4. pool \in Counters
    BY <2>2 DEF Counters
  <2>5. /\ pool.nsegment = Len(c) /\ pool.nfreeseg = Len(pool.free)
        /\ pool.nsegment_deltas = SumOfCapacities(c)
        /\ pool.nfreeseg_deltas = SumOfCapacities(pool.free)
        /\ \A i \in 1..Len(pool.free) : pool.free[i] > 0
    BY <2>1 DEF PoolFits
  <2> QED BY <2>3, <2>4, <2>5
<1>3. pool.free # << >> =>
         /\ Head(pool.free) = pool.free[1] /\ 1 \in 1..Len(pool.free)
         /\ Tail(pool.free) \in Seq(Nat) /\ Len(pool.free) = Len(Tail(pool.free)) + 1
         /\ \A k \in 1..Len(Tail(pool.free)) : pool.free[k + 1] = Tail(pool.free)[k]
  BY <1>2
<1>4. SwitchCapacity \in Nat \ {0}
  <2>1. CASE pool.free = << >>
    BY <2>1, SizesAssumption DEF SwitchCapacity
  <2>2. CASE pool.free # << >>
    <3>1. pool.free[1] \in Nat /\ pool.free[1] > 0
      BY <1>2, <1>3, <2>2
    <3> QED BY <1>3, <2>2, <3>1 DEF SwitchCapacity
  <2> QED BY <2>1, <2>2
<1> HIDE DEF c
<1>5. /\ more \in Seq(Nat) /\ Len(more) = Len(c) + 1 /\ more[Len(more)] = SwitchCapacity
      /\ \A k \in 1..Len(c) : more[k] = c[k]
  BY <1>1, <1>4
<1>6. SumOfCapacities(more) = SumOfCapacities(c) + SwitchCapacity
  <2> HIDE DEF more
  <2> QED BY <1>1, <1>5, SumLast
<1>7. CASE pool.free = << >>
  <2>1. p = [free |-> << >>, nsegment |-> pool.nsegment + 1, nfreeseg |-> pool.nfreeseg,
             nsegment_deltas |-> pool.nsegment_deltas + SwitchCapacity,
             nfreeseg_deltas |-> pool.nfreeseg_deltas]
    BY <1>7 DEF PoolAfterSwitch
  <2> HIDE DEF p, more
  <2>2. << >> \in Seq(Nat)
    OBVIOUS
  <2>3. p \in [free : Seq(Nat), nsegment : Nat, nfreeseg : Nat,
               nsegment_deltas : Nat, nfreeseg_deltas : Nat]
    BY <1>2, <1>4, <2>1, <2>2
  <2>4. PoolFits(p, more)
    BY <1>2, <1>5, <1>6, <1>7, <2>1, <2>3 DEF PoolFits
  <2> QED BY <1>2, <1>4, <2>1, <2>4 DEF p, more, c
<1>8. CASE pool.free # << >>
  <2> DEFINE t == Tail(pool.free)
  <2>1. p = [free |-> t, nsegment |-> pool.nsegment + 1, nfreeseg |-> pool.nfreeseg - 1,
             nsegment_deltas |-> pool.nsegment_deltas + SwitchCapacity,
             nfreeseg_deltas |-> pool.nfreeseg_deltas - SwitchCapacity]
    BY <1>8 DEF PoolAfterSwitch
  <2>2. SwitchCapacity = pool.free[1]
    BY <1>3, <1>8 DEF SwitchCapacity
  <2>3. /\ t \in Seq(Nat) /\ Len(pool.free) = Len(t) + 1
        /\ \A k \in 1..Len(t) : pool.free[k + 1] = t[k]
    BY <1>3, <1>8
  <2> HIDE DEF p, more, t
  <2>4. SumOfCapacities(pool.free) = SwitchCapacity + SumOfCapacities(t)
    BY <1>2, <2>2, <2>3, SumFirst
  <2>5. SumOfCapacities(t) \in Nat /\ Len(t) \in Nat
    BY <2>3, SumType
  <2>6. pool.nfreeseg - 1 = Len(t) /\ pool.nfreeseg_deltas - SwitchCapacity = SumOfCapacities(t)
    BY <1>2, <1>4, <2>3, <2>4, <2>5
  <2>7. \A i \in 1..Len(t) : t[i] > 0
    <3> SUFFICES ASSUME NEW i \in 1..Len(t) PROVE t[i] > 0
      OBVIOUS
    <3>1. i + 1 \in 1..Len(pool.free)
      BY <2>3, <2>5
    <3> QED BY <1>2, <2>3, <3>1
  <2>8. p \in [free : Seq(Nat), nsegment : Nat, nfreeseg : Nat,
               nsegment_deltas : Nat, nfreeseg_deltas : Nat]
    BY <1>2, <1>4, <2>1, <2>3, <2>5, <2>6
  <2>9. PoolFits(p, more)
    BY <1>2, <1>5, <1>6, <2>1, <2>6, <2>7, <2>8 DEF PoolFits
  <2> QED BY <1>2, <1>4, <2>1, <2>9 DEF p, more, c
<1> QED BY <1>7, <1>8

----------------------------------------------------------------------------
(* Segments.                                                               *)

\* The offsets of a segment's commands increase, from base_offset to tail_offset.
LEMMA SegmentTypes ==
  ASSUME NEW seg, GoodSegment(seg)
  PROVE  /\ seg.uuid \in Uuids /\ seg.base_gno \in 1..MaxGno /\ seg.base_offset \in 1..MaxOffset
         /\ seg.deltas \in Seq(0..SegoffMax) /\ seg.capacity \in Nat \ {0}
         /\ ngno(seg) \in Nat \ {0} /\ ngno(seg) = Len(seg.deltas)
         /\ seg.tgno \in 0..(ngno(seg) - 1)
         /\ \A i \in 1..ngno(seg) : seg.deltas[i] \in 0..SegoffMax
<1>1. /\ seg.uuid \in Uuids /\ seg.base_gno \in 1..MaxGno /\ seg.base_offset \in 1..MaxOffset
      /\ seg.tgno \in Nat /\ seg.deltas \in Seq(0..SegoffMax) /\ seg.capacity \in Nat
  BY DEF GoodSegment, Segment
<1>2. Len(seg.deltas) \in Nat
  BY <1>1
<1>3. seg.tgno < Len(seg.deltas) /\ Len(seg.deltas) <= seg.capacity
  BY DEF GoodSegment, ngno
<1>4. seg.tgno \in 0..(Len(seg.deltas) - 1)
  BY <1>1, <1>2, <1>3
<1>a. Len(seg.deltas) # 0
  BY <1>1, <1>2, <1>3
<1>b. seg.capacity >= 1
  BY <1>1, <1>2, <1>3, <1>4
<1>5. \A i \in 1..Len(seg.deltas) : seg.deltas[i] \in 0..SegoffMax
  <2> DEFINE s == seg.deltas
  <2>1. s \in Seq(0..SegoffMax)
    BY <1>1
  <2> HIDE DEF s
  <2>2. \A i \in 1..Len(s) : s[i] \in 0..SegoffMax
    BY <2>1, ElementOfSeq
  <2> QED BY <2>2 DEF s
<1>6. ngno(seg) = Len(seg.deltas) /\ ngno(seg) \in Nat \ {0}
  BY <1>2, <1>a DEF ngno
<1>7. seg.capacity \in Nat \ {0}
  BY <1>1, <1>b
<1>8. seg.tgno \in 0..(ngno(seg) - 1)
  BY <1>4, <1>6
<1>9. \A i \in 1..ngno(seg) : seg.deltas[i] \in 0..SegoffMax
  BY <1>5, <1>6
<1> QED BY <1>1, <1>6, <1>7, <1>8, <1>9

LEMMA SegmentOffsets ==
  ASSUME NEW seg, GoodSegment(seg)
  PROVE  /\ \A i \in 1..ngno(seg) : OffsetAt(seg, i) \in Nat \ {0}
         /\ \A i, j \in 1..ngno(seg) : i < j => OffsetAt(seg, i) < OffsetAt(seg, j)
         /\ \A i \in 1..ngno(seg) : OffsetAt(seg, i) <= tail_offset(seg)
         /\ \A i \in 1..ngno(seg) : i <= OffsetAt(seg, i)
         /\ OffsetAt(seg, 1) = seg.base_offset
<1>1. /\ seg.base_offset \in Nat \ {0} /\ ngno(seg) \in Nat \ {0}
      /\ \A i \in 1..ngno(seg) : seg.deltas[i] \in Nat
  BY SegmentTypes, SizesAssumption
<1>2. /\ seg.deltas[1] = 0
      /\ \A i, j \in 1..ngno(seg) : i < j => seg.deltas[i] < seg.deltas[j]
      /\ \A i \in 1..ngno(seg) : i - 1 <= seg.deltas[i]
  BY DEF GoodSegment
<1>3. \A i \in 1..ngno(seg) : OffsetAt(seg, i) \in Nat \ {0}
  BY <1>1 DEF OffsetAt
<1>4. ASSUME NEW i \in 1..ngno(seg), NEW j \in 1..ngno(seg), i < j
      PROVE  OffsetAt(seg, i) < OffsetAt(seg, j)
  <2>1. seg.deltas[i] \in Nat /\ seg.deltas[j] \in Nat /\ seg.deltas[i] < seg.deltas[j]
    BY <1>1, <1>2, <1>4
  <2> QED BY <1>1, <2>1 DEF OffsetAt
<1>5. ASSUME NEW i \in 1..ngno(seg) PROVE OffsetAt(seg, i) <= tail_offset(seg)
  <2>1. ngno(seg) \in 1..ngno(seg)
    BY <1>1
  <2>2. CASE i = ngno(seg)
    BY <1>3, <2>1, <2>2 DEF tail_offset
  <2>3. CASE i # ngno(seg)
    <3>1. i < ngno(seg)
      BY <1>1, <2>3
    <3>2. OffsetAt(seg, i) < OffsetAt(seg, ngno(seg))
      BY <1>4, <2>1, <3>1
    <3> QED BY <1>3, <2>1, <3>2 DEF tail_offset
  <2> QED BY <2>2, <2>3
<1>6. ASSUME NEW i \in 1..ngno(seg) PROVE i <= OffsetAt(seg, i)
  <2>1. seg.deltas[i] \in Nat /\ i - 1 <= seg.deltas[i]
    BY <1>1, <1>2
  <2> QED BY <1>1, <2>1 DEF OffsetAt
<1>7. OffsetAt(seg, 1) = seg.base_offset
  BY <1>1, <1>2 DEF OffsetAt
<1> QED BY <1>3, <1>4, <1>5, <1>6, <1>7

\* A command further on in the span of a segment.
LEMMA GrowSegment ==
  ASSUME NEW seg, GoodSegment(seg), NEW offset \in Nat,
         tail_offset(seg) < offset, offset < seg.base_offset + SegmentSize
  PROVE  LET grown == gtidSegmentAppend(seg, offset)
         IN  /\ GoodSegment(grown)
             /\ grown.uuid = seg.uuid /\ grown.base_gno = seg.base_gno
             /\ grown.base_offset = seg.base_offset /\ grown.tgno = seg.tgno
             /\ ngno(grown) = ngno(seg) + 1
             /\ grown.capacity \in Nat
             /\ \A i \in 1..ngno(seg) : grown.deltas[i] = seg.deltas[i]
             /\ tail_offset(grown) = offset
<1> DEFINE d == offset - seg.base_offset
           n == ngno(seg)
           more == Append(seg.deltas, d)
           cap == IF n = seg.capacity THEN seg.capacity * 2 ELSE seg.capacity
           grown == [seg EXCEPT !.deltas = more, !.capacity = cap]
<1>1. /\ seg \in Segment /\ seg.base_offset \in Nat \ {0} /\ seg.tgno \in 0..(n - 1)
      /\ seg.deltas \in Seq(0..SegoffMax) /\ seg.capacity \in Nat \ {0} /\ n <= seg.capacity
      /\ n \in Nat \ {0} /\ n = Len(seg.deltas)
      /\ \A i \in 1..n : seg.deltas[i] \in Nat
  <2>1. /\ seg.base_offset \in 1..MaxOffset /\ MaxOffset \in Nat
        /\ \A i \in 1..n : seg.deltas[i] \in 0..SegoffMax
        /\ SegoffMax \in Nat
    BY SegmentTypes, SizesAssumption
  <2>2. seg.base_offset \in Nat \ {0}
    BY <2>1
  <2>3. \A i \in 1..n : seg.deltas[i] \in Nat
    BY <2>1
  <2>4. n <= seg.capacity /\ seg \in Segment
    BY DEF GoodSegment
  <2> HIDE DEF n
  <2> QED BY SegmentTypes, <2>2, <2>3, <2>4 DEF n
<1>2. /\ seg.deltas[1] = 0
      /\ \A i, j \in 1..n : i < j => seg.deltas[i] < seg.deltas[j]
      /\ \A i \in 1..n : i - 1 <= seg.deltas[i]
  BY DEF GoodSegment
<1>3. seg.deltas[n] \in Nat /\ seg.deltas[n] < d
  <2>1. n \in 1..n
    BY <1>1
  <2>2. tail_offset(seg) = seg.base_offset + seg.deltas[n]
    BY DEF tail_offset, OffsetAt
  <2> QED BY <1>1, <2>1, <2>2
<1>4. d \in 0..SegoffMax
  <2>1. d \in Int /\ d >= 0
    BY <1>1, <1>3
  <2>2. d <= SegoffMax
    BY <1>1, SizesAssumption
  <2> HIDE DEF d
  <2> QED BY <2>1, <2>2, SizesAssumption
<1>5. d % (SegoffMax + 1) = d
  <2>1. SegoffMax + 1 \in Nat /\ d \in Nat /\ d < SegoffMax + 1
    BY <1>4, SizesAssumption
  <2> HIDE DEF d
  <2> QED BY <2>1, ModSmall
<1>6. gtidSegmentAppend(seg, offset) = grown
  BY <1>5 DEF gtidSegmentAppend
<1>7. cap \in Nat /\ n + 1 <= cap
  BY <1>1
<1>8. /\ more \in Seq(0..SegoffMax) /\ Len(more) = n + 1 /\ more[n + 1] = d
      /\ \A i \in 1..n : more[i] = seg.deltas[i]
  BY <1>1, <1>4
<1> HIDE DEF more, cap, n, d
<1>9. grown \in Segment
  BY <1>1, <1>7, <1>8 DEF Segment
<1>10. /\ grown.uuid = seg.uuid /\ grown.base_gno = seg.base_gno
       /\ grown.base_offset = seg.base_offset /\ grown.tgno = seg.tgno
       /\ grown.deltas = more /\ grown.capacity = cap
  BY <1>1 DEF Segment
<1> HIDE DEF grown
<1>11. ngno(grown) = n + 1
  BY <1>8, <1>10 DEF ngno
<1>12. grown.tgno < n + 1 /\ more[1] = 0
  BY <1>1, <1>2, <1>8, <1>10
<1>13. ASSUME NEW i \in 1..(n + 1), NEW j \in 1..(n + 1), i < j
       PROVE  more[i] < more[j]
  <2>1. i \in 1..n
    BY <1>1, <1>13
  <2>2. CASE j = n + 1
    <3>1. CASE i = n
      BY <1>3, <1>8, <2>1, <2>2, <3>1
    <3>2. CASE i # n
      <4>1. i < n /\ n \in 1..n
        BY <1>1, <2>1, <3>2
      <4>2. seg.deltas[i] < seg.deltas[n]
        BY <1>2, <2>1, <4>1
      <4>3. seg.deltas[i] \in Nat /\ d \in Nat
        BY <1>1, <1>4, <2>1
      <4> QED BY <1>3, <1>8, <2>1, <2>2, <4>2, <4>3
    <3> QED BY <3>1, <3>2
  <2>3. CASE j # n + 1
    <3>1. j \in 1..n
      BY <1>1, <2>3
    <3> QED BY <1>2, <1>8, <1>13, <2>1, <3>1
  <2> QED BY <2>2, <2>3
<1>14. ASSUME NEW i \in 1..(n + 1) PROVE i - 1 <= more[i]
  <2>1. CASE i = n + 1
    <3>1. n \in 1..n
      BY <1>1
    <3>2. n - 1 <= seg.deltas[n] /\ d \in Nat
      BY <1>2, <1>4, <3>1
    <3> QED BY <1>1, <1>3, <1>8, <2>1, <3>2
  <2>2. CASE i # n + 1
    <3>1. i \in 1..n
      BY <1>1, <2>2
    <3> QED BY <1>2, <1>8, <3>1
  <2> QED BY <2>1, <2>2
<1>15. GoodSegment(grown)
  BY <1>7, <1>9, <1>10, <1>11, <1>12, <1>13, <1>14 DEF GoodSegment
<1>16. tail_offset(grown) = offset
  <2>1. tail_offset(grown) = seg.base_offset + d
    BY <1>8, <1>10, <1>11 DEF tail_offset, OffsetAt
  <2> QED BY <1>1, <2>1 DEF d
<1> QED BY <1>6, <1>7, <1>8, <1>10, <1>11, <1>15, <1>16 DEF n

\* The first command of a new segment.
LEMMA NewSegment ==
  ASSUME NEW u \in Uuids, NEW g \in 1..MaxGno, NEW offset \in 1..MaxOffset,
         NEW cap \in Nat \ {0}
  PROVE  LET seg == gtidSegmentAppend(gtidSegmentReset(cap, u, g, offset), offset)
         IN  /\ GoodSegment(seg)
             /\ seg.uuid = u /\ seg.base_gno = g /\ seg.base_offset = offset /\ seg.tgno = 0
             /\ seg.capacity = cap
             /\ ngno(seg) = 1
             /\ tail_offset(seg) = offset
<1> DEFINE seg == [uuid |-> u, base_gno |-> g, base_offset |-> offset,
                   tgno |-> 0, deltas |-> <<0>>, capacity |-> cap]
           reset == gtidSegmentReset(cap, u, g, offset)
<1>1. (offset - offset) % (SegoffMax + 1) = 0
  <2>1. offset - offset = 0
    BY SizesAssumption
  <2>2. 0 % (SegoffMax + 1) = 0
    <3>1. SegoffMax + 1 \in Nat /\ 0 \in Nat /\ 0 < SegoffMax + 1
      BY SizesAssumption
    <3> QED BY <3>1, ModSmall
  <2> QED BY <2>1, <2>2
<1>2. /\ reset.deltas = << >> /\ reset.base_offset = offset /\ reset.capacity = cap
      /\ ngno(reset) = 0
  BY DEF gtidSegmentReset, ngno
<1>3. gtidSegmentAppend(reset, offset)
        = [reset EXCEPT !.deltas = Append(<< >>, 0), !.capacity = cap]
  BY <1>1, <1>2 DEF gtidSegmentAppend
<1>4. Append(<< >>, 0) = <<0>>
  OBVIOUS
<1>5. gtidSegmentAppend(reset, offset) = seg
  BY <1>3, <1>4 DEF gtidSegmentReset
<1>6. <<0>> \in Seq(0..SegoffMax) /\ Len(<<0>>) = 1 /\ <<0>>[1] = 0
  BY SizesAssumption
<1>7. seg \in Segment
  BY <1>6 DEF Segment
<1>8. ngno(seg) = 1 /\ tail_offset(seg) = offset
  BY <1>6, SizesAssumption DEF ngno, tail_offset, OffsetAt
<1>9. GoodSegment(seg)
  BY <1>6, <1>7, <1>8 DEF GoodSegment
<1> QED BY <1>5, <1>8, <1>9

----------------------------------------------------------------------------
(* Every step keeps the invariant.                                         *)

\* The last segment a command goes to: a new one, or one that grew.
LEMMA AppendShape ==
  ASSUME IInv, NEW u \in Uuids, NEW g \in 1..MaxGno, NEW size \in Sizes, gtidSeqAppend(u, g, size)
  PROVE  /\ next \in 1..MaxOffset /\ next' = next + size /\ next' \in 1..(MaxOffset + 1)
         /\ segs' \in Seq(Segment) /\ Len(segs') \in Nat \ {0}
         /\ LET N == Len(segs')
                seg == segs'[N]
            IN  /\ GoodSegment(seg)
                /\ tail_offset(seg) = next
                /\ seg.uuid = u /\ end_gno(seg) = g
                /\ \A k \in 1..(N - 1) : segs'[k] = segs[k]
                /\ \/ /\ Len(segs) = N - 1 /\ ngno(seg) = 1 /\ seg.base_offset = next
                      /\ seg.tgno = 0
                   \/ /\ Len(segs) = N
                      /\ ngno(seg) = ngno(segs[N]) + 1
                      /\ seg.uuid = segs[N].uuid /\ seg.base_gno = segs[N].base_gno
                      /\ seg.base_offset = segs[N].base_offset
                      /\ seg.tgno = segs[N].tgno
                      /\ \A i \in 1..ngno(segs[N]) : seg.deltas[i] = segs[N].deltas[i]
         /\ PoolFits(pool', Caps(segs'))
         /\ pool'.nfreeseg <= pool.nfreeseg
<1> DEFINE M == Len(segs)
           last == segs[M]
<1>1. /\ segs \in Seq(Segment) /\ M \in Nat /\ next \in 1..(MaxOffset + 1)
      /\ \A k \in 1..M : GoodSegment(segs[k])
      /\ \A k \in 1..M : tail_offset(segs[k]) < next
  BY DEF IInv, SegmentsOrdered
<1>2. next \in 1..MaxOffset /\ next + size \in 1..(MaxOffset + 1)
  <2>1. size \in 1..MaxOffset /\ next + size <= MaxOffset + 1
    BY DEF Sizes
  <2>2. next \in 1..MaxOffset
    BY <1>1, <2>1, SizesAssumption
  <2> QED BY <1>1, <2>1, <2>2, SizesAssumption
<1>3. next' = next + size
  BY DEF gtidSeqAppend
<1>4. /\ Caps(segs) \in Seq(Nat) /\ Len(Caps(segs)) = M
      /\ \A k \in 1..M : Caps(segs)[k] = segs[k].capacity
  BY CapsType
<1>5. CASE NeedsSwitch(u, g, next)
  <2> DEFINE seg == gtidSegmentAppend(gtidSegmentReset(SwitchCapacity, u, g, next), next)
             c == SwitchCapacity
  <2>1. /\ c \in Nat \ {0}
        /\ PoolFits(PoolAfterSwitch, Append(Caps(segs), c))
        /\ PoolAfterSwitch.nfreeseg <= pool.nfreeseg
    BY PoolSwitch
  <2>2. /\ GoodSegment(seg)
        /\ seg.uuid = u /\ seg.base_gno = g /\ seg.base_offset = next /\ seg.tgno = 0
        /\ seg.capacity = c
        /\ ngno(seg) = 1
        /\ tail_offset(seg) = next
    BY <1>2, <2>1, NewSegment
  <2>3. gtidSegmentReset(c, u, g, next).capacity = c
    BY DEF gtidSegmentReset
  <2>4. /\ segs' = Append(segs, seg)
        /\ pool' = [PoolAfterSwitch EXCEPT !.nsegment_deltas = @ + seg.capacity - c]
    BY <1>5, <2>3 DEF gtidSeqAppend, Target, Before
  <2> HIDE DEF seg, c
  <2>5. PoolAfterSwitch.nsegment_deltas + seg.capacity - c = PoolAfterSwitch.nsegment_deltas
    BY <2>1, <2>2 DEF PoolFits
  <2>6. pool' = PoolAfterSwitch
    BY <2>1, <2>4, <2>5 DEF PoolFits
  <2>7. /\ segs' \in Seq(Segment) /\ Len(segs') = M + 1 /\ segs'[M + 1] = seg
        /\ \A k \in 1..M : segs'[k] = segs[k]
    <3>1. seg \in Segment
      BY <2>2 DEF GoodSegment
    <3> QED BY <1>1, <2>4, <3>1
  <2>8. Caps(segs') = Append(Caps(segs), c)
    <3>1. \A k \in 1..(M + 1) : segs'[k].capacity = Append(Caps(segs), c)[k]
      <4> SUFFICES ASSUME NEW k \in 1..(M + 1) PROVE segs'[k].capacity = Append(Caps(segs), c)[k]
        OBVIOUS
      <4>1. CASE k = M + 1
        BY <1>1, <1>4, <2>1, <2>2, <2>7, <4>1
      <4>2. CASE k # M + 1
        <5>1. k \in 1..M
          BY <1>1, <4>2
        <5> QED BY <1>1, <1>4, <2>1, <2>7, <5>1
      <4> QED BY <4>1, <4>2
    <3>2. Append(Caps(segs), c) = [k \in 1..(M + 1) |-> Append(Caps(segs), c)[k]]
      <4> DEFINE e == Append(Caps(segs), c)
      <4>1. e \in Seq(Nat) /\ Len(e) = M + 1
        BY <1>1, <1>4, <2>1
      <4> HIDE DEF e, M
      <4>2. e \in [1..(M + 1) -> Nat]
        BY <4>1, LenProperties
      <4>3. e = [k \in 1..(M + 1) |-> e[k]]
        BY <4>2
      <4> QED BY <4>3 DEF e
    <3> QED BY <2>7, <3>1, <3>2 DEF Caps
  <2>9. end_gno(seg) = g
    BY <2>2, SizesAssumption DEF end_gno
  <2>10. Len(segs') \in Nat \ {0} /\ Len(segs) = Len(segs') - 1 /\ segs'[Len(segs')] = seg
         /\ \A k \in 1..(Len(segs') - 1) : segs'[k] = segs[k]
    BY <1>1, <2>7
  <2> QED BY <1>2, <1>3, <2>1, <2>2, <2>6, <2>7, <2>8, <2>9, <2>10
<1>6. CASE ~NeedsSwitch(u, g, next)
  <2> DEFINE seg == gtidSegmentAppend(last, next)
             p == [pool EXCEPT !.nsegment_deltas = @ + seg.capacity - last.capacity]
  <2>1. /\ M \in Nat \ {0} /\ M \in 1..M
        /\ last.uuid = u /\ last.base_gno + ngno(last) = g
        /\ next < last.base_offset + SegmentSize
    <3>1. segs # << >> /\ last.uuid = u /\ last.base_gno + ngno(last) = g
          /\ ~(last.base_offset + SegmentSize <= next)
      BY <1>6 DEF NeedsSwitch
    <3>2. M # 0
      BY <1>1, <3>1
    <3>3. M \in 1..M /\ M \in Nat \ {0}
      BY <1>1, <3>2
    <3>4. last.base_offset \in 1..MaxOffset
      BY <1>1, <3>3, SegmentTypes
    <3>5. next < last.base_offset + SegmentSize
      BY <1>1, <3>1, <3>4, SizesAssumption
    <3> QED BY <3>1, <3>3, <3>5
  <2>2. GoodSegment(last) /\ tail_offset(last) < next
    BY <1>1, <2>1
  <2>3. next \in Nat
    BY <1>2, SizesAssumption
  <2>4. /\ GoodSegment(seg)
        /\ seg.uuid = last.uuid /\ seg.base_gno = last.base_gno
        /\ seg.base_offset = last.base_offset /\ seg.tgno = last.tgno
        /\ ngno(seg) = ngno(last) + 1
        /\ seg.capacity \in Nat
        /\ \A i \in 1..ngno(last) : seg.deltas[i] = last.deltas[i]
        /\ tail_offset(seg) = next
    <3> HIDE DEF last
    <3> QED BY <2>1, <2>2, <2>3, GrowSegment
  <2>5. /\ segs' = Append(SubSeq(segs, 1, M - 1), seg)
        /\ pool' = p
    BY <1>6 DEF gtidSeqAppend, Target, Before
  <2>6. /\ SubSeq(segs, 1, M - 1) \in Seq(Segment) /\ Len(SubSeq(segs, 1, M - 1)) = M - 1
        /\ \A k \in 1..(M - 1) : SubSeq(segs, 1, M - 1)[k] = segs[k]
    <3>1. 1 \in Int /\ M - 1 \in Int /\ \A k \in 1..(M - 1) : segs[k] \in Segment
      BY <1>1, <2>1
    <3>2. /\ SubSeq(segs, 1, M - 1) \in Seq(Segment)
          /\ Len(SubSeq(segs, 1, M - 1)) = IF 1 <= M - 1 THEN M - 1 - 1 + 1 ELSE 0
          /\ \A k \in 1..(M - 1 - 1 + 1) : SubSeq(segs, 1, M - 1)[k] = segs[1 + k - 1]
      BY <3>1, SubSeqProperties
    <3> HIDE DEF M
    <3>3. M - 1 - 1 + 1 = M - 1 /\ (~(1 <= M - 1) => M - 1 = 0)
      BY <2>1
    <3>4. \A k \in 1..(M - 1) : 1 + k - 1 = k
      BY <2>1
    <3>5. Len(SubSeq(segs, 1, M - 1)) = M - 1
      BY <3>2, <3>3
    <3> QED BY <3>2, <3>3, <3>4, <3>5
  <2>7. seg \in Segment
    BY <2>4 DEF GoodSegment
  <2> HIDE DEF seg, p
  <2>8. /\ segs' \in Seq(Segment) /\ Len(segs') = M /\ segs'[M] = seg
        /\ \A k \in 1..(M - 1) : segs'[k] = segs[k]
    <3> DEFINE init == SubSeq(segs, 1, M - 1)
    <3>1. segs' = Append(init, seg) /\ init \in Seq(Segment) /\ Len(init) = M - 1
      BY <2>5, <2>6
    <3> HIDE DEF init, M
    <3>2. segs' \in Seq(Segment) /\ Len(segs') = M /\ segs'[M] = seg
      BY <2>1, <2>7, <3>1
    <3>3. ASSUME NEW k \in 1..(M - 1) PROVE segs'[k] = init[k]
      BY <2>1, <2>7, <3>1
    <3> QED BY <2>6, <3>2, <3>3 DEF init
  <2>9. end_gno(seg) = g
    <3>1. last.base_gno \in Nat /\ ngno(last) \in Nat
      BY <2>2, SegmentTypes, SizesAssumption
    <3> QED BY <2>1, <2>4, <3>1 DEF end_gno
  <2>10. PoolFits(pool', Caps(segs')) /\ pool'.nfreeseg = pool.nfreeseg
    <3> DEFINE c == Caps(segs)
               e == Caps(segs')
               init == SubSeq(c, 1, M - 1)
    <3>1. last.capacity \in Nat /\ c[M] = last.capacity
      BY <1>4, <2>1, <2>2, SegmentTypes
    <3>2. e \in Seq(Nat) /\ Len(e) = M /\ e[M] = seg.capacity
          /\ \A k \in 1..(M - 1) : e[k] = c[k]
      <4>1. \A k \in 1..M : segs'[k].capacity = IF k = M THEN seg.capacity ELSE c[k]
        <5> SUFFICES ASSUME NEW k \in 1..M
                     PROVE  segs'[k].capacity = IF k = M THEN seg.capacity ELSE c[k]
          OBVIOUS
        <5>1. CASE k = M
          BY <2>8, <5>1
        <5>2. CASE k # M
          <6>1. k \in 1..(M - 1)
            BY <2>1, <5>2
          <6> QED BY <1>4, <2>8, <5>2, <6>1
        <5> QED BY <5>1, <5>2
      <4>2. e = [k \in 1..M |-> IF k = M THEN seg.capacity ELSE c[k]]
        BY <2>8, <4>1 DEF Caps
      <4>3. \A k \in 1..M : c[k] \in Nat
        BY <1>4
      <4> HIDE DEF e, c, M
      <4>4. e \in [1..M -> Nat]
        BY <2>4, <4>2, <4>3
      <4>5. e \in Seq(Nat) /\ Len(e) = M
        BY <2>1, <4>4
      <4>6. e[M] = seg.capacity
        BY <2>1, <4>2
      <4>7. \A k \in 1..(M - 1) : e[k] = c[k]
        BY <2>1, <4>2
      <4> QED BY <4>5, <4>6, <4>7
    <3>3. /\ init \in Seq(Nat) /\ Len(init) = M - 1
          /\ \A k \in 1..(M - 1) : init[k] = c[k]
      BY <1>4, <2>1
    <3>4. c \in Seq(Nat) /\ Len(c) = M
      BY <1>4
    <3> HIDE DEF c, e, init, M
    <3>5. SumOfCapacities(c) = SumOfCapacities(init) + last.capacity
      <4>1. Len(c) = Len(init) + 1 /\ \A k \in 1..Len(init) : c[k] = init[k]
        BY <2>1, <3>3, <3>4
      <4> QED BY <3>1, <3>3, <3>4, <4>1, SumLast
    <3>6. SumOfCapacities(e) = SumOfCapacities(init) + seg.capacity
      <4>1. Len(e) = Len(init) + 1 /\ \A k \in 1..Len(init) : e[k] = init[k]
        BY <2>1, <3>2, <3>3
      <4> QED BY <3>2, <3>3, <4>1, SumLast
    <3>7. SumOfCapacities(init) \in Nat
      BY <3>3, SumType
    <3>8. PoolFits(pool, c)
      BY DEF IInv, c
    <3>9. pool.nsegment_deltas + seg.capacity - last.capacity = SumOfCapacities(e)
          /\ SumOfCapacities(e) \in Nat
      <4>1. pool.nsegment_deltas = SumOfCapacities(c)
        BY <3>8 DEF PoolFits
      <4>2. last.capacity \in Nat /\ seg.capacity \in Nat
        BY <2>4, <3>1
      <4> HIDE DEF last
      <4> QED BY <3>5, <3>6, <3>7, <4>1, <4>2
    <3>10. p = [pool EXCEPT !.nsegment_deltas = SumOfCapacities(e)]
      BY <3>9 DEF p
    <3>11. PoolFits(p, e) /\ p.nfreeseg = pool.nfreeseg
      BY <3>2, <3>4, <3>8, <3>9, <3>10 DEF PoolFits
    <3> QED BY <2>5, <3>11 DEF e
  <2>11. pool.nfreeseg \in Nat
    BY DEF IInv, PoolFits
  <2> QED BY <1>1, <1>2, <1>3, <2>1, <2>4, <2>8, <2>9, <2>10, <2>11
<1> QED BY <1>5, <1>6

\* gtidSeqAppend.
LEMMA AppendKeeps ==
  ASSUME IInv, NEW u \in Uuids, NEW g \in 1..MaxGno, NEW size \in Sizes, gtidSeqAppend(u, g, size)
  PROVE  IInv'
<1> DEFINE N == Len(segs')
           seg == segs'[N]
<1>1. /\ next \in 1..MaxOffset /\ next' = next + size /\ next' \in 1..(MaxOffset + 1)
      /\ segs' \in Seq(Segment) /\ N \in Nat \ {0}
      /\ GoodSegment(seg)
      /\ tail_offset(seg) = next
      /\ \A k \in 1..(N - 1) : segs'[k] = segs[k]
      /\ \/ Len(segs) = N - 1 /\ seg.base_offset = next
         \/ Len(segs) = N /\ seg.base_offset = segs[N].base_offset
      /\ PoolFits(pool', Caps(segs'))
  BY AppendShape
<1>2. size \in Nat \ {0} /\ next \in Nat
  BY <1>1, SizesAssumption DEF Sizes
<1> HIDE DEF N
<1>3. /\ \A k \in 1..Len(segs) : GoodSegment(segs[k])
      /\ \A i, j \in 1..Len(segs) : i < j => tail_offset(segs[i]) < segs[j].base_offset
      /\ \A i \in 1..Len(segs) : tail_offset(segs[i]) < next
  BY DEF IInv, SegmentsOrdered
<1>4. \A k \in 1..(N - 1) : k \in 1..Len(segs)
  BY <1>1
<1>5. ASSUME NEW k \in 1..N PROVE GoodSegment(segs'[k])
  <2>1. CASE k = N
    BY <1>1, <2>1
  <2>2. CASE k # N
    <3>1. k \in 1..(N - 1)
      BY <1>1, <2>2
    <3> QED BY <1>1, <1>3, <1>4, <3>1
  <2> QED BY <2>1, <2>2
<1>6. ASSUME NEW i \in 1..N, NEW j \in 1..N, i < j
      PROVE  tail_offset(segs'[i]) < segs'[j].base_offset
  <2>1. i \in 1..(N - 1) /\ segs'[i] = segs[i]
    BY <1>1, <1>6
  <2>2. CASE j = N
    <3>1. CASE Len(segs) = N - 1 /\ seg.base_offset = next
      BY <1>3, <1>4, <2>1, <2>2, <3>1
    <3>2. CASE Len(segs) = N /\ seg.base_offset = segs[N].base_offset
      <4>1. tail_offset(segs[i]) < segs[N].base_offset
        BY <1>1, <1>3, <1>6, <2>2, <3>2
      <4> QED BY <2>1, <2>2, <3>2, <4>1
    <3> QED BY <1>1, <3>1, <3>2
  <2>3. CASE j # N
    <3>1. j \in 1..(N - 1)
      BY <1>1, <2>3
    <3>2. tail_offset(segs[i]) < segs[j].base_offset
      BY <1>3, <1>4, <1>6, <2>1, <3>1
    <3> QED BY <1>1, <2>1, <3>1, <3>2
  <2> QED BY <2>2, <2>3
<1>7. ASSUME NEW i \in 1..N PROVE tail_offset(segs'[i]) < next'
  <2>1. CASE i = N
    BY <1>1, <1>2, <2>1
  <2>2. CASE i # N
    <3>1. i \in 1..(N - 1)
      BY <1>1, <2>2
    <3>2. tail_offset(segs[i]) < next /\ segs'[i] = segs[i] /\ GoodSegment(segs[i])
      BY <1>1, <1>3, <1>4, <3>1
    <3>3. tail_offset(segs[i]) \in Nat
      BY <3>2, SegmentTypes, SegmentOffsets DEF tail_offset
    <3> QED BY <1>1, <1>2, <3>2, <3>3
  <2> QED BY <2>1, <2>2
<1>8. SegmentsOrdered'
  BY <1>6, <1>7 DEF SegmentsOrdered, N
<1> QED BY <1>1, <1>5, <1>8 DEF IInv, N

\* How many segments are trimmed whole.
LEMMA WholeTrimmedIs ==
  ASSUME IInv, NEW until
  PROVE  LET n == WholeTrimmed(until)
         IN  /\ n \in 0..Len(segs)
             /\ \A k \in 1..n : ~(tail_offset(segs[k]) >= until)
             /\ n < Len(segs) => n + 1 \in 1..Len(segs) /\ tail_offset(segs[n + 1]) >= until
<1> DEFINE M == Len(segs)
           kept == {i \in 1..M : tail_offset(segs[i]) >= until}
           n == WholeTrimmed(until)
<1>1. M \in Nat
  BY DEF IInv
<1>2. CASE kept = {}
  <2>1. n = M
    BY <1>2 DEF WholeTrimmed
  <2> HIDE DEF n, M
  <2>2. n \in 0..M /\ ~(n < M)
    BY <1>1, <2>1
  <2>3. \A k \in 1..n : ~(tail_offset(segs[k]) >= until)
    BY <1>2, <2>1
  <2> QED BY <2>2, <2>3 DEF n, M
<1>3. CASE kept # {}
  <2> DEFINE least == CHOOSE i \in kept : \A j \in kept : i <= j
  <2>1. kept \in SUBSET Nat
    BY <1>1
  <2>2. \E i \in kept : \A j \in kept : i <= j
    <3> HIDE DEF kept
    <3> QED BY <1>3, <2>1, LeastExists
  <2>3. least \in kept /\ \A j \in kept : least <= j
    <3> HIDE DEF kept
    <3> QED BY <2>2
  <2>4. n = least - 1
    BY <1>3 DEF WholeTrimmed
  <2> HIDE DEF least, n
  <2>5. least \in 1..M /\ tail_offset(segs[least]) >= until
    BY <2>3
  <2>6. n \in 0..M /\ n + 1 = least
    BY <1>1, <2>4, <2>5
  <2>7. ASSUME NEW k \in 1..n PROVE ~(tail_offset(segs[k]) >= until)
    <3>1. k \in 1..M /\ ~(least <= k)
      BY <1>1, <2>4, <2>5
    <3> QED BY <2>3, <3>1
  <2> QED BY <2>5, <2>6, <2>7 DEF n
<1> QED BY <1>2, <1>3

\* Where the binary search in a segment ends.
LEMMA CellsBeforeIs ==
  ASSUME NEW seg, GoodSegment(seg), NEW until \in Int
  PROVE  LET l == CellsBefore(seg, until)
         IN  /\ l \in seg.tgno..ngno(seg)
             /\ \A i \in (seg.tgno + 1)..l : OffsetAt(seg, i) < until
             /\ \A i \in (l + 1)..ngno(seg) : OffsetAt(seg, i) >= until
<1> DEFINE n == ngno(seg)
           t == seg.tgno
           P(l) == /\ \A i \in (t + 1)..l : OffsetAt(seg, i) < until
                   /\ \A i \in (l + 1)..n : OffsetAt(seg, i) >= until
           late == {i \in (t + 1)..n : OffsetAt(seg, i) >= until}
<1>1. n \in Nat \ {0} /\ t \in 0..(n - 1)
  BY SegmentTypes
<1>2. \A i \in 1..n : OffsetAt(seg, i) \in Nat
  BY SegmentOffsets
<1>3. \A i, j \in 1..n : i < j => OffsetAt(seg, i) < OffsetAt(seg, j)
  BY SegmentOffsets
<1> HIDE DEF n, t
<1>4. \A i \in (t + 1)..n : i \in 1..n
  BY <1>1
<1>5. \E l \in t..n : P(l)
  <2>1. CASE late = {}
    <3>1. n \in t..n /\ \A i \in (n + 1)..n : FALSE
      BY <1>1
    <3>2. \A i \in (t + 1)..n : OffsetAt(seg, i) < until
      <4> SUFFICES ASSUME NEW i \in (t + 1)..n PROVE OffsetAt(seg, i) < until
        OBVIOUS
      <4>1. OffsetAt(seg, i) \in Nat /\ ~(OffsetAt(seg, i) >= until)
        BY <1>2, <1>4, <2>1
      <4> QED BY <4>1
    <3> QED BY <3>1, <3>2
  <2>2. CASE late # {}
    <3>1. late \in SUBSET Nat
      BY <1>1
    <3>2. PICK k \in late : \A j \in late : k <= j
      <4> HIDE DEF late
      <4> QED BY <2>2, <3>1, LeastExists
    <3>3. k \in (t + 1)..n /\ OffsetAt(seg, k) >= until /\ k - 1 \in t..n
      BY <1>1, <3>2
    <3>4. ASSUME NEW i \in (t + 1)..(k - 1) PROVE OffsetAt(seg, i) < until
      <4>1. i \in (t + 1)..n /\ ~(k <= i)
        BY <1>1, <3>3
      <4>2. OffsetAt(seg, i) \in Nat /\ ~(OffsetAt(seg, i) >= until)
        BY <1>2, <1>4, <3>2, <4>1
      <4> QED BY <4>2
    <3>5. ASSUME NEW i \in ((k - 1) + 1)..n PROVE OffsetAt(seg, i) >= until
      <4>1. k \in 1..n /\ i \in 1..n /\ (i = k \/ k < i)
        BY <1>1, <3>3
      <4>2. OffsetAt(seg, i) \in Nat /\ OffsetAt(seg, k) \in Nat
        BY <1>2, <4>1
      <4>3. OffsetAt(seg, k) <= OffsetAt(seg, i)
        BY <1>3, <4>1, <4>2
      <4> QED BY <3>3, <4>2, <4>3
    <3> QED BY <3>3, <3>4, <3>5
  <2> QED BY <2>1, <2>2
<1>6. CellsBefore(seg, until) = CHOOSE l \in t..n : P(l)
  BY DEF CellsBefore, t, n
<1> HIDE DEF P
<1>7. CellsBefore(seg, until) \in t..n /\ P(CellsBefore(seg, until))
  BY <1>5, <1>6
<1> QED BY <1>7 DEF P, t, n

\* What trimming leaves of a segment.
LEMMA TrimmedSegment ==
  ASSUME NEW seg, GoodSegment(seg), NEW until \in Int, tail_offset(seg) >= until
  PROVE  LET cut == [seg EXCEPT !.tgno = CellsBefore(seg, until)]
         IN  /\ GoodSegment(cut)
             /\ cut.uuid = seg.uuid /\ cut.base_gno = seg.base_gno
             /\ cut.base_offset = seg.base_offset /\ cut.deltas = seg.deltas
             /\ cut.capacity = seg.capacity
             /\ Live(cut) = {i \in Live(seg) : OffsetAt(seg, i) >= until}
<1> DEFINE l == CellsBefore(seg, until)
           n == ngno(seg)
           t == seg.tgno
           cut == [seg EXCEPT !.tgno = l]
<1>1. n \in Nat \ {0} /\ t \in 0..(n - 1) /\ seg \in Segment
  BY SegmentTypes DEF GoodSegment
<1>2. /\ l \in t..n
      /\ \A i \in (t + 1)..l : OffsetAt(seg, i) < until
      /\ \A i \in (l + 1)..n : OffsetAt(seg, i) >= until
  BY CellsBeforeIs
<1>3. \A i \in 1..n : OffsetAt(seg, i) \in Nat
  BY SegmentOffsets
<1>4. tail_offset(seg) = OffsetAt(seg, n)
  BY DEF tail_offset
<1>5. l \in Nat
  BY <1>1, <1>2
<1> HIDE DEF l
<1>6. cut \in Segment
  BY <1>1, <1>5 DEF Segment
<1>7. /\ cut.uuid = seg.uuid /\ cut.base_gno = seg.base_gno
      /\ cut.base_offset = seg.base_offset /\ cut.deltas = seg.deltas
      /\ cut.capacity = seg.capacity /\ cut.tgno = l
  BY <1>1 DEF Segment
<1> HIDE DEF cut
<1>8. ngno(cut) = n /\ \A i \in 1..n : OffsetAt(cut, i) = OffsetAt(seg, i)
  BY <1>7 DEF ngno, OffsetAt
<1> HIDE DEF n, t
<1>9. l < n
  <2>1. CASE l = n
    <3>1. n \in (t + 1)..l
      BY <1>1, <2>1
    <3>2. OffsetAt(seg, n) < until /\ OffsetAt(seg, n) \in Nat
      BY <1>1, <1>2, <1>3, <3>1
    <3> QED BY <1>4, <3>2
  <2> QED BY <1>1, <1>2, <2>1
<1>10. GoodSegment(cut)
  BY <1>6, <1>7, <1>8, <1>9 DEF GoodSegment, n
<1>11. Live(cut) = {i \in Live(seg) : OffsetAt(seg, i) >= until}
  <2>1. Live(cut) = (l + 1)..n /\ Live(seg) = (t + 1)..n
    BY <1>7, <1>8 DEF Live, t, n
  <2>2. ASSUME NEW i \in (l + 1)..n PROVE i \in (t + 1)..n /\ OffsetAt(seg, i) >= until
    BY <1>1, <1>2
  <2>3. ASSUME NEW i \in (t + 1)..n, OffsetAt(seg, i) >= until PROVE i \in (l + 1)..n
    <3>1. i \in 1..n /\ OffsetAt(seg, i) \in Nat
      BY <1>1, <1>3
    <3>2. ~(i \in (t + 1)..l)
      BY <1>2, <2>3, <3>1
    <3> QED BY <1>1, <1>2, <3>1, <3>2
  <2> QED BY <2>1, <2>2, <2>3
<1> QED BY <1>7, <1>10, <1>11 DEF cut, l

\* gtidSeqTrim drops whole segments, and cells of the first one left.
LEMMA TrimShape ==
  ASSUME IInv, NEW until \in 1..next, gtidSeqTrim(until)
  PROVE  LET n == WholeTrimmed(until)
         IN  /\ n \in 0..Len(segs)
             /\ segs' \in Seq(Segment) /\ Len(segs') = Len(segs) - n
             /\ \A k \in 2..Len(segs') : segs'[k] = segs[n + k]
             /\ Len(segs') # 0 =>
                  LET cut == [segs[n + 1] EXCEPT !.tgno = CellsBefore(segs[n + 1], until)]
                  IN  /\ segs'[1] = cut /\ n + 1 \in 1..Len(segs)
                      /\ tail_offset(segs[n + 1]) >= until
             /\ \A k \in 1..n : ~(tail_offset(segs[k]) >= until)
<1> DEFINE M == Len(segs)
           n == WholeTrimmed(until)
           rest == SubSeq(segs, n + 1, M)
<1>1. M \in Nat /\ segs \in Seq(Segment) /\ until \in Int
  BY DEF IInv
<1>2. /\ n \in 0..M
      /\ \A k \in 1..n : ~(tail_offset(segs[k]) >= until)
      /\ n < M => n + 1 \in 1..M /\ tail_offset(segs[n + 1]) >= until
  BY WholeTrimmedIs
<1>3. segs' = IF rest = << >> THEN << >>
              ELSE [rest EXCEPT ![1].tgno = CellsBefore(rest[1], until)]
  BY DEF gtidSeqTrim
<1>4. \A k \in 1..M : segs[k] \in Segment
  BY <1>1
<1> HIDE DEF n, M
<1>5. /\ rest \in Seq(Segment) /\ Len(rest) = M - n
      /\ \A k \in 1..(M - n) : rest[k] = segs[n + k]
  <2>1. n + 1 \in Int /\ M \in Int /\ \A k \in (n + 1)..M : segs[k] \in Segment
    BY <1>1, <1>2, <1>4
  <2>2. /\ rest \in Seq(Segment)
        /\ Len(rest) = IF n + 1 <= M THEN M - (n + 1) + 1 ELSE 0
        /\ \A k \in 1..(M - (n + 1) + 1) : rest[k] = segs[(n + 1) + k - 1]
    BY <2>1, SubSeqProperties
  <2>3. M - (n + 1) + 1 = M - n /\ (~(n + 1 <= M) => M - n = 0)
    BY <1>1, <1>2
  <2>4. \A k \in 1..(M - n) : (n + 1) + k - 1 = n + k
    BY <1>1, <1>2
  <2>5. Len(rest) = M - n
    BY <2>2, <2>3
  <2> HIDE DEF rest
  <2> QED BY <2>2, <2>3, <2>4, <2>5
<1> HIDE DEF rest
<1>6. CASE rest = << >>
  <2>1. M - n = 0 /\ segs' = << >>
    BY <1>3, <1>5, <1>6
  <2>2. Len(segs') = 0 /\ segs' \in Seq(Segment)
    BY <2>1
  <2>3. 2..Len(segs') = {}
    BY <2>2
  <2> QED BY <1>2, <2>1, <2>2, <2>3 DEF n, M
<1>7. CASE rest # << >>
  <2> DEFINE cut == [rest[1] EXCEPT !.tgno = CellsBefore(rest[1], until)]
  <2>1. M - n # 0
    BY <1>5, <1>7
  <2>2. n < M /\ 1 \in 1..(M - n) /\ M - n \in Nat
    BY <1>1, <1>2, <2>1
  <2>3. rest[1] = segs[n + 1]
    BY <1>5, <2>2
  <2>4. segs' = [rest EXCEPT ![1] = cut]
    BY <1>3, <1>7
  <2>5. cut \in Segment
    <3>1. GoodSegment(segs[n + 1]) /\ tail_offset(segs[n + 1]) >= until
      BY <1>2, <2>2 DEF IInv, M
    <3>2. GoodSegment(cut)
      BY <1>1, <2>3, <3>1, TrimmedSegment
    <3> QED BY <3>2 DEF GoodSegment
  <2> HIDE DEF cut
  <2>6. /\ segs' \in Seq(Segment) /\ Len(segs') = Len(rest)
        /\ \A k \in 1..Len(rest) : segs'[k] = IF k = 1 THEN cut ELSE rest[k]
    BY <1>5, <2>2, <2>4, <2>5, ExceptSeq
  <2>7. \A k \in 2..Len(segs') : segs'[k] = segs[n + k]
    <3> SUFFICES ASSUME NEW k \in 2..Len(segs') PROVE segs'[k] = segs[n + k]
      OBVIOUS
    <3>1. k \in 1..(M - n) /\ k # 1
      BY <1>5, <2>2, <2>6
    <3> QED BY <1>5, <2>6, <3>1
  <2>8. segs'[1] = cut
    BY <1>5, <2>2, <2>6
  <2> QED BY <1>2, <1>5, <2>2, <2>3, <2>6, <2>7, <2>8 DEF n, M, cut
<1> QED BY <1>6, <1>7

\* The same, for any segment of the rest: only its live cells change.
LEMMA TrimSegments ==
  ASSUME IInv, NEW until \in 1..next, gtidSeqTrim(until)
  PROVE  LET n == WholeTrimmed(until)
         IN  \A k \in 1..Len(segs') :
               /\ n + k \in 1..Len(segs)
               /\ GoodSegment(segs'[k])
               /\ segs'[k].uuid = segs[n + k].uuid
               /\ segs'[k].base_gno = segs[n + k].base_gno
               /\ segs'[k].base_offset = segs[n + k].base_offset
               /\ segs'[k].deltas = segs[n + k].deltas
               /\ segs'[k].capacity = segs[n + k].capacity
               /\ Live(segs'[k]) = {i \in Live(segs[n + k]) : OffsetAt(segs[n + k], i) >= until}
<1> DEFINE n == WholeTrimmed(until)
           M == Len(segs)
<1>1. /\ n \in 0..M /\ Len(segs') = M - n /\ M \in Nat
      /\ \A k \in 2..Len(segs') : segs'[k] = segs[n + k]
      /\ Len(segs') # 0 =>
           LET cut == [segs[n + 1] EXCEPT !.tgno = CellsBefore(segs[n + 1], until)]
           IN  segs'[1] = cut /\ n + 1 \in 1..M /\ tail_offset(segs[n + 1]) >= until
  BY TrimShape DEF IInv
<1>2. /\ \A k \in 1..M : GoodSegment(segs[k])
      /\ \A i, j \in 1..M : i < j => tail_offset(segs[i]) < segs[j].base_offset
  BY DEF IInv, SegmentsOrdered
<1> HIDE DEF n, M
<1> SUFFICES ASSUME NEW k \in 1..Len(segs')
             PROVE  /\ n + k \in 1..M
                    /\ GoodSegment(segs'[k])
                    /\ segs'[k].uuid = segs[n + k].uuid
                    /\ segs'[k].base_gno = segs[n + k].base_gno
                    /\ segs'[k].base_offset = segs[n + k].base_offset
                    /\ segs'[k].deltas = segs[n + k].deltas
                    /\ segs'[k].capacity = segs[n + k].capacity
                    /\ Live(segs'[k]) = {i \in Live(segs[n + k]) : OffsetAt(segs[n + k], i) >= until}
  BY DEF n, M
<1>3. until \in Int
  BY DEF IInv
<1>4. Len(segs') # 0 /\ n + 1 \in 1..M /\ n + k \in 1..M
  BY <1>1
<1>5. tail_offset(segs[n + 1]) >= until /\ GoodSegment(segs[n + 1]) /\ GoodSegment(segs[n + k])
  BY <1>1, <1>2, <1>4
<1>6. CASE k = 1
  <2> DEFINE seg == segs[n + 1]
             cut == [seg EXCEPT !.tgno = CellsBefore(seg, until)]
  <2>1. segs'[k] = cut
    BY <1>1, <1>4, <1>6
  <2> HIDE DEF seg
  <2>2. /\ GoodSegment(cut)
        /\ cut.uuid = seg.uuid /\ cut.base_gno = seg.base_gno
        /\ cut.base_offset = seg.base_offset /\ cut.deltas = seg.deltas
        /\ cut.capacity = seg.capacity
        /\ Live(cut) = {i \in Live(seg) : OffsetAt(seg, i) >= until}
    BY <1>3, <1>5, TrimmedSegment DEF seg
  <2> HIDE DEF cut
  <2>3. segs[n + k] = seg
    BY <1>6 DEF seg
  <2> QED BY <1>4, <2>1, <2>2, <2>3
<1>7. CASE k # 1
  <2> DEFINE seg == segs[n + k]
  <2>1. k \in 2..Len(segs')
    BY <1>1, <1>7
  <2>2. segs'[k] = seg
    BY <1>1, <2>1
  <2>3. tail_offset(segs[n + 1]) < seg.base_offset
    <3>1. n + 1 < n + k
      BY <1>1, <2>1
    <3> QED BY <1>2, <1>4, <3>1
  <2> HIDE DEF seg
  <2>4. GoodSegment(seg)
    BY <1>5 DEF seg
  <2>5. ASSUME NEW i \in Live(seg) PROVE OffsetAt(seg, i) >= until
    <3>1. ngno(seg) \in Nat \ {0} /\ seg.tgno \in 0..(ngno(seg) - 1) /\ seg.base_offset \in 1..MaxOffset
      BY <2>4, SegmentTypes
    <3>2. i \in 1..ngno(seg) /\ 1 \in 1..ngno(seg) /\ (i = 1 \/ 1 < i)
      BY <3>1 DEF Live
    <3>3. OffsetAt(seg, i) \in Nat /\ OffsetAt(seg, 1) = seg.base_offset
          /\ OffsetAt(seg, 1) <= OffsetAt(seg, i)
      BY <2>4, <3>2, SegmentOffsets
    <3>4. tail_offset(segs[n + 1]) \in Nat
      BY <1>5, SegmentTypes, SegmentOffsets DEF tail_offset
    <3> QED BY <1>3, <1>5, <2>3, <3>1, <3>3, <3>4, SizesAssumption
  <2>6. Live(seg) = {i \in Live(seg) : OffsetAt(seg, i) >= until}
    BY <2>5
  <2> QED BY <1>4, <2>2, <2>4, <2>6 DEF seg
<1> QED BY <1>6, <1>7

LEMMA TrimKeeps ==
  ASSUME IInv, NEW until \in 1..next, gtidSeqTrim(until)
  PROVE  IInv'
<1> DEFINE n == WholeTrimmed(until)
           M == Len(segs)
           N == Len(segs')
<1>1. /\ n \in 0..M /\ segs' \in Seq(Segment) /\ N = M - n /\ M \in Nat
  <2>1. M \in Nat
    BY DEF IInv
  <2>2. n \in 0..M /\ segs' \in Seq(Segment) /\ N = M - n
    BY TrimShape
  <2> QED BY <2>1, <2>2
<1>2. \A k \in 1..N :
         /\ n + k \in 1..M
         /\ GoodSegment(segs'[k])
         /\ segs'[k].base_offset = segs[n + k].base_offset
         /\ segs'[k].deltas = segs[n + k].deltas
         /\ segs'[k].capacity = segs[n + k].capacity
  BY TrimSegments
<1>3. /\ \A i, j \in 1..M : i < j => tail_offset(segs[i]) < segs[j].base_offset
      /\ \A i \in 1..M : tail_offset(segs[i]) < next
  BY DEF IInv, SegmentsOrdered
<1>4. next' = next /\ next \in 1..(MaxOffset + 1)
  BY DEF gtidSeqTrim, IInv
<1>5. /\ Caps(segs) \in Seq(Nat) /\ Len(Caps(segs)) = M
      /\ \A k \in 1..M : Caps(segs)[k] = segs[k].capacity /\ segs[k].capacity \in Nat \ {0}
  BY CapsType
<1>6. PoolFits(pool', SubSeq(Caps(segs), n + 1, M))
  BY <1>1, PoolTrim DEF gtidSeqTrim
<1> HIDE DEF n, M, N
<1>7. ASSUME NEW k \in 1..N PROVE tail_offset(segs'[k]) = tail_offset(segs[n + k])
  BY <1>2 DEF tail_offset, OffsetAt, ngno
<1>8. ASSUME NEW i \in 1..N, NEW j \in 1..N, i < j
      PROVE  tail_offset(segs'[i]) < segs'[j].base_offset
  <2>1. n + i < n + j
    BY <1>1, <1>8
  <2> QED BY <1>2, <1>3, <1>7, <2>1
<1>9. SegmentsOrdered'
  BY <1>2, <1>3, <1>4, <1>7, <1>8 DEF SegmentsOrdered, N
<1>10. Caps(segs') = SubSeq(Caps(segs), n + 1, M)
  <2> DEFINE c == Caps(segs)
             r == SubSeq(c, n + 1, M)
  <2>1. n + 1 \in Int /\ M \in Int /\ \A k \in (n + 1)..M : c[k] \in Nat
    BY <1>1, <1>5
  <2> HIDE DEF c
  <2>2. /\ r \in Seq(Nat)
        /\ Len(r) = IF n + 1 <= M THEN M - (n + 1) + 1 ELSE 0
        /\ \A k \in 1..(M - (n + 1) + 1) : r[k] = c[(n + 1) + k - 1]
    BY <2>1, SubSeqProperties
  <2>3. M - (n + 1) + 1 = N /\ (~(n + 1 <= M) => N = 0) /\ N \in Nat
    BY <1>1
  <2>4. \A k \in 1..N : (n + 1) + k - 1 = n + k
    BY <1>1
  <2>5. Len(r) = N
    BY <2>2, <2>3
  <2> HIDE DEF r
  <2>6. \A k \in 1..N : r[k] = segs'[k].capacity
    <3> SUFFICES ASSUME NEW k \in 1..N PROVE r[k] = segs'[k].capacity
      OBVIOUS
    <3>1. r[k] = c[n + k]
      BY <2>2, <2>3, <2>4
    <3>2. c[n + k] = segs[n + k].capacity
      BY <1>2, <1>5 DEF c
    <3> QED BY <1>2, <3>1, <3>2
  <2>7. r \in [1..N -> Nat]
    BY <2>2, <2>5, LenProperties
  <2>8. r = [k \in 1..N |-> r[k]]
    BY <2>7
  <2>9. r = [k \in 1..N |-> segs'[k].capacity]
    BY <2>6, <2>8
  <2> QED BY <2>9 DEF r, c, Caps, N
<1> QED BY <1>1, <1>2, <1>4, <1>6, <1>9, <1>10 DEF IInv, N

\* The other steps.
LEMMA FeedKeeps ==
  ASSUME IInv, NEW size \in Sizes, Feed(size)
  PROVE  IInv'
<1>1. next' \in 1..(MaxOffset + 1) /\ next < next'
  <2>1. size \in Nat \ {0} /\ next \in Nat \ {0} /\ next + size <= MaxOffset + 1
    BY SizesAssumption DEF IInv, Sizes
  <2> QED BY <2>1, SizesAssumption DEF Feed
<1>2. \A i \in 1..Len(segs) : tail_offset(segs[i]) < next'
  <2> SUFFICES ASSUME NEW i \in 1..Len(segs) PROVE tail_offset(segs[i]) < next'
    OBVIOUS
  <2>1. GoodSegment(segs[i]) /\ tail_offset(segs[i]) < next /\ next \in 1..(MaxOffset + 1)
    BY DEF IInv, SegmentsOrdered
  <2>2. tail_offset(segs[i]) \in Nat
    BY <2>1, SegmentTypes, SegmentOffsets DEF tail_offset
  <2> QED BY <1>1, <2>1, <2>2, SizesAssumption
<1>3. segs' = segs /\ pool' = pool
  BY DEF Feed
<1> QED BY <1>1, <1>2, <1>3 DEF IInv, SegmentsOrdered

LEMMA EmptyInv ==
  ASSUME segs = << >>, pool = EmptyPool, next \in 1..(MaxOffset + 1)
  PROVE  IInv
<1>1. segs \in Seq(Segment) /\ Len(segs) = 0 /\ << >> \in Seq(Nat)
  OBVIOUS
<1>2. Caps(segs) = << >>
  BY <1>1 DEF Caps
<1>3. PoolFits(pool, << >>)
  BY <1>1, SumEmpty DEF PoolFits, EmptyPool
<1> QED BY <1>1, <1>2, <1>3 DEF IInv, SegmentsOrdered

LEMMA RecreateKeeps ==
  ASSUME IInv, Recreate
  PROVE  IInv'
<1>1. segs' = << >> /\ pool' = EmptyPool /\ next' = next /\ next \in 1..(MaxOffset + 1)
  BY DEF Recreate, IInv
<1>2. segs' \in Seq(Segment) /\ Len(segs') = 0 /\ << >> \in Seq(Nat)
  BY <1>1
<1>3. Caps(segs') = << >>
  BY <1>1, <1>2 DEF Caps
<1>4. PoolFits(pool', << >>)
  BY <1>1, <1>2, SumEmpty DEF PoolFits, EmptyPool
<1> QED BY <1>1, <1>2, <1>3, <1>4 DEF IInv, SegmentsOrdered

LEMMA InitInv == Init => IInv
<1> SUFFICES ASSUME Init PROVE IInv
  OBVIOUS
<1>1. segs = << >> /\ pool = EmptyPool /\ next \in 1..(MaxOffset + 1)
  BY SizesAssumption DEF Init
<1> QED BY <1>1, EmptyInv

LEMMA NextInv == IInv /\ [Next]_vars => IInv'
<1> SUFFICES ASSUME IInv, [Next]_vars PROVE IInv'
  OBVIOUS
<1>1. CASE \E u \in Uuids, g \in 1..MaxGno, size \in Sizes : gtidSeqAppend(u, g, size)
  BY <1>1, AppendKeeps
<1>2. CASE \E size \in Sizes : Feed(size)
  BY <1>2, FeedKeeps
<1>3. CASE \E until \in 1..next : gtidSeqTrim(until)
  BY <1>3, TrimKeeps
<1>4. CASE Recreate
  BY <1>4, RecreateKeeps
<1>5. CASE UNCHANGED vars
  BY <1>5 DEF vars, IInv, SegmentsOrdered
<1> QED BY <1>1, <1>2, <1>3, <1>4, <1>5 DEF Next

LEMMA Invariant == Spec => []IInv
<1>1. Init => IInv
  BY InitInv
<1>2. IInv /\ [Next]_vars => IInv'
  BY NextInv
<1> QED BY <1>1, <1>2, PTL DEF Spec

\* The index keeps its types, for all uuids, sizes and bounds.
THEOREM TypeCorrect == Spec => []TypeOK
<1>1. IInv => TypeOK
  BY DEF IInv, TypeOK, PoolFits
<1> QED BY <1>1, Invariant, PTL

\* No segment is ever empty, and none of its offsets is truncated to the width
\* of a cell or written past its cells: the asserts of gtidSeqTrim and
\* gtidSegmentAppend hold.
THEOREM SegmentsTheorem == Spec => []SegmentsOK
<1>1. IInv => SegmentsOK
  BY DEF IInv, SegmentsOK, GoodSegment
<1> QED BY <1>1, Invariant, PTL

\* Segments follow each other in the stream: the assert of gtidSeqAppend holds.
THEOREM OrderedTheorem == Spec => []SegmentsOrdered
<1>1. IInv => SegmentsOrdered
  BY DEF IInv
<1> QED BY <1>1, Invariant, PTL

\* The counters of the pool are exact: the asserts of gtidSeqDestroy hold.
THEOREM PoolTheorem == Spec => []PoolExact
<1>1. IInv => PoolExact
  <2> SUFFICES ASSUME IInv PROVE PoolExact
    OBVIOUS
  <2>1. PoolFits(pool, Caps(segs)) /\ Len(Caps(segs)) = Len(segs)
    BY CapsType DEF IInv
  <2> QED BY <2>1 DEF PoolExact, PoolFits, Caps
<1> QED BY <1>1, Invariant, PTL

\* No step caches more free segments than it found in use.
THEOREM CacheTheorem == Spec => CacheBounded
<1>1. IInv /\ [Next]_vars => (pool'.nfreeseg > pool.nfreeseg => pool'.nfreeseg <= pool.nsegment)
  <2> SUFFICES ASSUME IInv, [Next]_vars, pool'.nfreeseg > pool.nfreeseg
               PROVE  pool'.nfreeseg <= pool.nsegment
    OBVIOUS
  <2>a. pool.nfreeseg \in Nat /\ pool.nsegment \in Nat
    BY DEF IInv, PoolFits
  <2>1. ASSUME NEW u \in Uuids, NEW g \in 1..MaxGno, NEW size \in Sizes, gtidSeqAppend(u, g, size)
        PROVE  FALSE
    <3>1. PoolFits(pool', Caps(segs')) /\ pool'.nfreeseg <= pool.nfreeseg
      BY <2>1, AppendShape
    <3>2. pool'.nfreeseg \in Nat
      BY <3>1 DEF PoolFits
    <3> QED BY <2>a, <3>1, <3>2
  <2>2. ASSUME pool' = pool PROVE FALSE
    BY <2>a, <2>2
  <2>3. ASSUME NEW until \in 1..next, gtidSeqTrim(until)
        PROVE  pool'.nfreeseg <= pool.nsegment
    <3>1. WholeTrimmed(until) \in 0..Len(segs) /\ pool' = PoolAfterTrim(WholeTrimmed(until))
      BY <2>3, TrimShape DEF gtidSeqTrim
    <3> QED BY <3>1, PoolTrim
  <2>4. CASE Recreate
    BY <2>a, <2>4 DEF Recreate, EmptyPool
  <2> QED BY <2>1, <2>2, <2>3, <2>4 DEF Next, Feed, vars
<1> QED BY <1>1, Invariant, PTL DEF Spec, CacheBounded

----------------------------------------------------------------------------
(* The index the segments stand for.                                       *)

\* The entry of a cell.
Cell(seg, i) == [uuid |-> seg.uuid, gno |-> seg.base_gno + i - 1, offset |-> OffsetAt(seg, i)]

\* Entries, of any list of segments.
EntrySet(s) == {[uuid |-> s[p[1]].uuid, gno |-> s[p[1]].base_gno + p[2] - 1,
                 offset |-> OffsetAt(s[p[1]], p[2])] :
                    p \in {q \in (1..Len(s)) \X (1..MaxOffset) : q[2] \in Live(s[q[1]])}}

LEMMA EntrySetIs ==
  ASSUME NEW s, Len(s) \in Nat,
         \A k \in 1..Len(s) : GoodSegment(s[k]) /\ tail_offset(s[k]) <= MaxOffset
  PROVE  \A e : e \in EntrySet(s) <=> \E k \in 1..Len(s) : \E i \in Live(s[k]) : e = Cell(s[k], i)
<1>1. ASSUME NEW k \in 1..Len(s), NEW i \in Live(s[k]) PROVE i \in 1..MaxOffset
  <2>1. GoodSegment(s[k]) /\ tail_offset(s[k]) <= MaxOffset
    OBVIOUS
  <2>2. ngno(s[k]) \in Nat \ {0} /\ s[k].tgno \in 0..(ngno(s[k]) - 1)
    BY <2>1, SegmentTypes
  <2>3. i \in 1..ngno(s[k])
    BY <2>2 DEF Live
  <2>4. i <= OffsetAt(s[k], i) /\ OffsetAt(s[k], i) <= tail_offset(s[k])
        /\ OffsetAt(s[k], i) \in Nat
    BY <2>1, <2>3, SegmentOffsets
  <2>5. tail_offset(s[k]) \in Nat
    BY <2>1, <2>2, SegmentOffsets DEF tail_offset
  <2> QED BY <2>1, <2>2, <2>3, <2>4, <2>5, SizesAssumption
<1>2. ASSUME NEW e, e \in EntrySet(s)
      PROVE  \E k \in 1..Len(s) : \E i \in Live(s[k]) : e = Cell(s[k], i)
  <2>1. PICK p \in (1..Len(s)) \X (1..MaxOffset) :
           p[2] \in Live(s[p[1]]) /\ e = Cell(s[p[1]], p[2])
    BY <1>2 DEF EntrySet, Cell
  <2>2. p[1] \in 1..Len(s)
    BY <2>1
  <2> QED BY <2>1, <2>2
<1>3. ASSUME NEW e, NEW k \in 1..Len(s), NEW i \in Live(s[k]), e = Cell(s[k], i)
      PROVE  e \in EntrySet(s)
  <2> DEFINE p == <<k, i>>
  <2>1. i \in 1..MaxOffset
    BY <1>1
  <2>2. p \in (1..Len(s)) \X (1..MaxOffset) /\ p[1] = k /\ p[2] = i
    BY <2>1
  <2>3. p \in {q \in (1..Len(s)) \X (1..MaxOffset) : q[2] \in Live(s[q[1]])}
    BY <2>2
  <2> HIDE DEF p
  <2>4. e = [uuid |-> s[p[1]].uuid, gno |-> s[p[1]].base_gno + p[2] - 1,
             offset |-> OffsetAt(s[p[1]], p[2])]
    BY <1>3, <2>2 DEF Cell
  <2> QED BY <2>3, <2>4 DEF EntrySet
<1> QED BY <1>2, <1>3

\* In every state and in the next one.
LEMMA SegmentsFit ==
  ASSUME IInv
  PROVE  /\ Len(segs) \in Nat
         /\ \A k \in 1..Len(segs) : GoodSegment(segs[k]) /\ tail_offset(segs[k]) <= MaxOffset
<1>1. ASSUME NEW k \in 1..Len(segs)
      PROVE  GoodSegment(segs[k]) /\ tail_offset(segs[k]) <= MaxOffset
  <2>1. GoodSegment(segs[k]) /\ tail_offset(segs[k]) < next /\ next \in 1..(MaxOffset + 1)
    BY DEF IInv, SegmentsOrdered
  <2>2. tail_offset(segs[k]) \in Nat
    BY <2>1, SegmentTypes, SegmentOffsets DEF tail_offset
  <2> QED BY <2>1, <2>2, SizesAssumption
<1> QED BY <1>1 DEF IInv

LEMMA EntriesAre ==
  ASSUME IInv
  PROVE  \A e : e \in Entries <=> \E k \in 1..Len(segs) : \E i \in Live(segs[k]) : e = Cell(segs[k], i)
<1>1. Entries = EntrySet(segs)
  BY DEF Entries, EntrySet
<1> QED BY <1>1, SegmentsFit, EntrySetIs

LEMMA EntriesAfter ==
  ASSUME IInv'
  PROVE  \A e : e \in Entries' <=> \E k \in 1..Len(segs') : \E i \in Live(segs'[k]) : e = Cell(segs'[k], i)
<1>1. Entries' = EntrySet(segs')
  BY DEF Entries, EntrySet
<1>2. ASSUME NEW k \in 1..Len(segs')
      PROVE  GoodSegment(segs'[k]) /\ tail_offset(segs'[k]) <= MaxOffset
  <2>1. GoodSegment(segs'[k]) /\ tail_offset(segs'[k]) < next' /\ next' \in 1..(MaxOffset + 1)
    BY DEF IInv, SegmentsOrdered
  <2>2. tail_offset(segs'[k]) \in Nat
    BY <2>1, SegmentTypes, SegmentOffsets DEF tail_offset
  <2> QED BY <2>1, <2>2, SizesAssumption
<1>3. Len(segs') \in Nat
  BY DEF IInv
<1> QED BY <1>1, <1>2, <1>3, EntrySetIs

\* A new entry, at the offset of the command.
LEMMA AppendRefines ==
  ASSUME IInv, NEW u \in Uuids, NEW g \in 1..MaxGno, NEW size \in Sizes, gtidSeqAppend(u, g, size)
  PROVE  Index!Append(u, g)
<1> DEFINE N == Len(segs')
           seg == segs'[N]
           new == [uuid |-> u, gno |-> g, offset |-> next]
<1>1. /\ next \in 1..MaxOffset /\ next' = next + size /\ N \in Nat \ {0}
      /\ GoodSegment(seg)
      /\ tail_offset(seg) = next
      /\ seg.uuid = u /\ end_gno(seg) = g
      /\ \A k \in 1..(N - 1) : segs'[k] = segs[k]
      /\ \/ /\ Len(segs) = N - 1 /\ ngno(seg) = 1 /\ seg.tgno = 0
         \/ /\ Len(segs) = N
            /\ ngno(seg) = ngno(segs[N]) + 1
            /\ seg.uuid = segs[N].uuid /\ seg.base_gno = segs[N].base_gno
            /\ seg.base_offset = segs[N].base_offset
            /\ seg.tgno = segs[N].tgno
            /\ \A i \in 1..ngno(segs[N]) : seg.deltas[i] = segs[N].deltas[i]
  BY AppendShape
<1>2. next' > next
  BY <1>1, SizesAssumption DEF Sizes
<1>3. \A e : e \in Entries <=> \E k \in 1..Len(segs) : \E i \in Live(segs[k]) : e = Cell(segs[k], i)
  BY EntriesAre
<1>4. \A e : e \in Entries' <=> \E k \in 1..N : \E i \in Live(segs'[k]) : e = Cell(segs'[k], i)
  <2>1. IInv'
    BY AppendKeeps
  <2> QED BY <2>1, EntriesAfter
<1>5. \A k \in 1..Len(segs) : GoodSegment(segs[k])
  BY DEF IInv
<1> HIDE DEF N
<1>6. ngno(seg) \in Nat \ {0} /\ seg.tgno \in 0..(ngno(seg) - 1) /\ seg.base_gno \in Nat
  BY <1>1, SegmentTypes, SizesAssumption
<1>7. ngno(seg) \in Live(seg) /\ Cell(seg, ngno(seg)) = new
  <2>1. ngno(seg) \in Live(seg)
    BY <1>6 DEF Live
  <2>2. Cell(seg, ngno(seg)) = new
    BY <1>1, <1>6 DEF Cell, end_gno, tail_offset
  <2> QED BY <2>1, <2>2
<1>8. ASSUME Len(segs) = N - 1, ngno(seg) = 1, seg.tgno = 0
      PROVE  Live(seg) = {ngno(seg)}
  BY <1>8 DEF Live
<1>9. ASSUME Len(segs) = N,
             ngno(seg) = ngno(segs[N]) + 1,
             seg.uuid = segs[N].uuid, seg.base_gno = segs[N].base_gno,
             seg.base_offset = segs[N].base_offset,
             seg.tgno = segs[N].tgno,
             \A i \in 1..ngno(segs[N]) : seg.deltas[i] = segs[N].deltas[i]
      PROVE  /\ Live(seg) = Live(segs[N]) \cup {ngno(seg)}
             /\ \A i \in Live(segs[N]) : Cell(seg, i) = Cell(segs[N], i)
  <2>1. /\ ngno(segs[N]) \in Nat \ {0} /\ segs[N].tgno \in 0..(ngno(segs[N]) - 1)
    <3>1. GoodSegment(segs[N])
      BY <1>1, <1>5, <1>9
    <3> QED BY <3>1, SegmentTypes
  <2>2. Live(seg) = Live(segs[N]) \cup {ngno(seg)}
    BY <1>9, <2>1 DEF Live
  <2>3. \A i \in Live(segs[N]) : i \in 1..ngno(segs[N])
    BY <2>1 DEF Live
  <2>4. \A i \in Live(segs[N]) : Cell(seg, i) = Cell(segs[N], i)
    BY <1>9, <2>3 DEF Cell, OffsetAt
  <2> QED BY <2>2, <2>4
<1> HIDE DEF seg, new
<1>10. ASSUME NEW e, e \in Entries' PROVE e \in Entries \cup {new}
  <2>1. PICK k \in 1..N : \E i \in Live(segs'[k]) : e = Cell(segs'[k], i)
    BY <1>4, <1>10
  <2>2. PICK i \in Live(segs'[k]) : e = Cell(segs'[k], i)
    BY <2>1
  <2>3. CASE k # N
    <3>1. k \in 1..(N - 1) /\ k \in 1..Len(segs)
      BY <1>1, <2>3
    <3> QED BY <1>1, <1>3, <2>2, <3>1
  <2>4. CASE k = N
    <3>1. i \in Live(seg) /\ e = Cell(seg, i)
      BY <2>2, <2>4 DEF seg
    <3>2. CASE Len(segs) = N - 1 /\ ngno(seg) = 1 /\ seg.tgno = 0
      BY <1>7, <1>8, <3>1, <3>2
    <3>3. CASE /\ Len(segs) = N
               /\ ngno(seg) = ngno(segs[N]) + 1
               /\ seg.uuid = segs[N].uuid /\ seg.base_gno = segs[N].base_gno
               /\ seg.base_offset = segs[N].base_offset
               /\ seg.tgno = segs[N].tgno
               /\ \A x \in 1..ngno(segs[N]) : seg.deltas[x] = segs[N].deltas[x]
      <4>1. i \in Live(segs[N]) \cup {ngno(seg)}
        BY <1>9, <3>1, <3>3
      <4>2. CASE i = ngno(seg)
        BY <1>7, <3>1, <4>2
      <4>3. CASE i \in Live(segs[N])
        <5>1. e = Cell(segs[N], i) /\ N \in 1..Len(segs)
          BY <1>1, <1>9, <3>1, <3>3, <4>3
        <5> QED BY <1>3, <4>3, <5>1
      <4> QED BY <4>1, <4>2, <4>3
    <3> QED BY <1>1, <3>2, <3>3
  <2> QED BY <2>3, <2>4
<1>11. new \in Entries'
  <2>1. N \in 1..N /\ segs'[N] = seg
    BY <1>1 DEF seg
  <2> QED BY <1>4, <1>7, <2>1
<1>12. ASSUME NEW e, e \in Entries PROVE e \in Entries'
  <2>1. PICK k \in 1..Len(segs) : \E i \in Live(segs[k]) : e = Cell(segs[k], i)
    BY <1>3, <1>12
  <2>2. PICK i \in Live(segs[k]) : e = Cell(segs[k], i)
    BY <2>1
  <2>3. k \in 1..N
    BY <1>1, <2>1
  <2>4. CASE k # N
    <3>1. segs'[k] = segs[k]
      BY <1>1, <2>3, <2>4
    <3> QED BY <1>4, <2>2, <2>3, <3>1
  <2>5. CASE k = N
    <3>1. /\ Len(segs) = N
          /\ ngno(seg) = ngno(segs[N]) + 1
          /\ seg.uuid = segs[N].uuid /\ seg.base_gno = segs[N].base_gno
          /\ seg.base_offset = segs[N].base_offset
          /\ seg.tgno = segs[N].tgno
          /\ \A x \in 1..ngno(segs[N]) : seg.deltas[x] = segs[N].deltas[x]
      BY <1>1, <2>1, <2>5
    <3>2. i \in Live(seg) /\ Cell(seg, i) = Cell(segs[N], i)
      BY <1>9, <2>2, <2>5, <3>1
    <3>3. segs'[N] = seg
      BY DEF seg
    <3> QED BY <1>4, <2>2, <2>3, <2>5, <3>2, <3>3
  <2> QED BY <2>4, <2>5
<1>13. Entries' = Entries \cup {new}
  BY <1>10, <1>11, <1>12
<1> QED BY <1>2, <1>13 DEF Index!Append, new

\* The entries before `until` leave.
LEMMA TrimRefines ==
  ASSUME IInv, NEW until \in 1..next, gtidSeqTrim(until)
  PROVE  Index!Trim
<1> DEFINE n == WholeTrimmed(until)
           M == Len(segs)
           N == Len(segs')
<1>1. /\ n \in 0..M /\ N = M - n
      /\ \A k \in 1..n : ~(tail_offset(segs[k]) >= until)
  BY TrimShape
<1>2. \A k \in 1..N :
         /\ n + k \in 1..M
         /\ segs'[k].uuid = segs[n + k].uuid
         /\ segs'[k].base_gno = segs[n + k].base_gno
         /\ segs'[k].base_offset = segs[n + k].base_offset
         /\ segs'[k].deltas = segs[n + k].deltas
         /\ Live(segs'[k]) = {i \in Live(segs[n + k]) : OffsetAt(segs[n + k], i) >= until}
  BY TrimSegments
<1>3. \A e : e \in Entries <=> \E k \in 1..M : \E i \in Live(segs[k]) : e = Cell(segs[k], i)
  BY EntriesAre
<1>4. \A e : e \in Entries' <=> \E k \in 1..N : \E i \in Live(segs'[k]) : e = Cell(segs'[k], i)
  <2>1. IInv'
    BY TrimKeeps
  <2> QED BY <2>1, EntriesAfter
<1>5. M \in Nat /\ \A k \in 1..M : GoodSegment(segs[k])
  BY DEF IInv
<1>6. next' = next /\ next \in Int /\ until \in Int
  BY DEF gtidSeqTrim, IInv
<1> HIDE DEF n, M, N
<1>7. \A k \in 1..N : \A i : Cell(segs'[k], i) = Cell(segs[n + k], i)
  BY <1>2 DEF Cell, OffsetAt
<1>8. ASSUME NEW e, e \in Entries' PROVE e \in Entries /\ e.offset >= until
  <2>1. PICK k \in 1..N : \E i \in Live(segs'[k]) : e = Cell(segs'[k], i)
    BY <1>4, <1>8
  <2>2. PICK i \in Live(segs'[k]) : e = Cell(segs'[k], i)
    BY <2>1
  <2>3. /\ n + k \in 1..M /\ i \in Live(segs[n + k]) /\ OffsetAt(segs[n + k], i) >= until
        /\ e = Cell(segs[n + k], i)
    BY <1>2, <1>7, <2>2
  <2>4. e.offset = OffsetAt(segs[n + k], i)
    BY <2>3 DEF Cell
  <2> QED BY <1>3, <2>3, <2>4
<1>9. ASSUME NEW e, e \in Entries, e.offset >= until PROVE e \in Entries'
  <2>1. PICK k \in 1..M : \E i \in Live(segs[k]) : e = Cell(segs[k], i)
    BY <1>3, <1>9
  <2>2. PICK i \in Live(segs[k]) : e = Cell(segs[k], i)
    BY <2>1
  <2>3. OffsetAt(segs[k], i) >= until
    BY <1>9, <2>2 DEF Cell
  <2>4. ~(k \in 1..n)
    <3> SUFFICES ASSUME k \in 1..n PROVE FALSE
      OBVIOUS
    <3>1. GoodSegment(segs[k])
      BY <1>5
    <3>2. ngno(segs[k]) \in Nat \ {0} /\ segs[k].tgno \in 0..(ngno(segs[k]) - 1)
      BY <3>1, SegmentTypes
    <3>3. i \in 1..ngno(segs[k]) /\ ngno(segs[k]) \in 1..ngno(segs[k])
      BY <3>2 DEF Live
    <3>4. OffsetAt(segs[k], i) <= tail_offset(segs[k]) /\ OffsetAt(segs[k], i) \in Nat
          /\ tail_offset(segs[k]) \in Nat
      BY <3>1, <3>3, SegmentOffsets DEF tail_offset
    <3> QED BY <1>1, <1>6, <2>3, <3>4
  <2>5. k - n \in 1..N /\ n + (k - n) = k
    BY <1>1, <1>5, <2>4
  <2>6. i \in Live(segs'[k - n]) /\ e = Cell(segs'[k - n], i)
    BY <1>2, <1>7, <2>2, <2>3, <2>5
  <2> QED BY <1>4, <2>5, <2>6
<1>10. Entries' = {e \in Entries : e.offset >= until}
  BY <1>8, <1>9
<1> QED BY <1>6, <1>10 DEF Index!Trim

LEMMA InitRefines == Init => Index!Init
<1> SUFFICES ASSUME Init PROVE Index!Init
  OBVIOUS
<1>1. segs = << >> /\ next = 1
  BY DEF Init
<1>2. Entries = {}
  BY <1>1 DEF Entries
<1> QED BY <1>1, <1>2 DEF Index!Init

LEMMA NextRefines == IInv /\ [Next]_vars => [Index!Next]_<<Entries, next>>
<1> SUFFICES ASSUME IInv, [Next]_vars PROVE [Index!Next]_<<Entries, next>>
  OBVIOUS
<1>1. ASSUME NEW u \in Uuids, NEW g \in 1..MaxGno, NEW size \in Sizes, gtidSeqAppend(u, g, size)
      PROVE  Index!Next
  BY <1>1, AppendRefines DEF Index!Next
<1>2. ASSUME NEW size \in Sizes, Feed(size) PROVE Index!Next
  <2>1. next' = next + size /\ segs' = segs
    BY <1>2 DEF Feed
  <2>2. next' > next
    BY <2>1, SizesAssumption DEF Sizes, IInv
  <2>3. Entries' = Entries
    BY <2>1 DEF Entries
  <2> QED BY <2>2, <2>3 DEF Index!Next, Index!Feed
<1>3. ASSUME NEW until \in 1..next, gtidSeqTrim(until) PROVE Index!Next
  BY <1>3, TrimRefines DEF Index!Next
<1>4. CASE Recreate
  <2>1. segs' = << >> /\ next' = next
    BY <1>4 DEF Recreate
  <2>2. Entries' = {}
    BY <2>1 DEF Entries
  <2> QED BY <2>1, <2>2 DEF Index!Next, Index!Recreate
<1>5. CASE UNCHANGED vars
  <2>1. segs' = segs /\ next' = next
    BY <1>5 DEF vars
  <2> QED BY <2>1 DEF Entries
<1> QED BY <1>1, <1>2, <1>3, <1>4, <1>5 DEF Next

\* Segments, 16-bit offsets and partial trimming are an index of one entry per
\* command, whatever the stream: gtidSeq implements GtidIndex.
THEOREM Refinement == Spec => ImplementsGtidIndex
<1>1. Init => Index!Init
  BY InitRefines
<1>2. IInv /\ [Next]_vars => [Index!Next]_<<Entries, next>>
  BY NextRefines
<1> QED BY <1>1, <1>2, Invariant, PTL DEF Spec, ImplementsGtidIndex, Index!Spec

----------------------------------------------------------------------------
(* gtidSeqXsync and gtidSeqPsync.                                          *)

\* Cells are in stream order.
LEMMA CellOrder ==
  ASSUME IInv, NEW j \in 1..Len(segs), NEW k \in 1..Len(segs),
         NEW a \in Live(segs[j]), NEW b \in Live(segs[k])
  PROVE  /\ OffsetAt(segs[j], a) \in Nat
         /\ j < k => OffsetAt(segs[j], a) < OffsetAt(segs[k], b)
         /\ j = k /\ a < b => OffsetAt(segs[j], a) < OffsetAt(segs[k], b)
<1>1. /\ GoodSegment(segs[j]) /\ GoodSegment(segs[k])
      /\ j < k => tail_offset(segs[j]) < segs[k].base_offset
  BY DEF IInv, SegmentsOrdered
<1>2. /\ ngno(segs[j]) \in Nat \ {0} /\ segs[j].tgno \in 0..(ngno(segs[j]) - 1)
      /\ ngno(segs[k]) \in Nat \ {0} /\ segs[k].tgno \in 0..(ngno(segs[k]) - 1)
  BY <1>1, SegmentTypes
<1>3. /\ a \in 1..ngno(segs[j]) /\ ngno(segs[j]) \in 1..ngno(segs[j])
      /\ b \in 1..ngno(segs[k]) /\ 1 \in 1..ngno(segs[k])
  <2>1. a \in 1..ngno(segs[j])
    BY <1>2 DEF Live
  <2>2. b \in 1..ngno(segs[k])
    BY <1>2 DEF Live
  <2>3. ngno(segs[j]) \in 1..ngno(segs[j]) /\ 1 \in 1..ngno(segs[k])
    BY <1>2
  <2> QED BY <2>1, <2>2, <2>3
<1>4. /\ OffsetAt(segs[j], a) \in Nat /\ OffsetAt(segs[j], a) <= tail_offset(segs[j])
      /\ tail_offset(segs[j]) \in Nat
  BY <1>1, <1>3, SegmentOffsets DEF tail_offset
<1>5. /\ OffsetAt(segs[k], b) \in Nat /\ OffsetAt(segs[k], 1) \in Nat
      /\ OffsetAt(segs[k], 1) = segs[k].base_offset
      /\ 1 < b => OffsetAt(segs[k], 1) < OffsetAt(segs[k], b)
  BY <1>1, <1>3, SegmentOffsets
<1>6. ASSUME j < k PROVE OffsetAt(segs[j], a) < OffsetAt(segs[k], b)
  <2>1. b = 1 \/ 1 < b
    BY <1>2, <1>3
  <2> QED BY <1>1, <1>4, <1>5, <1>6, <2>1
<1>7. ASSUME j = k, a < b PROVE OffsetAt(segs[j], a) < OffsetAt(segs[k], b)
  BY <1>1, <1>3, <1>7, SegmentOffsets
<1> QED BY <1>4, <1>6, <1>7

\* The gtid of a cell.
GtidAt(seg, i) == <<seg.uuid, seg.base_gno + i - 1>>

\* The cells of a segment from a gno on.
LEMMA GtidsFromIs ==
  ASSUME NEW seg, GoodSegment(seg), NEW g \in Int, g >= start_gno(seg)
  PROVE  \A x : x \in GtidsFrom(seg, g) <=>
                  \E i \in Live(seg) : seg.base_gno + i - 1 >= g /\ x = GtidAt(seg, i)
<1> DEFINE n == ngno(seg)
           b == seg.base_gno
           t == seg.tgno
<1>1. n \in Nat \ {0} /\ t \in 0..(n - 1) /\ b \in Nat
  BY SegmentTypes, SizesAssumption
<1>2. /\ Live(seg) = (t + 1)..n /\ g >= b + t
      /\ GtidsFrom(seg, g) = {<<seg.uuid, k>> : k \in g..(b + n - 1)}
  BY DEF Live, start_gno, end_gno, GtidsFrom
<1> HIDE DEF n, b, t
<1>3. ASSUME NEW k \in g..(b + n - 1)
      PROVE  k - b + 1 \in (t + 1)..n /\ b + (k - b + 1) - 1 = k
  BY <1>1, <1>2
<1>4. ASSUME NEW i \in (t + 1)..n, b + i - 1 >= g
      PROVE  b + i - 1 \in g..(b + n - 1)
  BY <1>1, <1>4
<1>5. ASSUME NEW x, x \in GtidsFrom(seg, g)
      PROVE  \E i \in Live(seg) : b + i - 1 >= g /\ x = GtidAt(seg, i)
  <2>1. PICK k \in g..(b + n - 1) : x = <<seg.uuid, k>>
    BY <1>2, <1>5
  <2>2. k - b + 1 \in Live(seg) /\ b + (k - b + 1) - 1 = k /\ k >= g
    BY <1>2, <1>3, <2>1
  <2>3. x = GtidAt(seg, k - b + 1)
    BY <2>1, <2>2 DEF GtidAt, b
  <2> QED BY <2>2, <2>3
<1>6. ASSUME NEW x, NEW i \in Live(seg), b + i - 1 >= g, x = GtidAt(seg, i)
      PROVE  x \in GtidsFrom(seg, g)
  <2>1. b + i - 1 \in g..(b + n - 1)
    BY <1>2, <1>4, <1>6
  <2>2. x = <<seg.uuid, b + i - 1>>
    BY <1>6 DEF GtidAt, b
  <2> QED BY <1>2, <2>1, <2>2
<1> QED BY <1>5, <1>6 DEF b

\* Whole segments after the k-th.
Whole(k) == UNION {GtidsFrom(segs[i], start_gno(segs[i])) : i \in (k + 1)..Len(segs)}

LEMMA WholeIs ==
  ASSUME IInv, NEW k \in 0..Len(segs)
  PROVE  \A x : x \in Whole(k) <=>
                  \E j \in (k + 1)..Len(segs) : \E i \in Live(segs[j]) : x = GtidAt(segs[j], i)
<1>1. Len(segs) \in Nat /\ \A j \in 1..Len(segs) : GoodSegment(segs[j])
  BY DEF IInv
<1>2. \A j \in (k + 1)..Len(segs) : j \in 1..Len(segs)
  BY <1>1
<1>3. ASSUME NEW j \in 1..Len(segs)
      PROVE  \A x : x \in GtidsFrom(segs[j], start_gno(segs[j])) <=>
                      \E i \in Live(segs[j]) : x = GtidAt(segs[j], i)
  <2> DEFINE seg == segs[j]
  <2>1. GoodSegment(seg)
    BY <1>1
  <2> HIDE DEF seg
  <2>2. ngno(seg) \in Nat \ {0} /\ seg.tgno \in 0..(ngno(seg) - 1) /\ seg.base_gno \in Nat
    BY <2>1, SegmentTypes, SizesAssumption
  <2>3. start_gno(seg) \in Int /\ start_gno(seg) >= start_gno(seg)
    BY <2>2 DEF start_gno
  <2>4. \A i \in Live(seg) : seg.base_gno + i - 1 >= start_gno(seg)
    BY <2>2 DEF start_gno, Live
  <2>5. \A x : x \in GtidsFrom(seg, start_gno(seg)) <=>
                 \E i \in Live(seg) : seg.base_gno + i - 1 >= start_gno(seg) /\ x = GtidAt(seg, i)
    <3> DEFINE g == start_gno(seg)
    <3>1. g \in Int /\ g >= start_gno(seg)
      BY <2>3
    <3> HIDE DEF g
    <3>2. \A x : x \in GtidsFrom(seg, g) <=>
                   \E i \in Live(seg) : seg.base_gno + i - 1 >= g /\ x = GtidAt(seg, i)
      BY <2>1, <3>1, GtidsFromIs
    <3> QED BY <3>2 DEF g
  <2>6. \A x : x \in GtidsFrom(seg, start_gno(seg)) <=>
                 \E i \in Live(seg) : x = GtidAt(seg, i)
    BY <2>4, <2>5
  <2> QED BY <2>6 DEF seg
<1>4. \A x : x \in Whole(k) <=>
              \E j \in (k + 1)..Len(segs) : x \in GtidsFrom(segs[j], start_gno(segs[j]))
  BY DEF Whole
<1>5. \A j \in (k + 1)..Len(segs) :
        \A x : x \in GtidsFrom(segs[j], start_gno(segs[j])) <=>
                 \E i \in Live(segs[j]) : x = GtidAt(segs[j], i)
  BY <1>2, <1>3
<1>6. ASSUME NEW x, x \in Whole(k)
      PROVE  \E j \in (k + 1)..Len(segs) : \E i \in Live(segs[j]) : x = GtidAt(segs[j], i)
  <2>1. PICK j \in (k + 1)..Len(segs) : x \in GtidsFrom(segs[j], start_gno(segs[j]))
    BY <1>4, <1>6
  <2>2. \E i \in Live(segs[j]) : x = GtidAt(segs[j], i)
    BY <1>5, <2>1
  <2> QED BY <2>2
<1>7. ASSUME NEW x, NEW j \in (k + 1)..Len(segs), \E i \in Live(segs[j]) : x = GtidAt(segs[j], i)
      PROVE  x \in Whole(k)
  <2>1. x \in GtidsFrom(segs[j], start_gno(segs[j]))
    BY <1>5, <1>7
  <2> QED BY <1>4, <2>1
<1> QED BY <1>6, <1>7

\* The last segment with a property, 0 if there is none.
LEMMA LastIs ==
  ASSUME NEW n \in Nat, NEW S \in SUBSET (1..n)
  PROVE  LET k == IF S = {} THEN 0 ELSE CHOOSE i \in S : \A j \in S : j <= i
         IN  /\ k \in 0..n
             /\ k # 0 => k \in S
             /\ \A j \in (k + 1)..n : j \notin S
<1>1. CASE S = {}
  BY <1>1
<1>2. CASE S # {}
  <2> DEFINE k == CHOOSE i \in S : \A j \in S : j <= i
  <2>1. S \in SUBSET (0..n)
    OBVIOUS
  <2>2. \E i \in S : \A j \in S : j <= i
    BY <1>2, <2>1, GreatestExists
  <2>3. k \in S /\ \A j \in S : j <= k
    BY <2>2
  <2> HIDE DEF k
  <2>4. k \in 0..n /\ \A j \in (k + 1)..n : j \notin S
    BY <2>3
  <2> QED BY <1>2, <2>3, <2>4 DEF k
<1> QED BY <1>1, <1>2

\* The segment the backward walk of gtidSeqXsync stops at.
LEMMA StopIs ==
  ASSUME IInv, NEW need \in [Uuids -> 1..(MaxGno + 1)]
  PROVE  LET k == XsyncStop(need)
         IN  /\ k \in 0..Len(segs)
             /\ k # 0 => k \in 1..Len(segs) /\ need[segs[k].uuid] > start_gno(segs[k])
             /\ \A j \in (k + 1)..Len(segs) : ~(need[segs[j].uuid] > start_gno(segs[j]))
<1> DEFINE M == Len(segs)
           S == {i \in 1..M : need[segs[i].uuid] > start_gno(segs[i])}
           k == IF S = {} THEN 0 ELSE CHOOSE i \in S : \A j \in S : j <= i
<1>1. M \in Nat
  BY DEF IInv
<1>2. S \in SUBSET (1..M)
  OBVIOUS
<1>3. XsyncStop(need) = k
  BY DEF XsyncStop
<1>4. k \in 0..M /\ (k # 0 => k \in S) /\ \A j \in (k + 1)..M : j \notin S
  <2> HIDE DEF S, M
  <2> QED BY <1>1, <1>2, LastIs
<1> HIDE DEF k, M
<1>5. \A j \in (k + 1)..M : j \in 1..M
  BY <1>1, <1>4
<1> QED BY <1>3, <1>4, <1>5 DEF M

\* What a replica lacks is what follows in the segment of the stop, and every
\* later segment.
LEMMA LackingIs ==
  ASSUME IInv, NEW need \in [Uuids -> 1..(MaxGno + 1)],
         NEW j \in 1..Len(segs), NEW i \in Live(segs[j])
  PROVE  LET k == XsyncStop(need)
         IN  Cell(segs[j], i) \in Index!Lacking(Entries, need) <=>
               j > k \/ (j = k /\ segs[j].base_gno + i - 1 >= need[segs[j].uuid])
<1> DEFINE k == XsyncStop(need)
           M == Len(segs)
           e == Cell(segs[j], i)
<1>1. /\ k \in 0..M
      /\ k # 0 => k \in 1..M /\ need[segs[k].uuid] > start_gno(segs[k])
      /\ \A l \in (k + 1)..M : ~(need[segs[l].uuid] > start_gno(segs[l]))
  BY StopIs
<1>2. M \in Nat /\ \A l \in 1..M : GoodSegment(segs[l])
  BY DEF IInv
<1>3. \A h : h \in Entries <=> \E l \in 1..M : \E c \in Live(segs[l]) : h = Cell(segs[l], c)
  BY EntriesAre
<1>4. ASSUME NEW l \in 1..M
      PROVE  /\ ngno(segs[l]) \in Nat \ {0} /\ segs[l].tgno \in 0..(ngno(segs[l]) - 1)
             /\ segs[l].base_gno \in Nat /\ need[segs[l].uuid] \in Nat
             /\ start_gno(segs[l]) = segs[l].base_gno + segs[l].tgno
             /\ \A c \in Live(segs[l]) : c \in Nat /\ c >= segs[l].tgno + 1
             /\ segs[l].tgno + 1 \in Live(segs[l])
  <2>1. ngno(segs[l]) \in Nat \ {0} /\ segs[l].tgno \in 0..(ngno(segs[l]) - 1)
    BY <1>2, SegmentTypes
  <2>2. segs[l].base_gno \in 1..MaxGno /\ segs[l].uuid \in Uuids
    BY <1>2, SegmentTypes
  <2>3. segs[l].base_gno \in Nat /\ need[segs[l].uuid] \in Nat
    BY <2>2, SizesAssumption
  <2>4. start_gno(segs[l]) = segs[l].base_gno + segs[l].tgno
    BY DEF start_gno
  <2>5. \A c \in Live(segs[l]) : c \in Nat /\ c >= segs[l].tgno + 1
    BY <2>1 DEF Live
  <2>6. segs[l].tgno + 1 \in Live(segs[l])
    BY <2>1 DEF Live
  <2> QED BY <2>1, <2>3, <2>4, <2>5, <2>6
<1>5. \A l \in 1..M : \A c : /\ Cell(segs[l], c).gno = segs[l].base_gno + c - 1
                             /\ Cell(segs[l], c).uuid = segs[l].uuid
                             /\ Cell(segs[l], c).offset = OffsetAt(segs[l], c)
  BY DEF Cell
<1>6. e \in Entries
  BY <1>3
<1>7. e \in Index!Lacking(Entries, need) <=>
        \A h \in Entries : h.gno < need[h.uuid] => h.offset < e.offset
  BY <1>6 DEF Index!Lacking
<1> HIDE DEF k, M, e
<1>8. e = Cell(segs[j], i) /\ e.offset = OffsetAt(segs[j], i) /\ e.uuid = segs[j].uuid
      /\ e.gno = segs[j].base_gno + i - 1 /\ j \in 1..M
  BY <1>5 DEF e, M
<1>9. ASSUME j > k \/ (j = k /\ segs[j].base_gno + i - 1 >= need[segs[j].uuid]),
             NEW h \in Entries, h.gno < need[h.uuid]
      PROVE  h.offset < e.offset
  <2>1. PICK l \in 1..M : \E c \in Live(segs[l]) : h = Cell(segs[l], c)
    BY <1>3, <1>9
  <2>2. PICK c \in Live(segs[l]) : h = Cell(segs[l], c)
    BY <2>1
  <2>3. /\ h.gno = segs[l].base_gno + c - 1 /\ h.uuid = segs[l].uuid
        /\ h.offset = OffsetAt(segs[l], c)
    BY <1>5, <2>2
  <2>4. ~(l \in (k + 1)..M)
    <3>1. segs[l].base_gno + c - 1 < need[segs[l].uuid]
      BY <1>9, <2>3
    <3>2. /\ segs[l].tgno \in 0..(ngno(segs[l]) - 1) /\ ngno(segs[l]) \in Nat
          /\ segs[l].base_gno \in Nat /\ need[segs[l].uuid] \in Nat
          /\ start_gno(segs[l]) = segs[l].base_gno + segs[l].tgno
      BY <1>4
    <3>3. c \in Nat /\ c >= segs[l].tgno + 1
      BY <1>4
    <3>4. need[segs[l].uuid] > start_gno(segs[l])
      <4> DEFINE b == segs[l].base_gno
                 t == segs[l].tgno
                 d == need[segs[l].uuid]
      <4>1. b \in Nat /\ d \in Nat /\ t \in Nat /\ c >= t + 1 /\ start_gno(segs[l]) = b + t
        BY <3>2, <3>3
      <4>2. b + c - 1 < d
        BY <3>1
      <4> HIDE DEF b, t, d
      <4>3. d > start_gno(segs[l])
        BY <3>3, <4>1, <4>2
      <4> QED BY <4>3 DEF d
    <3> QED BY <1>1, <3>4
  <2>5. l <= k
    BY <1>1, <1>2, <2>4
  <2>6. l < j \/ (l = j /\ c < i)
    <3>1. l \in Nat /\ j \in Nat /\ k \in Nat
      BY <1>1, <1>2, <1>8
    <3>2. CASE j > k
      BY <2>5, <3>1, <3>2
    <3>3. CASE j = k /\ segs[j].base_gno + i - 1 >= need[segs[j].uuid]
      <4>1. CASE l = j
        <5> DEFINE b == segs[j].base_gno
                   d == need[segs[j].uuid]
        <5>1. b \in Nat /\ d \in Nat
          BY <1>4, <1>8
        <5>2. i \in Nat /\ c \in Nat
          BY <1>4, <1>8, <4>1
        <5>3. b + i - 1 >= d
          BY <3>3
        <5>4. b + c - 1 < d
          BY <1>9, <2>3, <4>1
        <5> HIDE DEF b, d
        <5>5. c < i
          BY <5>1, <5>2, <5>3, <5>4
        <5> QED BY <4>1, <5>5
      <4>2. CASE l # j
        BY <2>5, <3>1, <3>3, <4>2
      <4> QED BY <4>1, <4>2
    <3> QED BY <1>9, <3>2, <3>3
  <2>7. l \in 1..Len(segs) /\ j \in 1..Len(segs)
    BY <2>1 DEF M
  <2> QED BY <1>8, <2>3, <2>6, <2>7, CellOrder
<1>10. ASSUME \A h \in Entries : h.gno < need[h.uuid] => h.offset < e.offset
       PROVE  j > k \/ (j = k /\ segs[j].base_gno + i - 1 >= need[segs[j].uuid])
  <2>1. j \in Nat /\ k \in Nat
    BY <1>1, <1>2, <1>8
  <2>2. CASE j < k
    <3> DEFINE a == segs[k].tgno + 1
               h == Cell(segs[k], a)
    <3>1. k \in 1..M /\ need[segs[k].uuid] > start_gno(segs[k])
      BY <1>1, <1>8, <2>1, <2>2
    <3>2. a \in Live(segs[k]) /\ h.gno = start_gno(segs[k]) /\ h.uuid = segs[k].uuid
          /\ h.offset = OffsetAt(segs[k], a)
      <4>1. /\ segs[k].tgno \in Nat /\ segs[k].base_gno \in Nat
            /\ start_gno(segs[k]) = segs[k].base_gno + segs[k].tgno
            /\ a \in Live(segs[k])
        BY <1>4, <3>1
      <4>2. h.gno = segs[k].base_gno + a - 1 /\ h.uuid = segs[k].uuid
            /\ h.offset = OffsetAt(segs[k], a)
        BY DEF Cell
      <4>3. segs[k].base_gno + a - 1 = start_gno(segs[k])
        BY <4>1
      <4> QED BY <4>1, <4>2, <4>3
    <3>3. h \in Entries
      BY <1>3, <3>1, <3>2
    <3>4. start_gno(segs[k]) \in Nat /\ need[segs[k].uuid] \in Nat
      <4>1. /\ ngno(segs[k]) \in Nat /\ segs[k].tgno \in 0..(ngno(segs[k]) - 1)
            /\ segs[k].base_gno \in Nat /\ need[segs[k].uuid] \in Nat
            /\ start_gno(segs[k]) = segs[k].base_gno + segs[k].tgno
        BY <1>4, <3>1
      <4>2. segs[k].tgno \in Nat
        BY <4>1
      <4>3. segs[k].base_gno \in Nat
        BY <4>1
      <4>4. \A x, y \in Nat : x + y \in Nat
        OBVIOUS
      <4> QED BY <4>1, <4>2, <4>3, <4>4, Zenon
    <3> HIDE DEF h, a
    <3>5. h.offset < e.offset
      BY <1>10, <3>1, <3>2, <3>3, <3>4
    <3>6. /\ OffsetAt(segs[j], i) < OffsetAt(segs[k], a)
          /\ OffsetAt(segs[j], i) \in Nat /\ OffsetAt(segs[k], a) \in Nat
      <4>1. k \in 1..Len(segs) /\ j \in 1..Len(segs)
        BY <3>1 DEF M
      <4> QED BY <2>2, <3>2, <4>1, CellOrder
    <3> QED BY <1>8, <3>2, <3>5, <3>6
  <2>3. CASE j = k
    <3>1. ~(e.gno < need[e.uuid])
      <4>1. OffsetAt(segs[j], i) \in Nat
        BY CellOrder
      <4> QED BY <1>6, <1>8, <1>10, <4>1
    <3>2. segs[j].base_gno \in Nat /\ need[segs[j].uuid] \in Nat /\ i \in Nat
      BY <1>4, <1>8
    <3>3. ~(segs[j].base_gno + i - 1 < need[segs[j].uuid])
      BY <1>8, <3>1
    <3>4. segs[j].base_gno + i - 1 >= need[segs[j].uuid]
      BY <3>2, <3>3
    <3> QED BY <2>3, <3>4
  <2> QED BY <2>1, <2>2, <2>3
<1> QED BY <1>7, <1>9, <1>10 DEF e, k


LEMMA CellOrderWeak ==
  ASSUME IInv, NEW j \in 1..Len(segs), NEW k \in 1..Len(segs),
         NEW a \in Live(segs[j]), NEW b \in Live(segs[k]), j < k \/ (j = k /\ a <= b)
  PROVE  OffsetAt(segs[j], a) <= OffsetAt(segs[k], b)
<1>1. OffsetAt(segs[j], a) \in Nat /\ OffsetAt(segs[k], b) \in Nat
  BY CellOrder
<1>2. CASE j < k
  <2>1. OffsetAt(segs[j], a) < OffsetAt(segs[k], b)
    BY <1>2, CellOrder
  <2> QED BY <1>1, <2>1
<1>3. CASE j = k /\ a = b
  BY <1>1, <1>3
<1>4. CASE j = k /\ a < b
  <2>1. OffsetAt(segs[j], a) < OffsetAt(segs[k], b)
    BY <1>4, CellOrder
  <2> QED BY <1>1, <2>1
<1>5. a \in Int /\ b \in Int
  <2>1. GoodSegment(segs[j]) /\ GoodSegment(segs[k])
    BY DEF IInv
  <2>2. /\ ngno(segs[j]) \in Nat /\ segs[j].tgno \in 0..(ngno(segs[j]) - 1)
        /\ ngno(segs[k]) \in Nat /\ segs[k].tgno \in 0..(ngno(segs[k]) - 1)
    BY <2>1, SegmentTypes
  <2> QED BY <2>2 DEF Live
<1> QED BY <1>2, <1>3, <1>4, <1>5

\* The first live cell of a segment.
LEMMA FirstLive ==
  ASSUME IInv, NEW k \in 1..Len(segs)
  PROVE  /\ segs[k].tgno + 1 \in Live(segs[k])
         /\ \A i \in Live(segs[k]) : i \in Nat /\ segs[k].tgno + 1 <= i /\ i <= ngno(segs[k])
         /\ ngno(segs[k]) \in Nat /\ segs[k].tgno \in Nat /\ segs[k].base_gno \in Nat
<1>1. GoodSegment(segs[k])
  BY DEF IInv
<1>2. ngno(segs[k]) \in Nat \ {0} /\ segs[k].tgno \in 0..(ngno(segs[k]) - 1)
  BY <1>1, SegmentTypes
<1>3. segs[k].base_gno \in Nat
  BY <1>1, SegmentTypes, SizesAssumption
<1>4. segs[k].tgno + 1 \in Live(segs[k])
  BY <1>2 DEF Live
<1>5. \A i \in Live(segs[k]) : i \in Nat /\ segs[k].tgno + 1 <= i /\ i <= ngno(segs[k])
  BY <1>2 DEF Live
<1> QED BY <1>2, <1>3, <1>4, <1>5

\* The gtids of a set of entries.
LEMMA PairsAre ==
  ASSUME IInv, NEW S \in SUBSET Entries
  PROVE  \A x : x \in {<<e.uuid, e.gno>> : e \in S} <=>
                  \E j \in 1..Len(segs) : \E i \in Live(segs[j]) :
                      Cell(segs[j], i) \in S /\ x = GtidAt(segs[j], i)
<1>1. \A j, i : GtidAt(segs[j], i) = <<Cell(segs[j], i).uuid, Cell(segs[j], i).gno>>
  BY DEF GtidAt, Cell
<1>2. ASSUME NEW e \in S
      PROVE  \E j \in 1..Len(segs) : \E i \in Live(segs[j]) :
                 Cell(segs[j], i) \in S /\ <<e.uuid, e.gno>> = GtidAt(segs[j], i)
  <2>1. PICK j \in 1..Len(segs) : \E i \in Live(segs[j]) : e = Cell(segs[j], i)
    BY EntriesAre
  <2>2. PICK i \in Live(segs[j]) : e = Cell(segs[j], i)
    BY <2>1
  <2>3. Cell(segs[j], i) \in S /\ <<e.uuid, e.gno>> = GtidAt(segs[j], i)
    BY <1>1, <2>2
  <2> QED BY <2>3
<1>3. ASSUME NEW j \in 1..Len(segs), NEW i \in Live(segs[j]), Cell(segs[j], i) \in S
      PROVE  GtidAt(segs[j], i) \in {<<e.uuid, e.gno>> : e \in S}
  BY <1>1, <1>3
<1> QED BY <1>2, <1>3

\* gtidSeqPsync lists what the stream holds from an offset on.
LEMMA PsyncIs ==
  ASSUME IInv, NEW offset \in 1..(MaxOffset + 1)
  PROVE  gtidSeqPsync(offset) = {<<e.uuid, e.gno>> : e \in Index!From(Entries, offset)}
<1> DEFINE M == Len(segs)
           before == {i \in 1..M : OffsetAt(segs[i], segs[i].tgno + 1) < offset}
           k == IF before = {} THEN 0 ELSE CHOOSE i \in before : \A j \in before : j <= i
           cut == CellsBefore(segs[k], offset)
           from == Index!From(Entries, offset)
<1>1. M \in Nat /\ offset \in Int
  BY SizesAssumption DEF IInv
<1>2. k \in 0..M /\ (k # 0 => k \in before) /\ \A j \in (k + 1)..M : j \notin before
  <2>1. before \in SUBSET (1..M)
    OBVIOUS
  <2> HIDE DEF before, M
  <2> QED BY <1>1, <2>1, LastIs
<1>3. gtidSeqPsync(offset) =
        IF k = 0 THEN Whole(k)
        ELSE GtidsFrom(segs[k], segs[k].base_gno + cut) \cup Whole(k)
  BY DEF gtidSeqPsync, Whole
<1>4. \A j \in 1..M : j \in before <=> OffsetAt(segs[j], segs[j].tgno + 1) < offset
  OBVIOUS
<1> HIDE DEF before, k
<1>5. k # 0 => /\ k \in 1..Len(segs) /\ k \in 1..M
               /\ OffsetAt(segs[k], segs[k].tgno + 1) < offset
  BY <1>1, <1>2, <1>4
<1>6. ASSUME k # 0
      PROVE  /\ cut \in segs[k].tgno..ngno(segs[k])
             /\ \A i \in (segs[k].tgno + 1)..cut : OffsetAt(segs[k], i) < offset
             /\ \A i \in (cut + 1)..ngno(segs[k]) : OffsetAt(segs[k], i) >= offset
  <2>1. GoodSegment(segs[k])
    BY <1>5, <1>6 DEF IInv
  <2> QED BY <1>1, <2>1, CellsBeforeIs
<1> HIDE DEF cut
<1>7. ASSUME NEW j \in 1..M, NEW i \in Live(segs[j])
      PROVE  OffsetAt(segs[j], i) >= offset <=> j > k \/ (j = k /\ i >= cut + 1)
  <2>1. j \in 1..Len(segs) /\ j \in Nat /\ k \in Nat
    BY <1>1, <1>2
  <2>2. OffsetAt(segs[j], i) \in Nat
    BY <2>1, CellOrder
  <2>3. CASE j > k
    <3>1. j \in (k + 1)..M
      BY <1>1, <2>1, <2>3
    <3>2. ~(OffsetAt(segs[j], segs[j].tgno + 1) < offset)
      BY <1>2, <1>4, <3>1
    <3>3. segs[j].tgno + 1 \in Live(segs[j]) /\ segs[j].tgno + 1 <= i
      BY <2>1, FirstLive
    <3>4. OffsetAt(segs[j], segs[j].tgno + 1) <= OffsetAt(segs[j], i)
      BY <2>1, <3>3, CellOrderWeak
    <3>5. OffsetAt(segs[j], segs[j].tgno + 1) \in Nat
      BY <2>1, <3>3, CellOrder
    <3> QED BY <1>1, <2>2, <2>3, <3>2, <3>4, <3>5
  <2>4. CASE j < k
    <3>1. k # 0 /\ k \in 1..Len(segs)
      BY <1>5, <2>1, <2>4
    <3>2. segs[k].tgno + 1 \in Live(segs[k])
      BY <3>1, FirstLive
    <3>3. /\ OffsetAt(segs[j], i) < OffsetAt(segs[k], segs[k].tgno + 1)
          /\ OffsetAt(segs[k], segs[k].tgno + 1) \in Nat
      BY <2>1, <2>4, <3>1, <3>2, CellOrder
    <3>4. OffsetAt(segs[k], segs[k].tgno + 1) < offset
      BY <1>5, <3>1
    <3> QED BY <1>1, <2>1, <2>2, <2>4, <3>3, <3>4
  <2>5. CASE j = k
    <3>1. k # 0
      BY <2>1, <2>5
    <3>2. /\ i \in Nat /\ segs[k].tgno + 1 <= i /\ i <= ngno(segs[k])
          /\ ngno(segs[k]) \in Nat /\ segs[k].tgno \in Nat
      BY <2>1, <2>5, FirstLive
    <3>3. cut \in Nat
      BY <1>6, <3>1, <3>2
    <3>4. CASE i >= cut + 1
      <4>1. i \in (cut + 1)..ngno(segs[k])
        BY <3>2, <3>3, <3>4
      <4>2. OffsetAt(segs[k], i) >= offset
        BY <1>6, <3>1, <4>1
      <4> QED BY <2>5, <3>4, <4>2
    <3>5. CASE ~(i >= cut + 1)
      <4>1. i \in (segs[k].tgno + 1)..cut
        BY <3>2, <3>3, <3>5
      <4>2. OffsetAt(segs[k], i) < offset
        BY <1>6, <3>1, <4>1
      <4>3. ~(OffsetAt(segs[j], i) >= offset)
        BY <1>1, <2>2, <2>5, <4>2
      <4> QED BY <2>1, <2>5, <3>5, <4>3
    <3> QED BY <3>4, <3>5
  <2> QED BY <2>1, <2>3, <2>4, <2>5
<1>8. from \in SUBSET Entries
      /\ \A j \in 1..M : \A i \in Live(segs[j]) :
             Cell(segs[j], i) \in from <=> OffsetAt(segs[j], i) >= offset
  <2>1. \A j \in 1..M : \A i \in Live(segs[j]) : Cell(segs[j], i) \in Entries
    BY EntriesAre
  <2>2. \A j, i : Cell(segs[j], i).offset = OffsetAt(segs[j], i)
    BY DEF Cell
  <2> QED BY <2>1, <2>2 DEF Index!From
<1> HIDE DEF from
<1>9. \A x : x \in {<<e.uuid, e.gno>> : e \in from} <=>
               \E j \in 1..M : \E i \in Live(segs[j]) :
                   (j > k \/ (j = k /\ i >= cut + 1)) /\ x = GtidAt(segs[j], i)
  <2>1. \A x : x \in {<<e.uuid, e.gno>> : e \in from} <=>
                 \E j \in 1..M : \E i \in Live(segs[j]) :
                     Cell(segs[j], i) \in from /\ x = GtidAt(segs[j], i)
    BY <1>8, PairsAre
  <2>2. \A j \in 1..M : \A i \in Live(segs[j]) :
            Cell(segs[j], i) \in from <=> (j > k \/ (j = k /\ i >= cut + 1))
    BY <1>7, <1>8
  <2> QED BY <2>1, <2>2
<1>10. \A x : x \in Whole(k) <=>
                \E j \in (k + 1)..M : \E i \in Live(segs[j]) : x = GtidAt(segs[j], i)
  BY <1>2, WholeIs
<1>11. ASSUME k # 0
       PROVE  \A x : x \in GtidsFrom(segs[k], segs[k].base_gno + cut) <=>
                       \E i \in Live(segs[k]) : i >= cut + 1 /\ x = GtidAt(segs[k], i)
  <2>1. GoodSegment(segs[k]) /\ k \in 1..Len(segs)
    BY <1>5, <1>11 DEF IInv
  <2>2. /\ \A i \in Live(segs[k]) : i \in Nat
        /\ ngno(segs[k]) \in Nat /\ segs[k].tgno \in Nat /\ segs[k].base_gno \in Nat
    BY <2>1, FirstLive
  <2>3. cut \in Nat /\ cut >= segs[k].tgno
    BY <1>6, <1>11, <2>2
  <2> DEFINE g == segs[k].base_gno + cut
  <2>4. g \in Int /\ g >= start_gno(segs[k])
    BY <2>2, <2>3 DEF start_gno
  <2>5. \A i \in Live(segs[k]) : segs[k].base_gno + i - 1 >= g <=> i >= cut + 1
    BY <2>2, <2>3
  <2> HIDE DEF g
  <2>6. \A x : x \in GtidsFrom(segs[k], g) <=>
                 \E i \in Live(segs[k]) : segs[k].base_gno + i - 1 >= g /\ x = GtidAt(segs[k], i)
    BY <2>1, <2>4, GtidsFromIs
  <2>7. \A x : x \in GtidsFrom(segs[k], g) <=>
                 \E i \in Live(segs[k]) : i >= cut + 1 /\ x = GtidAt(segs[k], i)
    BY <2>5, <2>6
  <2> QED BY <2>7 DEF g
<1>12. \A j : j \in (k + 1)..M <=> j \in 1..M /\ j > k
  BY <1>1, <1>2
<1>13. \A x : x \in gtidSeqPsync(offset) <=> x \in {<<e.uuid, e.gno>> : e \in from}
  <2>1. CASE k = 0
    <3>1. \A j \in 1..M : j > k /\ j # k
      BY <1>1, <2>1
    <3>2. gtidSeqPsync(offset) = Whole(k)
      BY <1>3, <2>1
    <3>3. \A j : j \in (k + 1)..M <=> j \in 1..M
      BY <1>12, <3>1
    <3>4. \A x : x \in {<<e.uuid, e.gno>> : e \in from} <=>
                   \E j \in 1..M : \E i \in Live(segs[j]) : x = GtidAt(segs[j], i)
      BY <1>9, <3>1
    <3> QED BY <1>10, <3>2, <3>3, <3>4
  <2>2. CASE k # 0
    <3>1. gtidSeqPsync(offset) = GtidsFrom(segs[k], segs[k].base_gno + cut) \cup Whole(k)
      BY <1>3, <2>2
    <3>2. k \in 1..M
      BY <1>5, <2>2
    <3>3. ASSUME NEW x, x \in gtidSeqPsync(offset)
          PROVE  x \in {<<e.uuid, e.gno>> : e \in from}
      <4>1. CASE x \in Whole(k)
        <5>1. \E j \in 1..M : \E i \in Live(segs[j]) : j > k /\ x = GtidAt(segs[j], i)
          BY <1>10, <1>12, <4>1
        <5> QED BY <1>9, <5>1
      <4>2. CASE x \in GtidsFrom(segs[k], segs[k].base_gno + cut)
        <5>1. \E i \in Live(segs[k]) : i >= cut + 1 /\ x = GtidAt(segs[k], i)
          BY <1>11, <2>2, <4>2
        <5> QED BY <1>9, <3>2, <5>1
      <4> QED BY <3>1, <3>3, <4>1, <4>2
    <3>4. ASSUME NEW x, x \in {<<e.uuid, e.gno>> : e \in from}
          PROVE  x \in gtidSeqPsync(offset)
      <4>1. PICK j \in 1..M : \E i \in Live(segs[j]) :
                    (j > k \/ (j = k /\ i >= cut + 1)) /\ x = GtidAt(segs[j], i)
        BY <1>9, <3>4
      <4>2. CASE j > k
        <5>1. x \in Whole(k)
          BY <1>10, <1>12, <4>1, <4>2
        <5> QED BY <3>1, <5>1
      <4>3. CASE j = k /\ ~(j > k)
        <5>1. \E i \in Live(segs[k]) : i >= cut + 1 /\ x = GtidAt(segs[k], i)
          BY <4>1, <4>3
        <5>2. x \in GtidsFrom(segs[k], segs[k].base_gno + cut)
          BY <1>11, <2>2, <5>1
        <5> QED BY <3>1, <5>2
      <4> QED BY <4>1, <4>2, <4>3
    <3> QED BY <3>3, <3>4
  <2> QED BY <2>1, <2>2
<1> QED BY <1>13 DEF from

\* What a master offers an offset of its stream is exactly what the stream
\* holds from there.
THEOREM PsyncTheorem == Spec => []PsyncAgrees
<1>1. IInv => PsyncAgrees
  BY PsyncIs DEF PsyncAgrees
<1> QED BY <1>1, Invariant, PTL

\* gtidSeqXsync finds where what a replica lacks begins, and lists it.
LEMMA XsyncIs ==
  ASSUME IInv, NEW need \in [Uuids -> 1..(MaxGno + 1)]
  PROVE  LET lacking == Index!Lacking(Entries, need)
             found == gtidSeqXsync(need)
         IN  /\ found.cont = {<<e.uuid, e.gno>> : e \in lacking}
             /\ IF lacking = {} THEN found.offset = -1
                ELSE /\ found.offset \in {e.offset : e \in lacking}
                     /\ \A e \in lacking : found.offset <= e.offset
<1> DEFINE M == Len(segs)
           k == XsyncStop(need)
           g == need[segs[k].uuid]
           c == g - segs[k].base_gno + 1
           cut == k # 0 /\ g <= end_gno(segs[k])
           lacking == Index!Lacking(Entries, need)
           found == gtidSeqXsync(need)
<1>1. M \in Nat
  BY DEF IInv
<1>2. /\ k \in 0..M
      /\ k # 0 => k \in 1..Len(segs) /\ g > start_gno(segs[k])
  BY StopIs
<1>3. cut => found = [offset |-> OffsetAt(segs[k], c), cont |-> GtidsFrom(segs[k], g) \cup Whole(k)]
  BY DEF gtidSeqXsync, Whole
<1>4. ~cut => found = [offset |-> IF k = M THEN -1
                                  ELSE OffsetAt(segs[k + 1], segs[k + 1].tgno + 1),
                       cont |-> Whole(k)]
  BY DEF gtidSeqXsync, Whole
<1>5. lacking \in SUBSET Entries
  BY DEF Index!Lacking
<1>6. \A j \in 1..M : \A i \in Live(segs[j]) :
        Cell(segs[j], i) \in lacking <=>
          j > k \/ (j = k /\ segs[j].base_gno + i - 1 >= need[segs[j].uuid])
  BY LackingIs
<1>7. cut <=> k # 0 /\ g <= end_gno(segs[k])
  OBVIOUS
<1> HIDE DEF k, found, lacking, cut
<1>8. ASSUME k # 0
      PROVE  /\ g \in Nat /\ segs[k].base_gno \in Nat /\ segs[k].tgno \in Nat
             /\ ngno(segs[k]) \in Nat
             /\ g > segs[k].base_gno + segs[k].tgno
             /\ end_gno(segs[k]) = segs[k].base_gno + ngno(segs[k]) - 1
             /\ \A i \in Live(segs[k]) : i \in Nat /\ i <= ngno(segs[k])
             /\ Live(segs[k]) = (segs[k].tgno + 1)..ngno(segs[k])
  <2>1. k \in 1..Len(segs) /\ g > start_gno(segs[k])
    BY <1>2, <1>8
  <2>2. GoodSegment(segs[k])
    BY <2>1 DEF IInv
  <2>3. segs[k].uuid \in Uuids
    BY <2>2, SegmentTypes
  <2>4. g \in Nat
    BY <2>3, SizesAssumption
  <2>5. /\ \A i \in Live(segs[k]) : i \in Nat /\ i <= ngno(segs[k])
        /\ ngno(segs[k]) \in Nat /\ segs[k].tgno \in Nat /\ segs[k].base_gno \in Nat
    BY <2>1, FirstLive
  <2>6. g > segs[k].base_gno + segs[k].tgno
    BY <2>1 DEF start_gno
  <2> QED BY <2>4, <2>5, <2>6 DEF end_gno, Live
<1>9. ASSUME cut
      PROVE  /\ c \in Live(segs[k])
             /\ \A i \in Live(segs[k]) : segs[k].base_gno + i - 1 >= g <=> c <= i
  <2>1. k # 0 /\ g <= end_gno(segs[k])
    BY <1>7, <1>9
  <2>2. /\ g \in Nat /\ segs[k].base_gno \in Nat /\ segs[k].tgno \in Nat
        /\ ngno(segs[k]) \in Nat /\ g > segs[k].base_gno + segs[k].tgno
        /\ g <= segs[k].base_gno + ngno(segs[k]) - 1
        /\ Live(segs[k]) = (segs[k].tgno + 1)..ngno(segs[k])
    BY <1>8, <2>1
  <2> HIDE DEF g
  <2>3. c \in Live(segs[k])
    <3> DEFINE b == segs[k].base_gno
               t == segs[k].tgno
               n == ngno(segs[k])
    <3>1. /\ g \in Nat /\ b \in Nat /\ t \in Nat /\ n \in Nat
          /\ g > b + t /\ g <= b + n - 1 /\ c = g - b + 1
          /\ Live(segs[k]) = (t + 1)..n
      BY <2>2
    <3> HIDE DEF b, t, n, c
    <3>2. c \in (t + 1)..n
      BY <3>1
    <3> QED BY <3>1, <3>2
  <2>4. \A i \in Live(segs[k]) : segs[k].base_gno + i - 1 >= g <=> c <= i
    <3>1. ASSUME NEW i \in Live(segs[k])
          PROVE  segs[k].base_gno + i - 1 >= g <=> c <= i
      <4> DEFINE b == segs[k].base_gno
      <4>1. i \in Nat /\ b \in Nat /\ g \in Nat /\ c = g - b + 1
        BY <1>8, <2>1, <2>2
      <4> HIDE DEF b, c
      <4>2. b + i - 1 >= g <=> c <= i
        BY <4>1
      <4> QED BY <4>2 DEF b
    <3> QED BY <3>1
  <2> QED BY <2>3, <2>4
<1>10. ASSUME ~cut, k # 0, NEW i \in Live(segs[k])
       PROVE  ~(segs[k].base_gno + i - 1 >= g)
  <2>1. ~(g <= end_gno(segs[k]))
    BY <1>7, <1>10
  <2>2. /\ g \in Nat /\ segs[k].base_gno \in Nat /\ ngno(segs[k]) \in Nat
        /\ ~(g <= segs[k].base_gno + ngno(segs[k]) - 1)
        /\ i \in Nat /\ i <= ngno(segs[k])
    BY <1>8, <1>10, <2>1
  <2> HIDE DEF g
  <2> QED BY <2>2
<1>11. \A j : j \in (k + 1)..M <=> j \in 1..M /\ j > k
  BY <1>1, <1>2
<1>12. \A x : x \in Whole(k) <=>
                \E j \in 1..M : \E i \in Live(segs[j]) : j > k /\ x = GtidAt(segs[j], i)
  <2>1. \A x : x \in Whole(k) <=>
                 \E j \in (k + 1)..M : \E i \in Live(segs[j]) : x = GtidAt(segs[j], i)
    BY <1>2, WholeIs
  <2> QED BY <1>11, <2>1
<1>13. \A x : x \in {<<e.uuid, e.gno>> : e \in lacking} <=>
                \E j \in 1..M : \E i \in Live(segs[j]) :
                    /\ j > k \/ (j = k /\ segs[j].base_gno + i - 1 >= need[segs[j].uuid])
                    /\ x = GtidAt(segs[j], i)
  <2>1. \A x : x \in {<<e.uuid, e.gno>> : e \in lacking} <=>
                 \E j \in 1..M : \E i \in Live(segs[j]) :
                     Cell(segs[j], i) \in lacking /\ x = GtidAt(segs[j], i)
    BY <1>5, PairsAre
  <2> QED BY <1>6, <2>1
<1>14. ASSUME cut
       PROVE  \A x : x \in GtidsFrom(segs[k], g) <=>
                       \E i \in Live(segs[k]) : segs[k].base_gno + i - 1 >= g /\ x = GtidAt(segs[k], i)
  <2>1. k # 0
    BY <1>7, <1>14
  <2>2. GoodSegment(segs[k])
    BY <1>2, <2>1 DEF IInv
  <2>3. g \in Nat /\ segs[k].base_gno \in Nat /\ segs[k].tgno \in Nat
        /\ g > segs[k].base_gno + segs[k].tgno
    BY <1>8, <2>1
  <2> HIDE DEF g
  <2>4. g \in Int /\ g >= start_gno(segs[k])
    BY <2>3 DEF start_gno
  <2> QED BY <2>2, <2>4, GtidsFromIs
<1>15. found.cont = {<<e.uuid, e.gno>> : e \in lacking}
  <2>1. CASE cut
    <3>1. found.cont = GtidsFrom(segs[k], g) \cup Whole(k)
      BY <1>3, <2>1
    <3>2. k \in 1..M
      BY <1>2, <1>7, <2>1
    <3>3. ASSUME NEW x, x \in found.cont
          PROVE  x \in {<<e.uuid, e.gno>> : e \in lacking}
      <4>1. CASE x \in Whole(k)
        BY <1>12, <1>13, <4>1
      <4>2. CASE x \in GtidsFrom(segs[k], g)
        <5>1. \E i \in Live(segs[k]) : segs[k].base_gno + i - 1 >= g /\ x = GtidAt(segs[k], i)
          BY <1>14, <2>1, <4>2
        <5> QED BY <1>13, <3>2, <5>1
      <4> QED BY <3>1, <3>3, <4>1, <4>2
    <3>4. ASSUME NEW x, x \in {<<e.uuid, e.gno>> : e \in lacking}
          PROVE  x \in found.cont
      <4>1. PICK j \in 1..M : \E i \in Live(segs[j]) :
                    /\ j > k \/ (j = k /\ segs[j].base_gno + i - 1 >= need[segs[j].uuid])
                    /\ x = GtidAt(segs[j], i)
        BY <1>13, <3>4
      <4>2. CASE j > k
        <5>1. x \in Whole(k)
          BY <1>12, <4>1, <4>2
        <5> QED BY <3>1, <5>1
      <4>3. CASE j = k /\ ~(j > k)
        <5>1. \E i \in Live(segs[k]) : segs[k].base_gno + i - 1 >= g /\ x = GtidAt(segs[k], i)
          BY <4>1, <4>3
        <5>2. x \in GtidsFrom(segs[k], g)
          BY <1>14, <2>1, <5>1
        <5> QED BY <3>1, <5>2
      <4> QED BY <4>1, <4>2, <4>3
    <3> QED BY <3>3, <3>4
  <2>2. CASE ~cut
    <3>1. found.cont = Whole(k)
      BY <1>4, <2>2
    <3>2. \A j \in 1..M : \A i \in Live(segs[j]) :
              j = k => ~(segs[j].base_gno + i - 1 >= need[segs[j].uuid])
      <4>1. ASSUME NEW j \in 1..M, NEW i \in Live(segs[j]), j = k
            PROVE  ~(segs[j].base_gno + i - 1 >= need[segs[j].uuid])
        <5>1. k # 0 /\ i \in Live(segs[k])
          BY <4>1
        <5> QED BY <1>10, <2>2, <4>1, <5>1
      <4> QED BY <4>1
    <3>3. \A x : x \in {<<e.uuid, e.gno>> : e \in lacking} <=>
                   \E j \in 1..M : \E i \in Live(segs[j]) : j > k /\ x = GtidAt(segs[j], i)
      BY <1>13, <3>2
    <3> QED BY <1>12, <3>1, <3>3
  <2> QED BY <2>1, <2>2
<1>16. ASSUME NEW m \in 1..M, NEW a \in Live(segs[m]), Cell(segs[m], a) \in lacking,
              found.offset = OffsetAt(segs[m], a),
              \A j \in 1..M : \A i \in Live(segs[j]) :
                  Cell(segs[j], i) \in lacking => m < j \/ (m = j /\ a <= i)
       PROVE  /\ lacking # {} /\ found.offset \in {e.offset : e \in lacking}
              /\ \A e \in lacking : found.offset <= e.offset
  <2>1. \A j, i : Cell(segs[j], i).offset = OffsetAt(segs[j], i)
    BY DEF Cell
  <2>2. found.offset \in {e.offset : e \in lacking}
    BY <1>16, <2>1
  <2>3. ASSUME NEW e \in lacking PROVE found.offset <= e.offset
    <3>1. PICK j \in 1..Len(segs) : \E i \in Live(segs[j]) : e = Cell(segs[j], i)
      BY <1>5, EntriesAre
    <3>2. PICK i \in Live(segs[j]) : e = Cell(segs[j], i)
      BY <3>1
    <3>3. m < j \/ (m = j /\ a <= i)
      BY <1>16, <3>2
    <3>4. OffsetAt(segs[m], a) <= OffsetAt(segs[j], i)
      BY <3>3, CellOrderWeak
    <3> QED BY <1>16, <2>1, <3>2, <3>4
  <2> QED BY <1>16, <2>2, <2>3
<1>17. IF lacking = {} THEN found.offset = -1
       ELSE /\ found.offset \in {e.offset : e \in lacking}
            /\ \A e \in lacking : found.offset <= e.offset
  <2>1. CASE cut
    <3>1. found.offset = OffsetAt(segs[k], c)
      BY <1>3, <2>1
    <3>2. k \in 1..M /\ k # 0
      BY <1>2, <1>7, <2>1
    <3>3. c \in Live(segs[k]) /\ \A i \in Live(segs[k]) : segs[k].base_gno + i - 1 >= g <=> c <= i
      BY <1>9, <2>1
    <3>4. c <= c
      BY <1>8, <3>2
    <3> HIDE DEF c
    <3>5. Cell(segs[k], c) \in lacking
      BY <1>6, <3>2, <3>3, <3>4
    <3>6. \A j \in 1..M : \A i \in Live(segs[j]) :
              Cell(segs[j], i) \in lacking => k < j \/ (k = j /\ c <= i)
      <4>1. ASSUME NEW j \in 1..M, NEW i \in Live(segs[j]), Cell(segs[j], i) \in lacking
            PROVE  k < j \/ (k = j /\ c <= i)
        <5>1. j > k \/ (j = k /\ segs[j].base_gno + i - 1 >= need[segs[j].uuid])
          BY <1>6, <4>1
        <5>2. CASE j > k
          BY <1>1, <1>2, <5>2
        <5>3. CASE j = k /\ segs[j].base_gno + i - 1 >= need[segs[j].uuid]
          <6>1. i \in Live(segs[k]) /\ segs[k].base_gno + i - 1 >= g
            BY <5>3
          <6> QED BY <3>3, <5>3, <6>1
        <5> QED BY <5>1, <5>2, <5>3
      <4> QED BY <4>1
    <3> QED BY <1>16, <3>1, <3>2, <3>3, <3>5, <3>6
  <2>2. ASSUME ~cut
        PROVE  \A j \in 1..M : \A i \in Live(segs[j]) : Cell(segs[j], i) \in lacking <=> j > k
    <3>1. ASSUME NEW j \in 1..M, NEW i \in Live(segs[j])
          PROVE  Cell(segs[j], i) \in lacking <=> j > k
      <4>1. ASSUME j = k PROVE ~(segs[j].base_gno + i - 1 >= need[segs[j].uuid])
        <5>1. k # 0 /\ i \in Live(segs[k])
          BY <4>1
        <5> QED BY <1>10, <2>2, <4>1, <5>1
      <4> QED BY <1>6, <4>1
    <3> QED BY <3>1
  <2>3. CASE ~cut /\ k = M
    <3>1. found.offset = -1
      BY <1>4, <2>3
    <3>2. \A j \in 1..M : ~(j > k)
      BY <1>1, <2>3
    <3>3. lacking = {}
      <4>1. ASSUME NEW e \in lacking PROVE FALSE
        <5>1. PICK j \in 1..Len(segs) : \E i \in Live(segs[j]) : e = Cell(segs[j], i)
          BY <1>5, EntriesAre
        <5> QED BY <2>2, <2>3, <3>2, <5>1
      <4> QED BY <4>1
    <3> QED BY <3>1, <3>3
  <2>4. CASE ~cut /\ k # M
    <3> DEFINE m == k + 1
               a == segs[m].tgno + 1
    <3>1. found.offset = OffsetAt(segs[m], a)
      BY <1>4, <2>4
    <3>2. m \in 1..M /\ m > k /\ \A j \in 1..M : j > k => m < j \/ m = j
      BY <1>1, <1>2, <2>4
    <3> HIDE DEF m
    <3>3. a \in Live(segs[m]) /\ \A i \in Live(segs[m]) : a <= i
      BY <3>2, FirstLive
    <3> HIDE DEF a
    <3>4. Cell(segs[m], a) \in lacking
      BY <2>2, <2>4, <3>2, <3>3
    <3>5. \A j \in 1..M : \A i \in Live(segs[j]) :
              Cell(segs[j], i) \in lacking => m < j \/ (m = j /\ a <= i)
      BY <2>2, <2>4, <3>2, <3>3
    <3> QED BY <1>16, <3>1, <3>2, <3>3, <3>4, <3>5
  <2> QED BY <2>1, <2>3, <2>4
<1> QED BY <1>15, <1>17 DEF found, lacking

\* A replica is sent nothing it has, from the first command it lacks on.
THEOREM XsyncTheorem == Spec => []XsyncAgrees
<1>1. IInv => XsyncAgrees
  <2> SUFFICES ASSUME IInv PROVE XsyncAgrees
    OBVIOUS
  <2> QED BY XsyncIs DEF XsyncAgrees
<1> QED BY <1>1, Invariant, PTL
=============================================================================
