------------------------ MODULE GtidIntervalsProofs -------------------------
(***************************************************************************)
(* Proofs about GtidIntervals, for every set of lists and every MaxGno.    *)
(***************************************************************************)
EXTENDS GtidIntervals, WellFoundedInduction, TLAPS

\* A list as every operation finds it and must leave it.
GoodList(g) ==
    /\ g \in [nodes : SUBSET Node, tail : Node \cup {Header}]
    /\ SeparatedNodes(g.nodes)
    /\ IsTail(g)

\* The fields of a node are integers within bounds.
LEMMA NodeFields ==
  ASSUME NEW n \in Node \cup {Header}
  PROVE  /\ n.start \in 0..MaxGno
         /\ n.end \in 0..MaxGno
         /\ n.start <= n.end
         /\ n # Header => n \in Node /\ n.start >= 1
         /\ n.start = 0 => n = Header
BY MaxGnoAssumption DEF Node, Header

\* The header is not a node.
LEMMA HeaderFields ==
  Header.start = 0 /\ Header.end = 0 /\ Header \notin Node
BY DEF Node, Header

\* A pair of gnos in order is a node.
LEMMA MkNode ==
  ASSUME NEW s \in 1..MaxGno, NEW e \in 1..MaxGno, s <= e
  PROVE  /\ [start |-> s, end |-> e] \in Node
         /\ [start |-> s, end |-> e].start = s
         /\ [start |-> s, end |-> e].end = e
BY DEF Node

\* A gno is covered exactly when some node's range contains it.
LEMMA CoveredIff ==
  ASSUME NEW N \in SUBSET Node, NEW x
  PROVE  x \in Covered(N) <=>
           /\ x \in 1..MaxGno
           /\ \E n \in N : n.start <= x /\ x <= n.end
BY MaxGnoAssumption DEF Covered, Node

\* A walk that lets the nodes of S pass stops at the greatest of them.
LEMMA LastOfIsGreatest ==
  ASSUME NEW S \in SUBSET (Node \cup {Header}), S # {}
  PROVE  /\ LastOf(S) \in S
         /\ \A m \in S : m.start <= LastOf(S).start
<1> DEFINE T == {MaxGno - n.start : n \in S}
<1>1. T \subseteq Nat /\ T # {}
  BY NodeFields, MaxGnoAssumption
<1>2. PICK t \in T : \A u \in T : ~(<<u, t>> \in OpToRel(<, Nat))
  BY <1>1, NatLessThanWellFounded, WFMin
<1>3. PICK n \in S : t = MaxGno - n.start
  BY <1>2
<1>4. \A m \in S : m.start <= n.start
  <2> SUFFICES ASSUME NEW m \in S PROVE m.start <= n.start
    OBVIOUS
  <2>1. MaxGno - m.start \in T
    OBVIOUS
  <2>2. ~(MaxGno - m.start < t)
    BY <2>1, <1>1, <1>2 DEF OpToRel
  <2>3. QED
    BY <2>2, <1>3, NodeFields, MaxGnoAssumption
<1>5. QED
  BY <1>4 DEF LastOf

\* forwards[0] is the least node after n.
LEMMA ForwardIsLeast ==
  ASSUME NEW N \in SUBSET Node, NEW n \in Node \cup {Header}, After(N, n) # {}
  PROVE  /\ Forward(N, n) \in N
         /\ Forward(N, n).start > n.start
         /\ \A k \in N : k.start > n.start => Forward(N, n).start <= k.start
<1> DEFINE T == {k.start : k \in After(N, n)}
<1>1. T \subseteq Nat /\ T # {}
  BY NodeFields, MaxGnoAssumption DEF After
<1>2. PICK t \in T : \A u \in T : ~(<<u, t>> \in OpToRel(<, Nat))
  BY <1>1, NatLessThanWellFounded, WFMin
<1>3. PICK m \in After(N, n) : t = m.start
  BY <1>2
<1>4. \A k \in After(N, n) : m.start <= k.start
  <2> SUFFICES ASSUME NEW k \in After(N, n) PROVE m.start <= k.start
    OBVIOUS
  <2>1. k.start \in T
    OBVIOUS
  <2>2. ~(k.start < t)
    BY <2>1, <1>1, <1>2 DEF OpToRel
  <2>3. QED
    BY <2>2, <1>3, NodeFields, MaxGnoAssumption DEF After
<1>5. Forward(N, n) \in After(N, n)
      /\ \A k \in After(N, n) : Forward(N, n).start <= k.start
  BY <1>4 DEF Forward
<1>6. QED
  BY <1>5 DEF After

\* What Add must do to a list: leave it good, and add the range.
AddsRange(g, h, start, end) ==
    /\ GoodList(h)
    /\ Covered(h.nodes) = Covered(g.nodes) \cup (start..end)

\* Gno x lies in the range of some node of N.
In(N, x) == \E n \in N : n.start <= x /\ x <= n.end

\* How a goal about covered gnos is reduced to one about nodes.
LEMMA CoveredUnion ==
  ASSUME NEW M \in SUBSET Node, NEW N \in SUBSET Node, NEW S \in SUBSET (1..MaxGno),
         \A x \in 1..MaxGno : In(M, x) <=> In(N, x) \/ x \in S
  PROVE  Covered(M) = Covered(N) \cup S
<1>1. \A x : x \in Covered(M) <=> x \in Covered(N) \cup S
  BY CoveredIff DEF In
<1>2. QED
  BY <1>1

\* Removing and re-adding aside, two nodes of a good list with different
\* starts are a gap apart.
LEMMA GapBetween ==
  ASSUME NEW N \in SUBSET Node, SeparatedNodes(N),
         NEW m \in N, NEW n \in N, m.start < n.start
  PROVE  m.end + 1 < n.start
BY NodeFields, MaxGnoAssumption DEF SeparatedNodes

\* Add, fast path: extending the tail keeps the list good.
LEMMA AddToTailCorrect ==
  ASSUME NEW g, GoodList(g), NEW s \in 1..MaxGno, NEW e \in 1..MaxGno, s <= e,
         g.tail # Header, g.tail.end + 1 = s
  PROVE  AddsRange(g, AddToTail(g, e), s, e)
<1> DEFINE x == [start |-> g.tail.start, end |-> e]
           h == AddToTail(g, e)
<1>1. g.nodes \in SUBSET Node /\ g.tail \in g.nodes
      /\ (\A n \in g.nodes : n.start <= g.tail.start)
  BY NodeFields, MaxGnoAssumption DEF GoodList, IsTail, After
<1>2. x \in Node /\ x.start = g.tail.start /\ x.end = e /\ g.tail.end < e
  BY <1>1, MkNode, NodeFields, MaxGnoAssumption
<1>3. h.nodes = (g.nodes \ {g.tail}) \cup {x} /\ h.tail = x
      /\ h \in [nodes : SUBSET Node, tail : Node \cup {Header}]
  BY <1>1, <1>2 DEF AddToTail
<1> HIDE DEF x, h
<1>4. \A n \in g.nodes \ {g.tail} : n.start < x.start /\ n.end + 1 < x.start
  BY <1>1, <1>2, NodeFields, MaxGnoAssumption DEF GoodList, SeparatedNodes
<1>5. SeparatedNodes(h.nodes)
  BY <1>3, <1>4 DEF SeparatedNodes, GoodList
<1>6. IsTail(h)
  BY <1>2, <1>3, <1>4, NodeFields, MaxGnoAssumption DEF IsTail, After
<1>7. Covered(h.nodes) = Covered(g.nodes) \cup (s..e)
  <2> SUFFICES ASSUME NEW y \in 1..MaxGno
               PROVE  In(h.nodes, y) <=> In(g.nodes, y) \/ y \in s..e
    <3>1. h.nodes \in SUBSET Node /\ (s..e) \in SUBSET (1..MaxGno)
      BY <1>3, MaxGnoAssumption
    <3>2. QED
      BY <3>1, <1>1, CoveredUnion, Zenon
  <2>1. x.start <= y /\ y <= x.end <=>
          \/ g.tail.start <= y /\ y <= g.tail.end
          \/ s <= y /\ y <= e
    BY <1>1, <1>2, NodeFields, MaxGnoAssumption
  <2>2. QED
    BY <2>1, <1>1, <1>3 DEF In
<1>8. QED
  BY <1>3, <1>5, <1>6, <1>7 DEF AddsRange, GoodList, h

\* The searches of Add: every node is left of the range, right of it, or
\* between the two places the searches stop at.
LEMMA AddSearch ==
  ASSUME NEW g, GoodList(g), NEW s \in 1..MaxGno, NEW e \in 1..MaxGno, s <= e
  PROVE  /\ AddLeft(g.nodes, s) \in g.nodes \cup {Header}
         /\ AddRight(g.nodes, e) \in g.nodes \cup {Header}
         /\ \A n \in g.nodes :
              /\ n.end + 1 < s <=> n.start <= AddLeft(g.nodes, s).start
              /\ n.start <= e + 1 <=> n.start <= AddRight(g.nodes, e).start
         /\ AddLeft(g.nodes, s) # AddRight(g.nodes, e) =>
              AddLeft(g.nodes, s).start < AddRight(g.nodes, e).start
<1> DEFINE L == {Header} \cup {n \in g.nodes : n.end + 1 < s}
           R == {Header} \cup {n \in g.nodes : e + 1 >= n.start}
           p == LastOf(L)
           q == LastOf(R)
<1>1. g.nodes \in SUBSET Node /\ SeparatedNodes(g.nodes)
  BY DEF GoodList
<1>2. p \in L /\ (\A m \in L : m.start <= p.start)
  BY <1>1, LastOfIsGreatest
<1>3. q \in R /\ (\A m \in R : m.start <= q.start)
  BY <1>1, LastOfIsGreatest
<1>4. AddLeft(g.nodes, s) = p /\ AddRight(g.nodes, e) = q
  BY DEF AddLeft, AddRight
<1> HIDE DEF p, q
<1>5. \A n \in g.nodes : n.end + 1 < s <=> n.start <= p.start
  <2> SUFFICES ASSUME NEW n \in g.nodes, n.start <= p.start
               PROVE  n.end + 1 < s
    BY <1>2
  <2>0. n \in Node /\ n.start >= 1
    BY <1>1, NodeFields, HeaderFields
  <2>1. p \in g.nodes /\ p.end + 1 < s
    BY <2>0, <1>1, <1>2, NodeFields, HeaderFields, MaxGnoAssumption
  <2>2. QED
    BY <2>1, <1>1, NodeFields, MaxGnoAssumption DEF SeparatedNodes
<1>6. \A n \in g.nodes : n.start <= e + 1 <=> n.start <= q.start
  <2> SUFFICES ASSUME NEW n \in g.nodes, n.start <= q.start
               PROVE  n.start <= e + 1
    BY <1>1, <1>3, NodeFields, MaxGnoAssumption
  <2>0. n \in Node /\ n.start >= 1
    BY <1>1, NodeFields, HeaderFields
  <2>1. q \in g.nodes /\ q.start <= e + 1
    BY <2>0, <1>1, <1>3, NodeFields, HeaderFields, MaxGnoAssumption
  <2>2. QED
    BY <2>1, <1>1, NodeFields, MaxGnoAssumption
<1>7. p # q => p.start < q.start
  <2> SUFFICES ASSUME p # q PROVE p.start < q.start
    OBVIOUS
  <2>1. p \in R
    BY <1>1, <1>2, NodeFields, MaxGnoAssumption
  <2>2. p.start <= q.start
    BY <2>1, <1>3
  <2>3. p \in Node \cup {Header} /\ q \in Node \cup {Header}
    BY <1>1, <1>2, <1>3
  <2>4. p.start # q.start
    <3> SUFFICES ASSUME p.start = q.start PROVE FALSE
      OBVIOUS
    <3>1. CASE p = Header \/ q = Header
      BY <3>1, <2>3, NodeFields, HeaderFields
    <3>2. CASE p \in g.nodes /\ q \in g.nodes
      BY <3>2, <1>1, NodeFields, MaxGnoAssumption DEF SeparatedNodes
    <3>3. QED
      BY <3>1, <3>2, <1>2, <1>3
  <2>5. QED
    BY <2>2, <2>3, <2>4, NodeFields, MaxGnoAssumption
<1>8. QED
  BY <1>2, <1>3, <1>4, <1>5, <1>6, <1>7

\* Add, no neighbour: a new node keeps the list good.
LEMMA AddNewCorrect ==
  ASSUME NEW g, GoodList(g), NEW s \in 1..MaxGno, NEW e \in 1..MaxGno, s <= e,
         AddLeft(g.nodes, s) = AddRight(g.nodes, e)
  PROVE  AddsRange(g, AddNew(g, s, e), s, e)
<1> DEFINE x == [start |-> s, end |-> e]
           h == AddNew(g, s, e)
           N == g.nodes \cup {x}
<1>1. g.nodes \in SUBSET Node /\ SeparatedNodes(g.nodes)
      /\ g.tail \in Node \cup {Header}
  BY DEF GoodList
<1>2. x \in Node /\ x.start = s /\ x.end = e
  BY MkNode
<1>3. h.nodes = N /\ h.tail = Advance(N, g.tail)
  BY DEF AddNew
<1>4. N \in SUBSET Node
  BY <1>1, <1>2
<1>5. \A n \in g.nodes : n.end + 1 < s \/ e + 1 < n.start
  BY <1>1, AddSearch, NodeFields, MaxGnoAssumption
<1> HIDE DEF x, h
<1>6. SeparatedNodes(N)
  BY <1>1, <1>2, <1>5, NodeFields, MaxGnoAssumption DEF SeparatedNodes
<1>7. h.tail \in N /\ After(N, h.tail) = {}
  <2>1. CASE After(N, g.tail) = {}
    <3>1. h.tail = g.tail
      BY <2>1, <1>3 DEF Advance
    <3>2. g.nodes # {}
      BY <2>1, <1>2, NodeFields, MaxGnoAssumption DEF GoodList, IsTail, After, Header
    <3>3. QED
      BY <2>1, <3>1, <3>2 DEF GoodList, IsTail
  <2>2. CASE After(N, g.tail) # {}
    <3>1. h.tail = Forward(N, g.tail)
      BY <2>2, <1>3 DEF Advance
    <3>2. h.tail \in N /\ h.tail.start > g.tail.start
      BY <2>2, <3>1, <1>1, <1>4, ForwardIsLeast
    <3>3. \A n \in g.nodes : n.start <= g.tail.start
      BY <1>1, NodeFields, MaxGnoAssumption DEF GoodList, IsTail, After
    <3>4. h.tail = x
      BY <3>2, <3>3, <1>1, <1>4, NodeFields, MaxGnoAssumption
    <3>5. QED
      BY <3>2, <3>3, <3>4, <1>1, <1>2, NodeFields, MaxGnoAssumption DEF After
  <2>3. QED
    BY <2>1, <2>2
<1>8. GoodList(h)
  <2>1. h = [nodes |-> N, tail |-> h.tail]
    BY <1>3 DEF h, AddNew
  <2>2. h \in [nodes : SUBSET Node, tail : Node \cup {Header}]
    BY <2>1, <1>4, <1>7
  <2>3. IsTail(h)
    BY <1>3, <1>7 DEF IsTail
  <2>4. QED
    BY <2>2, <2>3, <1>3, <1>6 DEF GoodList
<1>9. Covered(h.nodes) = Covered(g.nodes) \cup (s..e)
  <2> DEFINE M == h.nodes
             S == s..e
  <2>1. M \in SUBSET Node /\ S \in SUBSET (1..MaxGno)
    BY <1>3, <1>4, MaxGnoAssumption
  <2>2. \A y \in 1..MaxGno : In(M, y) <=> In(g.nodes, y) \/ y \in S
    BY <1>2, <1>3, MaxGnoAssumption DEF In
  <2> HIDE DEF M, S, N
  <2>3. Covered(M) = Covered(g.nodes) \cup S
    BY <2>1, <2>2, <1>1, CoveredUnion
  <2>4. QED
    BY <2>3 DEF M, S
<1>10. QED
  BY <1>8, <1>9 DEF AddsRange, h

\* Add, joining: the range and everything it meets become one node.
LEMMA AddJoinCorrect ==
  ASSUME NEW g, GoodList(g), NEW s \in 1..MaxGno, NEW e \in 1..MaxGno, s <= e,
         AddLeft(g.nodes, s) # AddRight(g.nodes, e)
  PROVE  AddsRange(g, AddJoin(g, s, e), s, e)
<1> DEFINE p == AddLeft(g.nodes, s)
           r == AddRight(g.nodes, e)
           l == Forward(g.nodes, p)
           x == [start |-> MinOf(s, l.start), end |-> MaxOf(e, r.end)]
           gone == {n \in g.nodes : l.start <= n.start /\ n.start <= r.start}
           h == AddJoin(g, s, e)
<1>1. g.nodes \in SUBSET Node /\ SeparatedNodes(g.nodes)
      /\ g.tail \in Node \cup {Header}
  BY DEF GoodList
<1>2. p \in g.nodes \cup {Header} /\ r \in g.nodes \cup {Header}
      /\ p.start < r.start
      /\ \A n \in g.nodes : /\ n.end + 1 < s <=> n.start <= p.start
                            /\ n.start <= e + 1 <=> n.start <= r.start
  BY AddSearch
<1>3. h.nodes = (g.nodes \ gone) \cup {x}
      /\ h.tail = (IF g.tail = r THEN x ELSE g.tail)
      /\ h = [nodes |-> h.nodes, tail |-> h.tail]
  BY DEF AddJoin
<1>4. l \in g.nodes /\ l.start > p.start
      /\ (\A k \in g.nodes : k.start > p.start => l.start <= k.start)
      /\ r \in g.nodes
  <2>1. r \in g.nodes
    BY <1>1, <1>2, NodeFields, HeaderFields, MaxGnoAssumption
  <2>2. After(g.nodes, p) # {}
    BY <2>1, <1>1, <1>2, NodeFields, MaxGnoAssumption DEF After
  <2>3. p \in Node \cup {Header}
    BY <1>1, <1>2
  <2>4. QED
    BY <2>1, <2>2, <2>3, <1>1, ForwardIsLeast
<1> HIDE DEF p, r, l, h
<1>5. x \in Node /\ x.start = MinOf(s, l.start) /\ x.end = MaxOf(e, r.end)
  <2>1. MinOf(s, l.start) \in 1..MaxGno /\ MinOf(s, l.start) <= s
    BY <1>1, <1>4, NodeFields, HeaderFields, MaxGnoAssumption DEF MinOf
  <2>2. MaxOf(e, r.end) \in 1..MaxGno /\ e <= MaxOf(e, r.end)
    BY <1>1, <1>4, NodeFields, HeaderFields, MaxGnoAssumption DEF MaxOf
  <2>3. MinOf(s, l.start) <= MaxOf(e, r.end)
    BY <2>1, <2>2, MaxGnoAssumption
  <2>4. QED
    BY <2>1, <2>2, <2>3, MkNode
<1>6. /\ x.start <= s /\ x.start <= l.start /\ (x.start = s \/ x.start = l.start)
      /\ e <= x.end /\ r.end <= x.end /\ (x.end = e \/ x.end = r.end)
  BY <1>1, <1>4, <1>5, NodeFields, MaxGnoAssumption DEF MinOf, MaxOf
<1> HIDE DEF x
<1>7. l.end + 1 >= s /\ r.start <= e + 1 /\ l.start <= r.start
  BY <1>1, <1>2, <1>4, NodeFields, MaxGnoAssumption
<1>8. \A n \in g.nodes \ gone :
         \/ n.end + 1 < x.start /\ n.start < l.start
         \/ x.end + 1 < n.start /\ r.start < n.start
  <2> SUFFICES ASSUME NEW n \in g.nodes \ gone
               PROVE  \/ n.end + 1 < x.start /\ n.start < l.start
                      \/ x.end + 1 < n.start /\ r.start < n.start
    OBVIOUS
  <2>1. CASE n.start < l.start
    <3>1. n.end + 1 < s
      BY <2>1, <1>1, <1>2, <1>4, NodeFields, MaxGnoAssumption
    <3>2. n.end + 1 < l.start
      BY <2>1, <1>1, <1>4, GapBetween
    <3>3. QED
      BY <2>1, <3>1, <3>2, <1>6
  <2>2. CASE r.start < n.start
    <3>1. e + 1 < n.start
      BY <2>2, <1>1, <1>2, NodeFields, MaxGnoAssumption
    <3>2. r.end + 1 < n.start
      BY <2>2, <1>1, <1>4, GapBetween
    <3>3. QED
      BY <2>2, <3>1, <3>2, <1>6
  <2>3. QED
    BY <2>1, <2>2, <1>1, <1>4, NodeFields, MaxGnoAssumption
<1>9. SeparatedNodes(h.nodes)
  BY <1>1, <1>3, <1>8 DEF SeparatedNodes
<1>10. h.tail \in h.nodes /\ After(h.nodes, h.tail) = {}
  <2>0. g.tail \in g.nodes /\ \A n \in g.nodes : n.start <= g.tail.start
    BY <1>1, <1>4, NodeFields, MaxGnoAssumption DEF GoodList, IsTail, After
  <2>1. CASE g.tail = r
    <3>1. \A n \in g.nodes \ gone : n.end + 1 < x.start
      BY <2>0, <2>1, <1>1, <1>8, NodeFields, MaxGnoAssumption
    <3>2. QED
      BY <2>1, <3>1, <1>1, <1>3, <1>5, NodeFields, MaxGnoAssumption DEF After
  <2>2. CASE g.tail # r
    <3>1. r.start < g.tail.start
      BY <2>0, <2>2, <1>1, <1>4, NodeFields, MaxGnoAssumption DEF SeparatedNodes
    <3>2. g.tail \in h.nodes
      BY <2>0, <3>1, <1>1, <1>3, <1>4, NodeFields, MaxGnoAssumption
    <3>3. x.start <= g.tail.start
      BY <3>1, <1>1, <1>4, <1>5, <1>6, <1>7, NodeFields, MaxGnoAssumption
    <3>4. QED
      BY <2>0, <2>2, <3>2, <3>3, <1>1, <1>3, <1>5, NodeFields, MaxGnoAssumption
      DEF After
  <2>3. QED
    BY <2>1, <2>2
<1>11. GoodList(h)
  <2>1. h.nodes \in SUBSET Node
    BY <1>1, <1>3, <1>5
  <2>2. QED
    BY <2>1, <1>3, <1>9, <1>10 DEF GoodList, IsTail
<1>12. \A y \in 1..MaxGno : In(h.nodes, y) <=> In(g.nodes, y) \/ y \in s..e
  <2> SUFFICES ASSUME NEW y \in 1..MaxGno
               PROVE  In(h.nodes, y) <=> In(g.nodes, y) \/ y \in s..e
    OBVIOUS
  <2>1. ASSUME NEW n \in gone, n.start <= y, y <= n.end
        PROVE  x.start <= y /\ y <= x.end
    <3>1. n.end <= r.end
      BY <1>1, <1>4, GapBetween, NodeFields, MaxGnoAssumption DEF SeparatedNodes
    <3>2. QED
      BY <2>1, <3>1, <1>1, <1>4, <1>5, <1>6, NodeFields, MaxGnoAssumption
  <2>2. ASSUME x.start <= y, y <= x.end
        PROVE  \/ l.start <= y /\ y <= l.end
               \/ r.start <= y /\ y <= r.end
               \/ y \in s..e
    BY <2>2, <1>1, <1>4, <1>5, <1>6, <1>7, NodeFields, MaxGnoAssumption
  <2>3. y \in s..e => x.start <= y /\ y <= x.end
    BY <1>1, <1>5, <1>6, NodeFields, MaxGnoAssumption
  <2>4. ASSUME In(h.nodes, y) PROVE In(g.nodes, y) \/ y \in s..e
    BY <2>2, <2>4, <1>3, <1>4 DEF In
  <2>5. ASSUME In(g.nodes, y) \/ y \in s..e PROVE In(h.nodes, y)
    BY <2>1, <2>3, <2>5, <1>3 DEF In
  <2>6. QED
    BY <2>4, <2>5
<1>13. Covered(h.nodes) = Covered(g.nodes) \cup (s..e)
  <2> DEFINE M == h.nodes
             S == s..e
  <2>1. M \in SUBSET Node /\ S \in SUBSET (1..MaxGno)
    BY <1>1, <1>3, <1>5, MaxGnoAssumption
  <2>2. \A y \in 1..MaxGno : In(M, y) <=> In(g.nodes, y) \/ y \in S
    BY <1>12
  <2> HIDE DEF M, S, gone
  <2>3. Covered(M) = Covered(g.nodes) \cup S
    BY <2>1, <2>2, <1>1, CoveredUnion
  <2>4. QED
    BY <2>3 DEF M, S
<1>14. QED
  BY <1>11, <1>13 DEF AddsRange, h

\* gtidIntervalSkipListAdd adds exactly the range and keeps the list sorted,
\* disjoint, non-adjacent and its tail right.
THEOREM AddCorrect ==
  ASSUME NEW g, GoodList(g), NEW s \in 1..MaxGno, NEW e \in 1..MaxGno, s <= e
  PROVE  AddsRange(g, gtidIntervalSkipListAdd(g, s, e), s, e)
BY AddToTailCorrect, AddNewCorrect, AddJoinCorrect DEF gtidIntervalSkipListAdd

----------------------------------------------------------------------------
\* What Remove must do to a list: leave it good, without the range.
RemovesRange(g, h, start, end) ==
    /\ GoodList(h)
    /\ Covered(h.nodes) = Covered(g.nodes) \ (start..end)

\* The counterpart of CoveredUnion.
LEMMA CoveredMinus ==
  ASSUME NEW M \in SUBSET Node, NEW N \in SUBSET Node, NEW S,
         \A x \in 1..MaxGno : In(M, x) <=> In(N, x) /\ x \notin S
  PROVE  Covered(M) = Covered(N) \ S
<1>1. \A x : x \in Covered(M) <=> x \in Covered(N) \ S
  BY CoveredIff DEF In
<1>2. QED
  BY <1>1

\* The searches of Remove: which nodes start before the range, which end
\* within or before it, and in which order the two searches stop.
LEMMA RemoveSearch ==
  ASSUME NEW g, GoodList(g), NEW s \in 1..MaxGno, NEW e \in 1..MaxGno, s <= e
  PROVE  /\ RemoveLeft(g.nodes, s) \in g.nodes \cup {Header}
         /\ RemoveRight(g.nodes, e) \in g.nodes \cup {Header}
         /\ \A n \in g.nodes :
              /\ n.start < s <=> n.start <= RemoveLeft(g.nodes, s).start
              /\ n.end <= e <=> n.start <= RemoveRight(g.nodes, e).start
         /\ RemoveRight(g.nodes, e).end < RemoveLeft(g.nodes, s).start <=>
              RemoveRight(g.nodes, e).start < RemoveLeft(g.nodes, s).start
<1> DEFINE L == {Header} \cup {n \in g.nodes : n.start < s}
           R == {Header} \cup {n \in g.nodes : n.end <= e}
           p == LastOf(L)
           q == LastOf(R)
<1>1. g.nodes \in SUBSET Node /\ SeparatedNodes(g.nodes)
  BY DEF GoodList
<1>2. p \in L /\ (\A m \in L : m.start <= p.start)
  BY <1>1, LastOfIsGreatest
<1>3. q \in R /\ (\A m \in R : m.start <= q.start)
  BY <1>1, LastOfIsGreatest
<1>4. RemoveLeft(g.nodes, s) = p /\ RemoveRight(g.nodes, e) = q
  BY DEF RemoveLeft, RemoveRight
<1> HIDE DEF p, q
<1>5. \A n \in g.nodes : n.start < s <=> n.start <= p.start
  <2> SUFFICES ASSUME NEW n \in g.nodes, n.start <= p.start
               PROVE  n.start < s
    BY <1>2
  <2>0. n \in Node /\ n.start >= 1
    BY <1>1, NodeFields, HeaderFields
  <2>1. p \in g.nodes /\ p.start < s
    BY <2>0, <1>1, <1>2, NodeFields, HeaderFields, MaxGnoAssumption
  <2>2. QED
    BY <2>1, <1>1, NodeFields, MaxGnoAssumption
<1>6. \A n \in g.nodes : n.end <= e <=> n.start <= q.start
  <2> SUFFICES ASSUME NEW n \in g.nodes, n.start <= q.start
               PROVE  n.end <= e
    BY <1>3
  <2>0. n \in Node /\ n.start >= 1
    BY <1>1, NodeFields, HeaderFields
  <2>1. q \in g.nodes /\ q.end <= e
    BY <2>0, <1>1, <1>3, NodeFields, HeaderFields, MaxGnoAssumption
  <2>2. QED
    BY <2>1, <1>1, NodeFields, MaxGnoAssumption DEF SeparatedNodes
<1>7. q.end < p.start <=> q.start < p.start
  <2>1. p \in Node \cup {Header} /\ q \in Node \cup {Header}
    BY <1>1, <1>2, <1>3
  <2>2. CASE q = Header \/ p = Header
    BY <2>1, <2>2, NodeFields, HeaderFields, MaxGnoAssumption
  <2>3. CASE q \in g.nodes /\ p \in g.nodes
    BY <2>1, <2>3, <1>1, GapBetween, NodeFields, MaxGnoAssumption
  <2>4. QED
    BY <2>2, <2>3, <1>2, <1>3
<1>8. QED
  BY <1>2, <1>3, <1>4, <1>5, <1>6, <1>7

\* Remove, inside one node: the two halves keep the list good.
LEMMA RemoveSplitCorrect ==
  ASSUME NEW g, GoodList(g), NEW s \in 1..MaxGno, NEW e \in 1..MaxGno, s <= e,
         RemoveRight(g.nodes, e).end < RemoveLeft(g.nodes, s).start
  PROVE  RemovesRange(g, RemoveSplit(g, s, e), s, e)
<1> DEFINE l == RemoveLeft(g.nodes, s)
           lo == [start |-> l.start, end |-> s - 1]
           hi == [start |-> e + 1, end |-> l.end]
           N == (g.nodes \ {l}) \cup {lo, hi}
           t == IF g.tail = l THEN lo ELSE g.tail
           h == RemoveSplit(g, s, e)
<1>1. g.nodes \in SUBSET Node /\ SeparatedNodes(g.nodes)
      /\ g.tail \in Node \cup {Header}
  BY DEF GoodList
<1>2. l \in g.nodes /\ l.start < s /\ e < l.end
  <2> DEFINE r == RemoveRight(g.nodes, e)
  <2>1. l \in g.nodes \cup {Header} /\ r \in g.nodes \cup {Header}
        /\ r.start < l.start
        /\ \A n \in g.nodes : /\ n.start < s <=> n.start <= l.start
                              /\ n.end <= e <=> n.start <= r.start
    BY RemoveSearch
  <2> HIDE DEF l, r
  <2>2. l # Header
    BY <2>1, <1>1, NodeFields, HeaderFields, MaxGnoAssumption
  <2>3. QED
    BY <2>1, <2>2, <1>1, NodeFields, MaxGnoAssumption
<1>3. h.nodes = N /\ h.tail = Advance(N, t)
      /\ h = [nodes |-> h.nodes, tail |-> h.tail]
  BY DEF RemoveSplit
<1> HIDE DEF l, h
<1>4. /\ lo \in Node /\ lo.start = l.start /\ lo.end = s - 1
      /\ hi \in Node /\ hi.start = e + 1 /\ hi.end = l.end
  BY <1>1, <1>2, NodeFields, HeaderFields, MaxGnoAssumption, MkNode
<1> HIDE DEF lo, hi
<1>5. N \in SUBSET Node
  BY <1>1, <1>4
<1>6. \A n \in g.nodes \ {l} : n.end + 1 < l.start \/ l.end + 1 < n.start
  BY <1>1, <1>2 DEF SeparatedNodes
<1>7. SeparatedNodes(N)
  <2> SUFFICES ASSUME NEW m \in N, NEW n \in N, m # n
               PROVE  m.end + 1 < n.start \/ n.end + 1 < m.start
    BY DEF SeparatedNodes
  <2>1. CASE m \in g.nodes /\ n \in g.nodes
    BY <2>1, <1>1 DEF SeparatedNodes
  <2>2. CASE m \in {lo, hi} /\ n \in g.nodes \ {l}
    BY <2>2, <1>1, <1>2, <1>4, <1>6, NodeFields, MaxGnoAssumption
  <2>3. CASE n \in {lo, hi} /\ m \in g.nodes \ {l}
    BY <2>3, <1>1, <1>2, <1>4, <1>6, NodeFields, MaxGnoAssumption
  <2>4. CASE m \in {lo, hi} /\ n \in {lo, hi}
    BY <2>4, <1>1, <1>2, <1>4, NodeFields, MaxGnoAssumption
  <2>5. QED
    BY <2>1, <2>2, <2>3, <2>4
<1>8. h.tail \in N /\ After(N, h.tail) = {}
  <2>0. g.tail \in g.nodes /\ \A n \in g.nodes : n.start <= g.tail.start
    BY <1>1, <1>2, NodeFields, MaxGnoAssumption DEF GoodList, IsTail, After
  <2>1. CASE g.tail = l
    <3>1. After(N, lo) = {hi}
      <4>1. \A n \in g.nodes \ {l} : n.start < lo.start
        BY <2>0, <2>1, <1>1, <1>2, <1>4, <1>6, NodeFields, MaxGnoAssumption
      <4>2. hi.start > lo.start
        BY <1>1, <1>2, <1>4, NodeFields, MaxGnoAssumption
      <4>3. QED
        BY <4>1, <4>2, <1>1, <1>4, NodeFields, MaxGnoAssumption DEF After
    <3>2. h.tail = hi
      <4>1. h.tail = Forward(N, lo)
        BY <2>1, <3>1, <1>3 DEF Advance
      <4>2. Forward(N, lo) \in N /\ Forward(N, lo).start > lo.start
        BY <3>1, <1>4, <1>5, ForwardIsLeast
      <4>3. Forward(N, lo) \in After(N, lo)
        BY <4>2 DEF After
      <4>4. QED
        BY <4>1, <4>3, <3>1
    <3>3. \A n \in N : n.start <= hi.start
      BY <3>1, <1>4, <1>5, NodeFields, MaxGnoAssumption DEF After
    <3>4. QED
      BY <3>2, <3>3, <1>5, NodeFields, MaxGnoAssumption DEF After
  <2>2. CASE g.tail # l
    <3>1. l.end + 1 < g.tail.start
      BY <2>0, <2>2, <1>1, <1>2, <1>6, NodeFields, MaxGnoAssumption
    <3>2. \A n \in N : n.start <= g.tail.start
      BY <2>0, <3>1, <1>1, <1>2, <1>4, NodeFields, MaxGnoAssumption
    <3>3. After(N, g.tail) = {}
      BY <3>2, <1>1, <1>5, NodeFields, MaxGnoAssumption DEF After
    <3>4. h.tail = g.tail
      BY <2>2, <3>3, <1>3 DEF Advance
    <3>5. QED
      BY <2>0, <2>2, <3>3, <3>4
  <2>3. QED
    BY <2>1, <2>2
<1>9. GoodList(h)
  BY <1>3, <1>5, <1>7, <1>8 DEF GoodList, IsTail
<1>10. Covered(h.nodes) = Covered(g.nodes) \ (s..e)
  <2> SUFFICES ASSUME NEW y \in 1..MaxGno
               PROVE  In(h.nodes, y) <=> In(g.nodes, y) /\ y \notin s..e
    <3>1. h.nodes \in SUBSET Node
      BY <1>3, <1>5
    <3>2. QED
      BY <3>1, <1>1, CoveredMinus, Zenon
  <2>1. ASSUME NEW n \in g.nodes \ {l}, n.start <= y, y <= n.end
        PROVE  y \notin s..e
    BY <2>1, <1>1, <1>2, <1>6, NodeFields, MaxGnoAssumption
  <2>2. (l.start <= y /\ y <= l.end /\ y \notin s..e) <=>
          \/ lo.start <= y /\ y <= lo.end
          \/ hi.start <= y /\ y <= hi.end
    BY <1>1, <1>2, <1>4, NodeFields, MaxGnoAssumption
  <2>3. QED
    BY <2>1, <2>2, <1>2, <1>3 DEF In
<1>11. QED
  BY <1>9, <1>10 DEF RemovesRange, h

\* Remove, over several nodes: the first is cut on its right, the last on its
\* left, and those between them go.
LEMMA RemoveSpanCorrect ==
  ASSUME NEW g, GoodList(g), NEW s \in 1..MaxGno, NEW e \in 1..MaxGno, s <= e,
         ~(RemoveRight(g.nodes, e).end < RemoveLeft(g.nodes, s).start)
  PROVE  RemovesRange(g, RemoveSpan(g, s, e), s, e)
<1> DEFINE l == RemoveLeft(g.nodes, s)
           r == RemoveRight(g.nodes, e)
           kept == [l EXCEPT !.end = MinOf(l.end, s - 1)]
           rest == After(g.nodes, r)
           f == Forward(g.nodes, r)
           cut == [f EXCEPT !.start = MaxOf(f.start, e + 1)]
           low == {n \in g.nodes : n.start < l.start}
           before == low \cup (IF l = Header THEN {} ELSE {kept})
           h == RemoveSpan(g, s, e)
<1>1. g.nodes \in SUBSET Node /\ SeparatedNodes(g.nodes)
      /\ g.tail \in Node \cup {Header}
  BY DEF GoodList
<1>2. l \in g.nodes \cup {Header} /\ r \in g.nodes \cup {Header}
      /\ ~(r.start < l.start)
      /\ \A n \in g.nodes : /\ n.start < s <=> n.start <= l.start
                            /\ n.end <= e <=> n.start <= r.start
  BY RemoveSearch
<1>3. /\ rest = {} => h = [nodes |-> before, tail |-> kept]
      /\ rest # {} => h = [nodes |-> before \cup (rest \ {f}) \cup {cut},
                           tail  |-> IF g.tail = f THEN cut ELSE g.tail]
  BY DEF RemoveSpan
<1>4. rest # {} => /\ f \in g.nodes /\ f.start > r.start
                   /\ \A k \in g.nodes : k.start > r.start => f.start <= k.start
  <2>1. r \in Node \cup {Header}
    BY <1>1, <1>2
  <2>2. QED
    BY <2>1, <1>1, ForwardIsLeast
<1> HIDE DEF l, r, f, h
<1>5. /\ kept.start = l.start /\ kept.end = MinOf(l.end, s - 1)
      /\ l = Header => kept = Header
      /\ l # Header => kept \in Node /\ kept.end < s /\ kept.end <= l.end
                       /\ (kept.end = l.end \/ kept.end = s - 1)
  <2>1. l \in Node \cup {Header} /\ l.start \in 0..MaxGno /\ l.end \in 0..MaxGno
        /\ l.start <= l.end /\ (l # Header => l \in g.nodes)
    BY <1>1, <1>2, NodeFields
  <2>2. kept = [start |-> l.start, end |-> MinOf(l.end, s - 1)]
    BY <2>1 DEF Node, Header
  <2>3. CASE l = Header
    BY <2>2, <2>3, HeaderFields, MaxGnoAssumption DEF MinOf, Header
  <2>4. CASE l # Header
    <3>1. l.start < s /\ l.start >= 1
      BY <2>1, <2>4, <1>2, NodeFields, MaxGnoAssumption
    <3>2. MinOf(l.end, s - 1) \in 1..MaxGno /\ l.start <= MinOf(l.end, s - 1)
          /\ MinOf(l.end, s - 1) < s /\ MinOf(l.end, s - 1) <= l.end
          /\ (MinOf(l.end, s - 1) = l.end \/ MinOf(l.end, s - 1) = s - 1)
      BY <2>1, <3>1, MaxGnoAssumption DEF MinOf
    <3>3. QED
      BY <2>1, <2>2, <2>4, <3>1, <3>2, MkNode, MaxGnoAssumption
  <2>5. QED
    BY <2>3, <2>4
<1>6. rest # {} => /\ cut \in Node /\ cut.end = f.end /\ cut.start = MaxOf(f.start, e + 1)
                   /\ cut.start > e /\ cut.start >= f.start
                   /\ (cut.start = f.start \/ cut.start = e + 1)
                   /\ f.end > e /\ f.start >= s
  <2> SUFFICES ASSUME rest # {}
               PROVE  /\ cut \in Node /\ cut.end = f.end
                      /\ cut.start = MaxOf(f.start, e + 1)
                      /\ cut.start > e /\ cut.start >= f.start
                      /\ (cut.start = f.start \/ cut.start = e + 1)
                      /\ f.end > e /\ f.start >= s
    OBVIOUS
  <2>1. f \in Node /\ f.start \in 1..MaxGno /\ f.end \in 1..MaxGno
    BY <1>1, <1>4, NodeFields, HeaderFields, MaxGnoAssumption
  <2>2. f.end > e /\ f.start >= s
    BY <2>1, <1>1, <1>2, <1>4, NodeFields, MaxGnoAssumption
  <2>3. cut = [start |-> MaxOf(f.start, e + 1), end |-> f.end]
    BY <2>1 DEF Node
  <2>4. MaxOf(f.start, e + 1) \in 1..MaxGno /\ MaxOf(f.start, e + 1) <= f.end
        /\ MaxOf(f.start, e + 1) > e /\ MaxOf(f.start, e + 1) >= f.start
        /\ (MaxOf(f.start, e + 1) = f.start \/ MaxOf(f.start, e + 1) = e + 1)
    BY <2>1, <2>2, NodeFields, MaxGnoAssumption DEF MaxOf
  <2>5. QED
    BY <2>1, <2>2, <2>3, <2>4, MkNode
<1> HIDE DEF kept, cut
\* Everything before the range ends before it, with a gap between nodes.
<1>7. \A n \in low : n.end + 1 < l.start /\ n.end < s
  BY <1>1, <1>2, GapBetween, NodeFields, HeaderFields, MaxGnoAssumption
<1>8. before \in SUBSET Node /\ SeparatedNodes(before)
      /\ (\A n \in before : n.end < s /\ n.start <= l.start)
  BY <1>1, <1>2, <1>5, <1>7, NodeFields, HeaderFields, MaxGnoAssumption DEF SeparatedNodes
\* Everything after the range starts after it.
<1>9. rest # {} => \A n \in rest \ {f} : n \in g.nodes /\ f.end + 1 < n.start
  BY <1>1, <1>4, NodeFields, MaxGnoAssumption DEF After, SeparatedNodes
<1>10. h.nodes \in SUBSET Node /\ SeparatedNodes(h.nodes)
  <2>1. CASE rest = {}
    <3>1. h.nodes = before
      BY <2>1, <1>3
    <3>2. QED
      BY <3>1, <1>8 DEF SeparatedNodes
  <2>2. CASE rest # {}
    <3>1. h.nodes = before \cup (rest \ {f}) \cup {cut}
      BY <2>2, <1>3
    <3>2. h.nodes \in SUBSET Node
      BY <2>2, <3>1, <1>1, <1>6, <1>8 DEF After
    <3>3. \A m \in before : m.end + 1 < cut.start
      BY <2>2, <1>1, <1>6, <1>8, NodeFields, MaxGnoAssumption
    <3>4. \A n \in rest \ {f} : cut.end + 1 < n.start
      BY <2>2, <1>6, <1>9
    <3>5. \A m \in before, n \in rest \ {f} : m.end + 1 < n.start
      BY <2>2, <3>2, <3>1, <3>3, <3>4, <1>6, NodeFields, MaxGnoAssumption
    <3>6. SeparatedNodes(rest \ {f})
      BY <1>1 DEF SeparatedNodes, After
    <3>7. QED
      BY <3>1, <3>2, <3>3, <3>4, <3>5, <3>6, <1>8 DEF SeparatedNodes
  <2>3. QED
    BY <2>1, <2>2
<1>11. IsTail(h)
  <2>1. CASE rest = {}
    <3>1. h.nodes = before /\ h.tail = kept
      BY <2>1, <1>3
    <3>2. CASE l = Header
      <4>1. low = {}
        BY <3>2, <1>1, NodeFields, HeaderFields, MaxGnoAssumption
      <4>2. QED
        BY <3>1, <3>2, <4>1, <1>5 DEF IsTail
    <3>3. CASE l # Header
      BY <3>1, <3>3, <1>5, <1>8, NodeFields, MaxGnoAssumption DEF IsTail, After
    <3>4. QED
      BY <3>2, <3>3
  <2>2. CASE rest # {}
    <3>1. h.nodes = before \cup (rest \ {f}) \cup {cut}
          /\ h.tail = (IF g.tail = f THEN cut ELSE g.tail)
      BY <2>2, <1>3
    <3>2. g.tail \in g.nodes /\ \A n \in g.nodes : n.start <= g.tail.start
      BY <2>2, <1>1, <1>4, NodeFields, MaxGnoAssumption DEF GoodList, IsTail, After
    <3>3. CASE g.tail = f
      <4>1. rest \ {f} = {}
        BY <2>2, <3>2, <3>3, <1>1, <1>4, <1>9, NodeFields, MaxGnoAssumption
      <4>2. h.nodes = before \cup {cut} /\ h.tail = cut
        BY <3>1, <3>3, <4>1
      <4>3. \A m \in before : m.start <= cut.start
        BY <2>2, <1>1, <1>6, <1>8, NodeFields, MaxGnoAssumption
      <4>4. QED
        BY <2>2, <4>2, <4>3, <1>6, <1>8, NodeFields, MaxGnoAssumption DEF IsTail, After
    <3>4. CASE g.tail # f
      <4>1. g.tail \in rest \ {f}
        BY <2>2, <3>2, <3>4, <1>1, <1>2, <1>4, NodeFields, MaxGnoAssumption DEF After
      <4>2. \A m \in before : m.start <= g.tail.start
        BY <2>2, <3>2, <1>1, <1>2, <1>4, <1>8, NodeFields, MaxGnoAssumption
      <4>3. cut.start <= g.tail.start
        BY <2>2, <4>1, <1>1, <1>4, <1>6, <1>9, NodeFields, MaxGnoAssumption
      <4>4. \A n \in h.nodes : n.start <= g.tail.start
        BY <3>1, <3>2, <4>2, <4>3 DEF After
      <4>5. QED
        BY <3>1, <3>4, <4>1, <4>4, <1>1, <1>10, NodeFields, MaxGnoAssumption DEF IsTail, After
    <3>5. QED
      BY <3>3, <3>4
  <2>3. QED
    BY <2>1, <2>2
<1>12. h \in [nodes : SUBSET Node, tail : Node \cup {Header}]
  <2>1. h.tail \in Node \cup {Header}
    BY <1>10, <1>11 DEF IsTail
  <2>2. h = [nodes |-> h.nodes, tail |-> h.tail]
    BY <1>3
  <2>3. QED
    BY <2>1, <2>2, <1>10
<1>13. Covered(h.nodes) = Covered(g.nodes) \ (s..e)
  <2> SUFFICES ASSUME NEW y \in 1..MaxGno
               PROVE  In(h.nodes, y) <=> In(g.nodes, y) /\ y \notin s..e
    <3>1. h.nodes \in SUBSET Node
      BY <1>10
    <3>2. QED
      BY <3>1, <1>1, CoveredMinus, Zenon
  <2>1. ASSUME NEW n \in g.nodes, n.start <= y, y <= n.end, y \notin s..e
        PROVE  In(h.nodes, y)
    <3>1. CASE y < s
      <4>1. n.start <= l.start
        BY <2>1, <3>1, <1>1, <1>2, NodeFields, MaxGnoAssumption
      <4>2. CASE n.start < l.start
        <5>1. n \in h.nodes
          BY <4>2, <1>3
        <5>2. QED
          BY <2>1, <5>1 DEF In
      <4>3. CASE n.start = l.start
        <5>1. n = l /\ l # Header
          BY <4>3, <1>1, <1>2, NodeFields, HeaderFields, MaxGnoAssumption DEF SeparatedNodes
        <5>2. kept \in h.nodes
          BY <5>1, <1>3
        <5>3. kept.start <= y /\ y <= kept.end
          BY <2>1, <3>1, <5>1, <1>1, <1>5, NodeFields, MaxGnoAssumption
        <5>4. QED
          BY <5>2, <5>3 DEF In
      <4>4. QED
        BY <4>1, <4>2, <4>3, <1>1, <1>2, NodeFields, MaxGnoAssumption
    <3>2. CASE e < y
      <4>1. n.start > r.start /\ n \in rest
        BY <2>1, <3>2, <1>1, <1>2, NodeFields, MaxGnoAssumption DEF After
      <4>2. CASE n = f
        <5>1. cut \in h.nodes
          BY <4>1, <1>3
        <5>2. cut.start <= y /\ y <= cut.end
          BY <2>1, <3>2, <4>1, <4>2, <1>1, <1>6, NodeFields, MaxGnoAssumption
        <5>3. QED
          BY <5>1, <5>2 DEF In
      <4>3. CASE n # f
        <5>1. n \in h.nodes
          BY <4>1, <4>3, <1>3
        <5>2. QED
          BY <2>1, <5>1 DEF In
      <4>4. QED
        BY <4>2, <4>3
    <3>3. QED
      BY <2>1, <3>1, <3>2, MaxGnoAssumption
  <2>2. ASSUME NEW n \in h.nodes, n.start <= y, y <= n.end
        PROVE  In(g.nodes, y) /\ y \notin s..e
    <3>1. CASE n \in before
      <4>1. y \notin s..e
        BY <2>2, <3>1, <1>8, NodeFields, MaxGnoAssumption
      <4>2. CASE n \in low
        BY <2>2, <4>1, <4>2 DEF In
      <4>3. CASE l # Header /\ n = kept
        <5>1. l \in g.nodes /\ l.start <= y /\ y <= l.end
          BY <2>2, <4>3, <1>1, <1>2, <1>5, NodeFields, MaxGnoAssumption
        <5>2. QED
          BY <4>1, <5>1 DEF In
      <4>4. QED
        BY <3>1, <4>2, <4>3
    <3>2. CASE rest # {} /\ n \in rest \ {f}
      <4>1. y \notin s..e
        BY <2>2, <3>2, <1>1, <1>4, <1>6, <1>9, NodeFields, MaxGnoAssumption
      <4>2. QED
        BY <2>2, <3>2, <4>1 DEF In, After
    <3>3. CASE rest # {} /\ n = cut
      <4>1. f \in g.nodes /\ f.start <= y /\ y <= f.end /\ y \notin s..e
        BY <2>2, <3>3, <1>1, <1>4, <1>6, NodeFields, MaxGnoAssumption
      <4>2. QED
        BY <4>1 DEF In
    <3>4. QED
      BY <3>1, <3>2, <3>3, <1>3
  <2>3. QED
    BY <2>1, <2>2 DEF In
<1>14. QED
  BY <1>10, <1>11, <1>12, <1>13 DEF RemovesRange, GoodList, h

\* gtidIntervalSkipListRemove removes exactly the range and keeps the list
\* sorted, disjoint, non-adjacent and its tail right.
THEOREM RemoveCorrect ==
  ASSUME NEW g, GoodList(g), NEW s \in 1..MaxGno, NEW e \in 1..MaxGno, s <= e
  PROVE  RemovesRange(g, gtidIntervalSkipListRemove(g, s, e), s, e)
BY RemoveSplitCorrect, RemoveSpanCorrect DEF gtidIntervalSkipListRemove

----------------------------------------------------------------------------
(* The specification.                                                      *)

\* The inductive invariant: every list good, and every walk consistent.  The
\* safety properties need the walk's cursor to be a node of a source list that
\* differs from the destination, which TypeOK alone does not say.
ListsGood == \A l \in Lists : GoodList(gsl[l])
WalkGood == loop # NoLoop => /\ loop.dst # loop.src
                             /\ loop.x \in gsl[loop.src].nodes
IInv == TypeOK /\ ListsGood /\ WalkGood /\ LoopHalfDone

\* Covered stays within 1..MaxGno.
LEMMA CoveredType ==
  ASSUME NEW N \in SUBSET Node
  PROVE  Covered(N) \in SUBSET (1..MaxGno)
BY CoveredIff

\* A Loops record is none of the others.
LEMMA LoopsNotNone == NoLoop \notin Loops
BY DEF Loops, NoLoop

\* The initial lists are good.
LEMMA InitIInv == Init => IInv
<1> SUFFICES ASSUME Init PROVE IInv
  OBVIOUS
<1>1. GoodList(gtidIntervalSkipListNew)
  BY DEF GoodList, gtidIntervalSkipListNew, SeparatedNodes, IsTail
<1>2. QED
  BY <1>1 DEF Init, IInv, TypeOK, ListsGood, WalkGood, LoopHalfDone, GoodList

\* An operation outside a walk that leaves every list good keeps IInv.
LEMMA ListsGoodStep ==
  ASSUME IInv, loop = NoLoop, loop' = loop,
         gsl' \in [Lists -> [nodes : SUBSET Node, tail : Node \cup {Header}]],
         \A l \in Lists : GoodList(gsl'[l])
  PROVE  IInv'
BY DEF IInv, TypeOK, ListsGood, WalkGood, LoopHalfDone, GoodList, SeparatedNodes,
       IsTail, After

\* The same, for an operation on one list.
LEMMA OneListStep ==
  ASSUME IInv, loop = NoLoop, loop' = loop, NEW l \in Lists, NEW h, GoodList(h),
         gsl' = [gsl EXCEPT ![l] = h]
  PROVE  IInv'
<1>1. gsl \in [Lists -> [nodes : SUBSET Node, tail : Node \cup {Header}]]
  BY DEF IInv, TypeOK
<1>2. \A k \in Lists : gsl'[k] = IF k = l THEN h ELSE gsl[k]
  BY <1>1
<1>3. gsl' \in [Lists -> [nodes : SUBSET Node, tail : Node \cup {Header}]]
  BY <1>1 DEF GoodList
<1>4. \A k \in Lists : GoodList(gsl'[k])
  BY <1>2 DEF IInv, ListsGood
<1>5. QED
  BY <1>3, <1>4, ListsGoodStep

\* The gnos of the source that precede a node the walk has reached.
Seen(N, x) == {g \in Covered(N) : g < x.start}

\* The range of a node is covered.
LEMMA RangeCovered ==
  ASSUME NEW N \in SUBSET Node, NEW x \in N, NEW g \in x.start..x.end
  PROVE  g \in Covered(N)
BY DEF Covered

\* At its first node a walk has seen nothing.
LEMMA SeenFirst ==
  ASSUME NEW N \in SUBSET Node, N # {}
  PROVE  Forward(N, Header) \in N /\ Seen(N, Forward(N, Header)) = {}
<1>1. After(N, Header) # {}
  BY NodeFields, HeaderFields, MaxGnoAssumption DEF After
<1>2. Forward(N, Header) \in N
      /\ \A k \in N : k.start > 0 => Forward(N, Header).start <= k.start
  BY <1>1, ForwardIsLeast, HeaderFields
<1>3. \A k \in N : Forward(N, Header).start <= k.start
  BY <1>2, NodeFields, HeaderFields, MaxGnoAssumption
<1>4. \A g \in Covered(N) : ~(g < Forward(N, Header).start)
  BY <1>2, <1>3, CoveredIff, NodeFields, MaxGnoAssumption
<1>5. QED
  BY <1>2, <1>4 DEF Seen

\* Moving on from x, a walk has seen x's range besides.
LEMMA SeenNext ==
  ASSUME NEW N \in SUBSET Node, SeparatedNodes(N), NEW x \in N, After(N, x) # {}
  PROVE  /\ Forward(N, x) \in N
         /\ Seen(N, Forward(N, x)) = Seen(N, x) \cup (x.start..x.end)
<1> DEFINE f == Forward(N, x)
<1>1. f \in N /\ f.start > x.start
      /\ \A k \in N : k.start > x.start => f.start <= k.start
  BY ForwardIsLeast
<1> HIDE DEF f
<1>2. x.end + 1 < f.start
  BY <1>1, GapBetween
<1>3. \A g : g \in Covered(N) /\ g < f.start <=>
             (g \in Covered(N) /\ g < x.start) \/ g \in x.start..x.end
  <2> SUFFICES ASSUME NEW g
               PROVE  g \in Covered(N) /\ g < f.start <=>
                      (g \in Covered(N) /\ g < x.start) \/ g \in x.start..x.end
    OBVIOUS
  <2>1. ASSUME g \in x.start..x.end PROVE g \in Covered(N) /\ g < f.start
    <3>1. g < f.start
      BY <2>1, <1>1, <1>2, NodeFields, MaxGnoAssumption
    <3>2. QED
      BY <2>1, <3>1, RangeCovered
  <2>2. ASSUME g \in Covered(N), g < x.start PROVE g < f.start
    BY <2>2, <1>1, CoveredIff, NodeFields, MaxGnoAssumption
  <2>3. ASSUME g \in Covered(N), g < f.start, ~(g < x.start)
        PROVE  g \in x.start..x.end
    <3>1. PICK n \in N : n.start <= g /\ g <= n.end
      BY <2>3, CoveredIff
    <3>2. g \in 1..MaxGno
      BY <2>3, CoveredIff
    <3>3. ~(n.start > x.start)
      BY <2>3, <3>1, <3>2, <1>1, NodeFields, MaxGnoAssumption
    <3>4. ~(n.start < x.start)
      BY <2>3, <3>1, <3>2, GapBetween, NodeFields, MaxGnoAssumption
    <3>5. n = x
      BY <3>3, <3>4, NodeFields, MaxGnoAssumption DEF SeparatedNodes
    <3>6. QED
      BY <3>1, <3>2, <3>5, NodeFields, MaxGnoAssumption
  <2>4. QED
    BY <2>1, <2>2, <2>3
<1>4. QED
  BY <1>1, <1>3 DEF Seen, f

\* At its last node a walk has seen all but that node's range.
LEMMA SeenLast ==
  ASSUME NEW N \in SUBSET Node, SeparatedNodes(N), NEW x \in N, After(N, x) = {}
  PROVE  Covered(N) = Seen(N, x) \cup (x.start..x.end)
<1>1. \A g : g \in Covered(N) <=>
             (g \in Covered(N) /\ g < x.start) \/ g \in x.start..x.end
  <2> SUFFICES ASSUME NEW g
               PROVE  g \in Covered(N) <=>
                      (g \in Covered(N) /\ g < x.start) \/ g \in x.start..x.end
    OBVIOUS
  <2>1. ASSUME g \in x.start..x.end PROVE g \in Covered(N)
    BY <2>1, RangeCovered
  <2>2. ASSUME g \in Covered(N), ~(g < x.start) PROVE g \in x.start..x.end
    <3>1. PICK n \in N : n.start <= g /\ g <= n.end
      BY <2>2, CoveredIff
    <3>2. g \in 1..MaxGno
      BY <2>2, CoveredIff
    <3>3. ~(n.start > x.start)
      BY NodeFields, MaxGnoAssumption DEF After
    <3>4. ~(n.start < x.start)
      BY <2>2, <3>1, <3>2, GapBetween, NodeFields, MaxGnoAssumption
    <3>5. n = x
      BY <3>3, <3>4, NodeFields, MaxGnoAssumption DEF SeparatedNodes
    <3>6. QED
      BY <3>1, <3>2, <3>5, NodeFields, MaxGnoAssumption
  <2>3. QED
    BY <2>1, <2>2
<1>2. QED
  BY <1>1 DEF Seen

\* One iteration of a merge or diff: the destination stays good and gains or
\* loses exactly the range of the node the walk is at.
LEMMA LoopBodyCorrect ==
  ASSUME NEW g, GoodList(g), NEW x \in Node, NEW op \in {"merge", "diff"}
  PROVE  /\ GoodList(LoopBody(g, op, x))
         /\ Covered(LoopBody(g, op, x).nodes) =
              IF op = "merge" THEN Covered(g.nodes) \cup (x.start..x.end)
              ELSE Covered(g.nodes) \ (x.start..x.end)
<1>1. x.start \in 1..MaxGno /\ x.end \in 1..MaxGno /\ x.start <= x.end
  BY NodeFields, HeaderFields, MaxGnoAssumption
<1>2. AddsRange(g, gtidIntervalSkipListAdd(g, x.start, x.end), x.start, x.end)
  BY <1>1, AddCorrect
<1>3. RemovesRange(g, gtidIntervalSkipListRemove(g, x.start, x.end), x.start, x.end)
  BY <1>1, RemoveCorrect
<1>4. QED
  BY <1>2, <1>3 DEF LoopBody, AddsRange, RemovesRange

\* LoopHalfDone, in terms of Seen.
LEMMA HalfDoneSeen ==
  ASSUME loop \in Loops
  PROVE  LoopHalfDone <=>
           Covered(gsl[loop.dst].nodes) =
             IF loop.op = "merge" THEN loop.old \cup Seen(gsl[loop.src].nodes, loop.x)
             ELSE loop.old \ Seen(gsl[loop.src].nodes, loop.x)
BY LoopsNotNone DEF LoopHalfDone, Seen

\* Entering a walk keeps the invariant.
LEMMA BeginLoopIInv ==
  ASSUME IInv, NEW op \in {"merge", "diff"}, NEW d \in Lists, NEW s \in Lists, d # s,
         BeginLoop(op, d, s)
  PROVE  IInv' /\ loop' \in Loops /\ loop'.dst = d
         /\ loop'.old = Covered(gsl[d].nodes) /\ gsl' = gsl /\ loop = NoLoop
<1> DEFINE N == gsl[s].nodes
           x == Forward(N, Header)
<1>1. N \in SUBSET Node /\ N # {} /\ gsl[d].nodes \in SUBSET Node
  BY DEF IInv, TypeOK, BeginLoop
<1>2. x \in N /\ Seen(N, x) = {}
  BY <1>1, SeenFirst
<1>3. Covered(gsl[d].nodes) \in SUBSET (1..MaxGno)
  BY <1>1, CoveredType
<1> HIDE DEF x
<1>4. loop' = [op |-> op, dst |-> d, src |-> s, x |-> x, old |-> Covered(gsl[d].nodes)]
      /\ gsl' = gsl /\ loop = NoLoop
  BY DEF BeginLoop, x
<1>5. loop' \in Loops
  BY <1>1, <1>2, <1>3, <1>4 DEF Loops
<1>6. TypeOK' /\ ListsGood' /\ WalkGood'
  BY <1>2, <1>4, <1>5 DEF IInv, TypeOK, ListsGood, WalkGood
<1>7. LoopHalfDone'
  <2>1. Seen(gsl'[loop'.src].nodes, loop'.x) = {}
    BY <1>2, <1>4
  <2>2. Covered(gsl'[loop'.dst].nodes) = loop'.old
    BY <1>4
  <2>3. QED
    BY <2>1, <2>2 DEF LoopHalfDone, Seen
<1>8. QED
  BY <1>4, <1>5, <1>6, <1>7 DEF IInv

\* An iteration keeps the invariant; the last one leaves the destination with
\* the union or the difference the loop is there to compute.
LEMMA StepLoopIInv ==
  ASSUME IInv, StepLoop
  PROVE  /\ IInv'
         /\ loop \in Loops /\ loop.src # loop.dst
         /\ \A k \in Lists : k # loop.dst => gsl'[k] = gsl[k]
         /\ \/ loop' \in Loops /\ loop'.dst = loop.dst /\ loop'.old = loop.old
            \/ /\ loop' = NoLoop
               /\ Covered(gsl'[loop.dst].nodes) =
                    IF loop.op = "merge"
                    THEN loop.old \cup Covered(gsl[loop.src].nodes)
                    ELSE loop.old \ Covered(gsl[loop.src].nodes)
<1> DEFINE d == loop.dst
           N == gsl[loop.src].nodes
           x == loop.x
           h == LoopBody(gsl[d], loop.op, x)
           R == x.start..x.end
<1>1. loop \in Loops /\ d \in Lists /\ loop.src \in Lists /\ x \in Node
      /\ loop.op \in {"merge", "diff"} /\ loop.old \in SUBSET (1..MaxGno)
  BY DEF IInv, TypeOK, StepLoop, Loops
<1>2. d # loop.src /\ x \in N /\ GoodList(gsl[d]) /\ N \in SUBSET Node /\ SeparatedNodes(N)
  BY <1>1, LoopsNotNone DEF IInv, WalkGood, ListsGood, GoodList
<1>3. GoodList(h)
      /\ Covered(h.nodes) = IF loop.op = "merge" THEN Covered(gsl[d].nodes) \cup R
                            ELSE Covered(gsl[d].nodes) \ R
  BY <1>1, <1>2, LoopBodyCorrect
<1>4. Covered(gsl[d].nodes) = IF loop.op = "merge" THEN loop.old \cup Seen(N, x)
                              ELSE loop.old \ Seen(N, x)
  BY <1>1, HalfDoneSeen DEF IInv
<1>5. gsl' = [gsl EXCEPT ![d] = h]
      /\ (After(N, x) = {} => loop' = NoLoop)
      /\ (After(N, x) # {} => loop' = [loop EXCEPT !.x = Forward(N, x)])
  BY DEF StepLoop
<1> HIDE DEF h
<1>6. gsl'[d] = h /\ \A k \in Lists : k # d => gsl'[k] = gsl[k]
  BY <1>1, <1>5 DEF IInv, TypeOK
<1>7. gsl' \in [Lists -> [nodes : SUBSET Node, tail : Node \cup {Header}]]
  BY <1>3, <1>5 DEF IInv, TypeOK, GoodList
<1>8. ListsGood'
  <2>1. \A k \in Lists : GoodList(gsl'[k])
    BY <1>3, <1>6 DEF IInv, ListsGood
  <2>2. QED
    BY <2>1 DEF ListsGood, GoodList, SeparatedNodes, IsTail, After
<1>9. CASE After(N, x) = {}
  <2>1. Covered(N) = Seen(N, x) \cup R
    BY <1>2, <1>9, SeenLast
  <2>2. Covered(gsl'[d].nodes) = IF loop.op = "merge" THEN loop.old \cup Covered(N)
                                 ELSE loop.old \ Covered(N)
    BY <2>1, <1>3, <1>4, <1>6
  <2>3. IInv'
    BY <1>5, <1>7, <1>8, <1>9 DEF IInv, TypeOK, WalkGood, LoopHalfDone
  <2>4. QED
    BY <2>2, <2>3, <1>1, <1>2, <1>5, <1>6, <1>9
<1>10. CASE After(N, x) # {}
  <2> DEFINE f == Forward(N, x)
  <2>1. f \in N /\ Seen(N, f) = Seen(N, x) \cup R
    BY <1>2, <1>10, SeenNext
  <2> HIDE DEF f
  <2>2. loop' = [loop EXCEPT !.x = f]
    BY <1>5, <1>10 DEF f
  <2>3. loop' \in Loops /\ loop'.dst = d /\ loop'.src = loop.src /\ loop'.x = f
        /\ loop'.old = loop.old /\ loop'.op = loop.op
    BY <2>1, <2>2, <1>1, <1>2 DEF Loops
  <2>4. gsl'[loop'.src].nodes = N
    BY <2>3, <1>1, <1>2, <1>6
  <2>5. LoopHalfDone'
    <3>1. Covered(gsl'[d].nodes) = IF loop.op = "merge" THEN loop.old \cup Seen(N, f)
                                   ELSE loop.old \ Seen(N, f)
      BY <2>1, <1>3, <1>4, <1>6
    <3>2. QED
      BY <3>1, <2>3, <2>4 DEF LoopHalfDone, Seen
  <2>6. WalkGood'
    BY <2>1, <2>3, <2>4, <1>2 DEF WalkGood
  <2>7. IInv'
    BY <2>3, <2>5, <2>6, <1>7, <1>8 DEF IInv, TypeOK
  <2>8. QED
    BY <2>3, <2>7, <1>1, <1>2, <1>6
<1>11. QED
  BY <1>9, <1>10

\* Next allocates a gno past every gno of the list.
LEMMA NextIsFresh ==
  ASSUME NEW g, GoodList(g)
  PROVE  /\ gtidIntervalSkipListNext(g) \in 1..(MaxGno + 1)
         /\ \A y \in Covered(g.nodes) : y < gtidIntervalSkipListNext(g)
         /\ Covered(g.nodes) = {} => gtidIntervalSkipListNext(g) = 1
         /\ Covered(g.nodes) # {} =>
              gtidIntervalSkipListNext(g) - 1 \in Covered(g.nodes)
<1>1. g.nodes \in SUBSET Node /\ g.tail \in Node \cup {Header} /\ SeparatedNodes(g.nodes)
  BY DEF GoodList
<1>2. gtidIntervalSkipListNext(g) = g.tail.end + 1
  BY DEF gtidIntervalSkipListNext
<1>3. CASE g.nodes = {}
  <2>1. g.tail = Header /\ Covered(g.nodes) = {}
    BY <1>3 DEF GoodList, IsTail, Covered
  <2>2. QED
    BY <2>1, <1>2, HeaderFields, MaxGnoAssumption
<1>4. CASE g.nodes # {}
  <2>1. g.tail \in g.nodes /\ \A n \in g.nodes : ~(n.start > g.tail.start)
    BY <1>4 DEF GoodList, IsTail, After
  <2>2. g.tail.end \in Covered(g.nodes)
    BY <2>1, <1>1, CoveredIff, NodeFields, HeaderFields, MaxGnoAssumption
  <2>3. \A n \in g.nodes : n.end <= g.tail.end
    BY <2>1, <1>1, NodeFields, MaxGnoAssumption DEF SeparatedNodes
  <2>4. \A y \in Covered(g.nodes) : y < g.tail.end + 1
    BY <2>1, <2>3, <1>1, CoveredIff, NodeFields, MaxGnoAssumption
  <2>5. g.tail.end + 1 \in 1..(MaxGno + 1) /\ g.tail.end \in Int
    BY <1>1, NodeFields, MaxGnoAssumption
  <2>6. gtidIntervalSkipListNext(g) - 1 = g.tail.end
    BY <2>5 DEF gtidIntervalSkipListNext
  <2>7. QED
    BY <2>2, <2>4, <2>5, <2>6, <1>2
<1>5. QED
  BY <1>3, <1>4

\* What each operation outside a walk does: one list changes, to a good list.
LEMMA AddStep ==
  ASSUME IInv, NEW l \in Lists, NEW start \in 1..MaxGno, NEW end \in 1..MaxGno,
         uuidSetAdd(l, start, end)
  PROVE  IInv' /\ loop = NoLoop /\ loop' = NoLoop /\ start <= end
         /\ \E h : /\ gsl' = [gsl EXCEPT ![l] = h]
                   /\ Covered(h.nodes) = Covered(gsl[l].nodes) \cup (start..end)
<1> DEFINE h == gtidIntervalSkipListAdd(gsl[l], start, end)
<1>1. GoodList(gsl[l]) /\ start <= end /\ gsl' = [gsl EXCEPT ![l] = h]
      /\ loop = NoLoop /\ loop' = loop
  BY DEF IInv, ListsGood, uuidSetAdd, gtidIntervalIsValid
<1>2. AddsRange(gsl[l], h, start, end)
  BY <1>1, AddCorrect
<1> HIDE DEF h
<1>3. IInv'
  BY <1>1, <1>2, OneListStep DEF AddsRange
<1>4. QED
  BY <1>1, <1>2, <1>3 DEF AddsRange

LEMMA RemoveStep ==
  ASSUME IInv, NEW l \in Lists, NEW start \in 1..MaxGno, NEW end \in 1..MaxGno,
         uuidSetRemove(l, start, end)
  PROVE  IInv' /\ loop = NoLoop /\ loop' = NoLoop /\ start <= end
         /\ \E h : /\ gsl' = [gsl EXCEPT ![l] = h]
                   /\ Covered(h.nodes) = Covered(gsl[l].nodes) \ (start..end)
<1> DEFINE h == gtidIntervalSkipListRemove(gsl[l], start, end)
<1>1. GoodList(gsl[l]) /\ start <= end /\ gsl' = [gsl EXCEPT ![l] = h]
      /\ loop = NoLoop /\ loop' = loop
  BY DEF IInv, ListsGood, uuidSetRemove, gtidIntervalIsValid
<1>2. RemovesRange(gsl[l], h, start, end)
  BY <1>1, RemoveCorrect
<1> HIDE DEF h
<1>3. IInv'
  BY <1>1, <1>2, OneListStep DEF RemovesRange
<1>4. QED
  BY <1>1, <1>2, <1>3 DEF RemovesRange

LEMMA NextStep ==
  ASSUME IInv, NEW l \in Lists, uuidSetNext(l)
  PROVE  IInv' /\ loop = NoLoop /\ loop' = NoLoop
         /\ gtidIntervalSkipListNext(gsl[l]) \in 1..MaxGno
         /\ \E h : /\ gsl' = [gsl EXCEPT ![l] = h]
                   /\ Covered(h.nodes) = Covered(gsl[l].nodes)
                                           \cup {gtidIntervalSkipListNext(gsl[l])}
<1> DEFINE n == gtidIntervalSkipListNext(gsl[l])
           h == gtidIntervalSkipListAdd(gsl[l], n, n)
<1>1. GoodList(gsl[l]) /\ n <= MaxGno /\ gsl' = [gsl EXCEPT ![l] = h]
      /\ loop = NoLoop /\ loop' = loop
  BY DEF IInv, ListsGood, uuidSetNext
<1>2. n \in 1..MaxGno
  BY <1>1, NextIsFresh, MaxGnoAssumption
<1> HIDE DEF n
<1>3. AddsRange(gsl[l], h, n, n)
  BY <1>1, <1>2, AddCorrect, MaxGnoAssumption
<1>4. n..n = {n}
  BY <1>2, MaxGnoAssumption
<1> HIDE DEF h
<1>5. IInv'
  BY <1>1, <1>3, OneListStep DEF AddsRange
<1>6. QED
  BY <1>1, <1>2, <1>3, <1>4, <1>5 DEF AddsRange, n

LEMMA DupStep ==
  ASSUME IInv, NEW d \in Lists, NEW s \in Lists, uuidSetDup(d, s)
  PROVE  IInv' /\ loop = NoLoop /\ loop' = NoLoop /\ gsl' = [gsl EXCEPT ![d] = gsl[s]]
<1>1. GoodList(gsl[s]) /\ gsl' = [gsl EXCEPT ![d] = gsl[s]]
      /\ loop = NoLoop /\ loop' = loop
  BY DEF IInv, ListsGood, uuidSetDup
<1>2. IInv'
  BY <1>1, OneListStep
<1>3. QED
  BY <1>1, <1>2

\* The invariant is inductive.
LEMMA NextIInv ==
  ASSUME IInv, [Next]_vars
  PROVE  IInv'
<1>1. ASSUME NEW l \in Lists, NEW start \in 1..MaxGno, NEW end \in 1..MaxGno,
             uuidSetAdd(l, start, end)
      PROVE  IInv'
  BY <1>1, AddStep
<1>2. ASSUME NEW l \in Lists, NEW start \in 1..MaxGno, NEW end \in 1..MaxGno,
             uuidSetRemove(l, start, end)
      PROVE  IInv'
  BY <1>2, RemoveStep
<1>3. ASSUME NEW l \in Lists, NEW watermark \in 1..MaxGno, uuidSetRaise(l, watermark)
      PROVE  IInv'
  <2>1. 1 \in 1..MaxGno
    BY MaxGnoAssumption
  <2>2. QED
    BY <1>3, <2>1, AddStep DEF uuidSetRaise
<1>4. ASSUME NEW l \in Lists, uuidSetNext(l) PROVE IInv'
  BY <1>4, NextStep
<1>5. ASSUME NEW d \in Lists, NEW s \in Lists, uuidSetDup(d, s) PROVE IInv'
  BY <1>5, DupStep
<1>6. ASSUME NEW d \in Lists, NEW s \in Lists, d # s,
             uuidSetMerge(d, s) \/ uuidSetDiff(d, s)
      PROVE  IInv'
  BY <1>6, BeginLoopIInv DEF uuidSetMerge, uuidSetDiff
<1>7. CASE StepLoop
  BY <1>7, StepLoopIInv
<1>8. CASE UNCHANGED vars
  BY <1>8 DEF vars, IInv, TypeOK, ListsGood, WalkGood, LoopHalfDone
<1>9. QED
  BY <1>1, <1>2, <1>3, <1>4, <1>5, <1>6, <1>7, <1>8 DEF Next

----------------------------------------------------------------------------
(* The theorems.                                                           *)

\* In every reachable state of every instance the lists are typed, sorted,
\* disjoint and non-adjacent with the right tail, and a merge or diff under
\* way has done exactly the part of its work it has walked over.
THEOREM Invariance == Spec => []IInv
<1>1. IInv /\ [Next]_vars => IInv'
  BY NextIInv
<1>2. QED
  BY <1>1, InitIInv, PTL DEF Spec

\* Type correctness.
THEOREM TypeCorrect == Spec => []TypeOK
<1>1. IInv => TypeOK
  BY DEF IInv
<1>2. QED
  BY <1>1, Invariance, PTL

\* The intervals of a list never overlap or touch, whatever was added and
\* removed: the encoded form of a gtid set is unique.
THEOREM SeparatedTheorem == Spec => []Separated
<1>1. IInv => Separated
  BY DEF IInv, ListsGood, GoodList, Separated
<1>2. QED
  BY <1>1, Invariance, PTL

\* The cached tail is always the last node, so Next never allocates a gno that
\* is in the list.
THEOREM TailTheorem == Spec => []TailIsLast
<1>1. IInv => TailIsLast
  BY DEF IInv, ListsGood, GoodList, TailIsLast
<1>2. QED
  BY <1>1, Invariance, PTL

\* No iteration of a merge or diff undoes an earlier one.
THEOREM LoopTheorem == Spec => []LoopHalfDone
<1>1. IInv => LoopHalfDone
  BY DEF IInv
<1>2. QED
  BY <1>1, Invariance, PTL

\* Searching a good list for a gno finds it exactly when it is there.
LEMMA ContainsCorrect ==
  ASSUME NEW g, GoodList(g), NEW gno \in 1..MaxGno
  PROVE  gtidIntervalSkipListContains(g, gno) <=> gno \in Covered(g.nodes)
<1> DEFINE S == {Header} \cup {n \in g.nodes : n.start <= gno}
           x == LastOf(S)
<1>1. g.nodes \in SUBSET Node /\ SeparatedNodes(g.nodes)
  BY DEF GoodList
<1>2. x \in S /\ \A m \in S : m.start <= x.start
  BY <1>1, LastOfIsGreatest
<1>3. gtidIntervalSkipListContains(g, gno) <=> x.start <= gno /\ gno <= x.end
  BY DEF gtidIntervalSkipListContains
<1> HIDE DEF x
<1>4. ASSUME x.start <= gno, gno <= x.end PROVE gno \in Covered(g.nodes)
  <2>1. x \in g.nodes
    BY <1>2, <1>4, HeaderFields, MaxGnoAssumption
  <2>2. QED
    BY <2>1, <1>1, <1>4, CoveredIff
<1>5. ASSUME gno \in Covered(g.nodes) PROVE x.start <= gno /\ gno <= x.end
  <2>1. PICK n \in g.nodes : n.start <= gno /\ gno <= n.end
    BY <1>1, <1>5, CoveredIff
  <2>2. n.start <= x.start /\ n.start >= 1
    BY <2>1, <1>1, <1>2, NodeFields, HeaderFields
  <2>3. x \in g.nodes /\ x.start <= gno
    BY <2>2, <1>1, <1>2, NodeFields, HeaderFields, MaxGnoAssumption
  <2>4. n = x
    BY <2>1, <2>2, <2>3, <1>1, NodeFields, MaxGnoAssumption DEF SeparatedNodes
  <2>5. QED
    BY <2>1, <2>4
<1>6. QED
  BY <1>3, <1>4, <1>5

\* gtidIntervalSkipListContains agrees with the set the list stands for.
THEOREM ContainsTheorem == Spec => []ContainsAgrees
<1>1. IInv => ContainsAgrees
  BY ContainsCorrect DEF IInv, ListsGood, ContainsAgrees
<1>2. QED
  BY <1>1, Invariance, PTL

----------------------------------------------------------------------------
(* Refinement of GnoSet.                                                   *)

\* Outside a walk the abstract value of a list is what its nodes cover.
LEMMA AbstractOutside ==
  ASSUME loop = NoLoop
  PROVE  AbstractGnos = [l \in Lists |-> Covered(gsl[l].nodes)]
BY DEF AbstractGnos

\* Inside one, the destination alone differs.
LEMMA AbstractInside ==
  ASSUME loop \in Loops
  PROVE  AbstractGnos = [l \in Lists |-> IF l = loop.dst THEN loop.old
                                         ELSE Covered(gsl[l].nodes)]
BY LoopsNotNone DEF AbstractGnos

\* An operation on one list outside a walk is one abstract update of it.
LEMMA AbstractUpdate ==
  ASSUME IInv, loop = NoLoop, loop' = NoLoop, NEW l \in Lists, NEW h,
         gsl' = [gsl EXCEPT ![l] = h]
  PROVE  AbstractGnos' = [AbstractGnos EXCEPT ![l] = Covered(h.nodes)]
<1>1. AbstractGnos = [k \in Lists |-> Covered(gsl[k].nodes)]
  BY AbstractOutside
<1>2. AbstractGnos' = [k \in Lists |-> Covered(gsl'[k].nodes)]
  BY DEF AbstractGnos
<1>3. \A k \in Lists : gsl'[k] = IF k = l THEN h ELSE gsl[k]
  BY DEF IInv, TypeOK
<1>4. QED
  BY <1>1, <1>2, <1>3

\* Every step of the interval lists is a step of the plain sets, or none.
LEMMA StepRefines ==
  ASSUME IInv, [Next]_vars
  PROVE  [Abs!Next]_AbstractGnos
<1> USE DEF Abs!Next
<1>1. ASSUME NEW l \in Lists, NEW start \in 1..MaxGno, NEW end \in 1..MaxGno,
             uuidSetAdd(l, start, end)
      PROVE  Abs!AddRange(l)
  <2>1. /\ loop = NoLoop /\ loop' = NoLoop /\ start <= end
        /\ \E h : /\ gsl' = [gsl EXCEPT ![l] = h]
                  /\ Covered(h.nodes) = Covered(gsl[l].nodes) \cup (start..end)
    BY <1>1, AddStep
  <2>2. AbstractGnos' = [AbstractGnos EXCEPT ![l] = Covered(gsl[l].nodes) \cup (start..end)]
    BY <2>1, AbstractUpdate
  <2>3. AbstractGnos[l] = Covered(gsl[l].nodes)
    BY <2>1, AbstractOutside
  <2>4. <<start, end>> \in Abs!Ranges
    BY <2>1 DEF Abs!Ranges
  <2>5. AbstractGnos' = [AbstractGnos EXCEPT ![l] = @ \cup (<<start, end>>[1]..<<start, end>>[2])]
    BY <2>2, <2>3
  <2>6. QED
    BY <2>4, <2>5 DEF Abs!AddRange
<1>2. ASSUME NEW l \in Lists, NEW start \in 1..MaxGno, NEW end \in 1..MaxGno,
             uuidSetRemove(l, start, end)
      PROVE  Abs!RemoveRange(l)
  <2>1. /\ loop = NoLoop /\ loop' = NoLoop /\ start <= end
        /\ \E h : /\ gsl' = [gsl EXCEPT ![l] = h]
                  /\ Covered(h.nodes) = Covered(gsl[l].nodes) \ (start..end)
    BY <1>2, RemoveStep
  <2>2. AbstractGnos' = [AbstractGnos EXCEPT ![l] = Covered(gsl[l].nodes) \ (start..end)]
    BY <2>1, AbstractUpdate
  <2>3. AbstractGnos[l] = Covered(gsl[l].nodes)
    BY <2>1, AbstractOutside
  <2>4. <<start, end>> \in Abs!Ranges
    BY <2>1 DEF Abs!Ranges
  <2>5. AbstractGnos' = [AbstractGnos EXCEPT ![l] = @ \ (<<start, end>>[1]..<<start, end>>[2])]
    BY <2>2, <2>3
  <2>6. QED
    BY <2>4, <2>5 DEF Abs!RemoveRange
<1>3. ASSUME NEW l \in Lists, NEW watermark \in 1..MaxGno, uuidSetRaise(l, watermark)
      PROVE  Abs!AddRange(l)
  <2>1. 1 \in 1..MaxGno
    BY MaxGnoAssumption
  <2>2. QED
    BY <1>1, <1>3, <2>1 DEF uuidSetRaise
<1>4. ASSUME NEW l \in Lists, uuidSetNext(l) PROVE Abs!TakeNext(l)
  <2> DEFINE n == gtidIntervalSkipListNext(gsl[l])
  <2>1. /\ loop = NoLoop /\ loop' = NoLoop /\ n \in 1..MaxGno
        /\ \E h : /\ gsl' = [gsl EXCEPT ![l] = h]
                  /\ Covered(h.nodes) = Covered(gsl[l].nodes) \cup {n}
    BY <1>4, NextStep
  <2>2. GoodList(gsl[l])
    BY DEF IInv, ListsGood
  <2>3. /\ \A y \in Covered(gsl[l].nodes) : y < n
        /\ Covered(gsl[l].nodes) = {} => n = 1
        /\ Covered(gsl[l].nodes) # {} => n - 1 \in Covered(gsl[l].nodes)
    BY <2>2, NextIsFresh
  <2> HIDE DEF n
  <2>4. AbstractGnos' = [AbstractGnos EXCEPT ![l] = Covered(gsl[l].nodes) \cup {n}]
    BY <2>1, AbstractUpdate
  <2>5. AbstractGnos[l] = Covered(gsl[l].nodes)
    BY <2>1, AbstractOutside
  <2>6. Abs!NextOf(AbstractGnos[l], n)
    BY <2>3, <2>5 DEF Abs!NextOf
  <2>7. QED
    BY <2>1, <2>4, <2>5, <2>6 DEF Abs!TakeNext
<1>5. ASSUME NEW d \in Lists, NEW s \in Lists, uuidSetDup(d, s)
      PROVE  Abs!Copy(d, s)
  <2>1. loop = NoLoop /\ loop' = NoLoop /\ gsl' = [gsl EXCEPT ![d] = gsl[s]]
    BY <1>5, DupStep
  <2>2. AbstractGnos' = [AbstractGnos EXCEPT ![d] = Covered(gsl[s].nodes)]
    BY <2>1, AbstractUpdate
  <2>3. AbstractGnos[s] = Covered(gsl[s].nodes)
    BY <2>1, AbstractOutside
  <2>4. QED
    BY <2>2, <2>3 DEF Abs!Copy
<1>6. ASSUME NEW d \in Lists, NEW s \in Lists, d # s,
             uuidSetMerge(d, s) \/ uuidSetDiff(d, s)
      PROVE  UNCHANGED AbstractGnos
  <2>1. /\ loop' \in Loops /\ loop'.dst = d /\ loop'.old = Covered(gsl[d].nodes)
        /\ gsl' = gsl /\ loop = NoLoop
    BY <1>6, BeginLoopIInv DEF uuidSetMerge, uuidSetDiff
  <2>2. AbstractGnos = [l \in Lists |-> Covered(gsl[l].nodes)]
    BY <2>1, AbstractOutside
  <2>3. AbstractGnos' = [l \in Lists |-> IF l = loop'.dst THEN loop'.old
                                         ELSE Covered(gsl'[l].nodes)]
    BY <2>1, LoopsNotNone DEF AbstractGnos
  <2>4. QED
    BY <2>1, <2>2, <2>3
<1>7. ASSUME StepLoop
      PROVE  \/ UNCHANGED AbstractGnos
             \/ \E d, s \in Lists : d # s /\ (Abs!Merge(d, s) \/ Abs!Diff(d, s))
  <2> DEFINE d == loop.dst
             s == loop.src
  <2>1. /\ loop \in Loops /\ s # d
        /\ \A k \in Lists : k # d => gsl'[k] = gsl[k]
        /\ \/ loop' \in Loops /\ loop'.dst = d /\ loop'.old = loop.old
           \/ /\ loop' = NoLoop
              /\ Covered(gsl'[d].nodes) =
                   IF loop.op = "merge" THEN loop.old \cup Covered(gsl[s].nodes)
                   ELSE loop.old \ Covered(gsl[s].nodes)
    BY <1>7, StepLoopIInv
  <2>2. d \in Lists /\ s \in Lists /\ loop.op \in {"merge", "diff"}
    BY <2>1 DEF Loops
  <2>3. AbstractGnos = [l \in Lists |-> IF l = d THEN loop.old ELSE Covered(gsl[l].nodes)]
    BY <2>1, AbstractInside
  <2>4. CASE loop' \in Loops /\ loop'.dst = d /\ loop'.old = loop.old
    <3>1. AbstractGnos' = [l \in Lists |-> IF l = loop'.dst THEN loop'.old
                                           ELSE Covered(gsl'[l].nodes)]
      BY <2>4, LoopsNotNone DEF AbstractGnos
    <3>2. QED
      BY <3>1, <2>1, <2>3, <2>4
  <2>5. CASE /\ loop' = NoLoop
             /\ Covered(gsl'[d].nodes) =
                  IF loop.op = "merge" THEN loop.old \cup Covered(gsl[s].nodes)
                  ELSE loop.old \ Covered(gsl[s].nodes)
    <3>1. AbstractGnos' = [l \in Lists |-> Covered(gsl'[l].nodes)]
      BY <2>5 DEF AbstractGnos
    <3>2. AbstractGnos[s] = Covered(gsl[s].nodes) /\ AbstractGnos[d] = loop.old
      BY <2>1, <2>2, <2>3
    <3>3. AbstractGnos' = [AbstractGnos EXCEPT ![d] = Covered(gsl'[d].nodes)]
      BY <3>1, <2>1, <2>2, <2>3
    <3>4. CASE loop.op = "merge"
      BY <2>1, <2>2, <2>5, <3>2, <3>3, <3>4 DEF Abs!Merge
    <3>5. CASE loop.op = "diff"
      BY <2>1, <2>2, <2>5, <3>2, <3>3, <3>5 DEF Abs!Diff
    <3>6. QED
      BY <2>2, <3>4, <3>5
  <2>6. QED
    BY <2>1, <2>4, <2>5
<1>8. ASSUME UNCHANGED vars PROVE UNCHANGED AbstractGnos
  BY <1>8 DEF vars, AbstractGnos
<1>9. QED
  BY <1>1, <1>2, <1>3, <1>4, <1>5, <1>6, <1>7, <1>8 DEF Next

\* The interval lists of gtid.c implement plain sets of gnos, Merge and Diff
\* being atomic: for every set of lists and every bound on the gnos.
THEOREM Refinement == Spec => ImplementsGnoSet
<1>1. Init => Abs!Init
  BY DEF Init, Abs!Init, AbstractGnos, gtidIntervalSkipListNew, Covered
<1>2. IInv /\ [Next]_vars => [Abs!Next]_AbstractGnos
  BY StepRefines
<1>3. QED
  BY <1>1, <1>2, Invariance, PTL DEF Spec, ImplementsGnoSet, Abs!Spec

=============================================================================
