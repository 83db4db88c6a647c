--------------------------- MODULE GtidIntervals ----------------------------
(***************************************************************************)
(* The interval list behind a uuidSet (gtid.c: gtidIntervalSkipList and    *)
(* the uuidSet functions that wrap it), at the level of its nodes: a list  *)
(* is the set of its [start,end] nodes plus the cached `tail` pointer.     *)
(* Nodes are told apart by their start, so the set stands for the sorted   *)
(* bottom level of the skip list.  Left to module IntervalSkipList: the    *)
(* forward pointers of each level, node_count, gno_count and the returned  *)
(* counts.                                                                 *)
(*                                                                         *)
(* gtidIntervalSkipListMerge and ...Diff walk the nodes of one list and    *)
(* update another; `loop` is the walk in progress, one iteration per step, *)
(* during which no other operation runs (the server is single threaded).   *)
(***************************************************************************)
EXTENDS Integers

CONSTANTS Lists,   \* the uuidSets of one uuid that the operations work on
          MaxGno   \* the largest gno; LLONG_MAX - 1 in the code, so that
                   \* no `end + 1` of the code overflows

ASSUME MaxGnoAssumption == MaxGno \in Nat \ {0}

VARIABLES gsl,     \* gsl[l]: the interval list of uuidSet l
          loop     \* the merge or diff in progress

vars == <<gsl, loop>>

Node == {n \in [start : 1..MaxGno, end : 1..MaxGno] : n.start <= n.end}

\* The header node gtidIntervalSkipListNew allocates: never a real interval.
Header == [start |-> 0, end |-> 0]

NoLoop == [op |-> "none"]
Loops == [op : {"merge", "diff"}, dst : Lists, src : Lists, x : Node,
          old : SUBSET (1..MaxGno)]

\* The gnos a set of nodes stands for.
Covered(N) == UNION {n.start..n.end : n \in N}

----------------------------------------------------------------------------
(* Searching the list.                                                     *)

\* Where a `while (x->forwards[i] && ...) x = x->forwards[i]` walk stops, S
\* being the header and the nodes the condition lets pass.
LastOf(S) == CHOOSE n \in S : \A m \in S : m.start <= n.start

After(N, n) == {m \in N : m.start > n.start}

\* n->forwards[0], where After(N, n) # {}.
Forward(N, n) == CHOOSE m \in After(N, n) :
                     \A k \in After(N, n) : m.start <= k.start

\* Mutant: the tail is left behind when a node is linked after it.
AdvanceNever(N, t) == t

\* `if (gsl->tail->forwards[0]) gsl->tail = gsl->tail->forwards[0]`
Advance(N, t) == IF After(N, t) = {} THEN t ELSE Forward(N, t)

gtidIntervalSkipListNew == [nodes |-> {}, tail |-> Header]

\* Mutant: any positive start is taken for a range.
IsValidAnyEnd(start, end) == start >= 1

gtidIntervalIsValid(start, end) == start >= 1 /\ start <= end

MinOf(a, b) == IF a < b THEN a ELSE b
MaxOf(a, b) == IF a < b THEN b ELSE a

----------------------------------------------------------------------------
(* gtidIntervalSkipListAdd, case by case.                                  *)

\* Mutant: a node that begins right after the range is not joined.
AddRightOverlapOnly(N, end) == LastOf({Header} \cup {n \in N : end >= n.start})

AddLeft(N, start)  == LastOf({Header} \cup {n \in N : n.end + 1 < start})
AddRight(N, end) == LastOf({Header} \cup {n \in N : end + 1 >= n.start})

\* Fast path: the range follows the tail.
AddToTail(g, end) ==
    LET x == [start |-> g.tail.start, end |-> end]
    IN  [nodes |-> (g.nodes \ {g.tail}) \cup {x}, tail |-> x]

\* No node overlaps or touches the range: a new one.
AddNew(g, start, end) ==
    LET N == g.nodes \cup {[start |-> start, end |-> end]}
    IN  [nodes |-> N, tail |-> Advance(N, g.tail)]

\* Mutant: the joined node ends with the range, not with the last node met.
AddJoinShort(g, start, end) ==
    LET l == Forward(g.nodes, AddLeft(g.nodes, start))
        r == AddRight(g.nodes, end)
        x == [start |-> MinOf(start, l.start), end |-> end]
        gone == {n \in g.nodes : l.start <= n.start /\ n.start <= r.start}
    IN  [nodes |-> (g.nodes \ gone) \cup {x},
         tail  |-> IF g.tail = r THEN x ELSE g.tail]

\* Join every node that overlaps or touches into the rightmost of them.
AddJoin(g, start, end) ==
    LET l == Forward(g.nodes, AddLeft(g.nodes, start))
        r == AddRight(g.nodes, end)
        x == [start |-> MinOf(start, l.start), end |-> MaxOf(end, r.end)]
        gone == {n \in g.nodes : l.start <= n.start /\ n.start <= r.start}
    IN  [nodes |-> (g.nodes \ gone) \cup {x},
         tail  |-> IF g.tail = r THEN x ELSE g.tail]

gtidIntervalSkipListAdd(g, start, end) ==
    IF g.tail # Header /\ g.tail.end + 1 = start THEN AddToTail(g, end)
    ELSE IF AddLeft(g.nodes, start) = AddRight(g.nodes, end)
         THEN AddNew(g, start, end)
         ELSE AddJoin(g, start, end)

----------------------------------------------------------------------------
(* gtidIntervalSkipListRemove, case by case.                               *)

\* Mutant: a node counts as wholly removed as soon as its start is.
RemoveRightByStart(N, end) == LastOf({Header} \cup {n \in N : n.start <= end})

RemoveLeft(N, start) == LastOf({Header} \cup {n \in N : n.start < start})
RemoveRight(N, end)  == LastOf({Header} \cup {n \in N : n.end <= end})

\* The range lies inside one node: split it.
RemoveSplit(g, start, end) ==
    LET l == RemoveLeft(g.nodes, start)
        lo == [start |-> l.start, end |-> start - 1]
        hi == [start |-> end + 1, end |-> l.end]
        N == (g.nodes \ {l}) \cup {lo, hi}
    IN  [nodes |-> N, tail |-> Advance(N, IF g.tail = l THEN lo ELSE g.tail)]

\* Shorten the last node to keep and the node after the last one to remove,
\* and unlink what is between them.
RemoveSpan(g, start, end) ==
    LET l == RemoveLeft(g.nodes, start)
        r == RemoveRight(g.nodes, end)
        kept == [l EXCEPT !.end = MinOf(l.end, start - 1)]
        rest == After(g.nodes, r)
        f == Forward(g.nodes, r)
        cut == [f EXCEPT !.start = MaxOf(f.start, end + 1)]
        before == {n \in g.nodes : n.start < l.start}
                      \cup (IF l = Header THEN {} ELSE {kept})
    IN  IF rest = {} THEN [nodes |-> before, tail |-> kept]
        ELSE [nodes |-> before \cup (rest \ {f}) \cup {cut},
              tail  |-> IF g.tail = f THEN cut ELSE g.tail]

gtidIntervalSkipListRemove(g, start, end) ==
    IF RemoveRight(g.nodes, end).end < RemoveLeft(g.nodes, start).start
    THEN RemoveSplit(g, start, end)
    ELSE RemoveSpan(g, start, end)

----------------------------------------------------------------------------
(* Reading the list.                                                       *)

\* Mutant: the walk stops before a node that starts at gno.
ContainsStrict(g, gno) ==
    LET x == LastOf({Header} \cup {n \in g.nodes : n.start < gno})
    IN  x.start <= gno /\ gno <= x.end

gtidIntervalSkipListContains(g, gno) ==
    LET x == LastOf({Header} \cup {n \in g.nodes : n.start <= gno})
    IN  x.start <= gno /\ gno <= x.end

gtidIntervalSkipListNext(g) == g.tail.end + 1

----------------------------------------------------------------------------
(* The uuidSet operations.                                                 *)

Init == /\ gsl = [l \in Lists |-> gtidIntervalSkipListNew]
        /\ loop = NoLoop

uuidSetAdd(l, start, end) ==
    /\ loop = NoLoop
    /\ gtidIntervalIsValid(start, end)
    /\ gsl' = [gsl EXCEPT ![l] = gtidIntervalSkipListAdd(@, start, end)]
    /\ UNCHANGED loop

uuidSetRemove(l, start, end) ==
    /\ loop = NoLoop
    /\ gtidIntervalIsValid(start, end)
    /\ gsl' = [gsl EXCEPT ![l] = gtidIntervalSkipListRemove(@, start, end)]
    /\ UNCHANGED loop

uuidSetRaise(l, watermark) == uuidSetAdd(l, 1, watermark)

\* uuidSetNext with update: allocate the gno after the greatest.
uuidSetNext(l) ==
    LET gno == gtidIntervalSkipListNext(gsl[l])
    IN  /\ loop = NoLoop
        /\ gno <= MaxGno
        /\ gsl' = [gsl EXCEPT ![l] = gtidIntervalSkipListAdd(@, gno, gno)]
        /\ UNCHANGED loop

uuidSetDup(d, s) ==
    /\ loop = NoLoop
    /\ gsl' = [gsl EXCEPT ![d] = gsl[s]]
    /\ UNCHANGED loop

\* Enter the walk of gtidIntervalSkipListMerge or ...Diff at src's first node;
\* an empty src leaves dst as it is.
BeginLoop(op, d, s) ==
    /\ loop = NoLoop
    /\ gsl[s].nodes # {}
    /\ loop' = [op |-> op, dst |-> d, src |-> s,
                x |-> Forward(gsl[s].nodes, Header),
                old |-> Covered(gsl[d].nodes)]
    /\ UNCHANGED gsl

uuidSetMerge(d, s) == BeginLoop("merge", d, s)
uuidSetDiff(d, s) == BeginLoop("diff", d, s)

\* What one iteration does to dst.
LoopBody(g, op, x) ==
    IF op = "merge" THEN gtidIntervalSkipListAdd(g, x.start, x.end)
    ELSE gtidIntervalSkipListRemove(g, x.start, x.end)

\* One iteration, and the move to the next node of src.
StepLoop ==
    /\ loop # NoLoop
    /\ gsl' = [gsl EXCEPT ![loop.dst] = LoopBody(@, loop.op, loop.x)]
    /\ loop' = LET N == gsl[loop.src].nodes
               IN  IF After(N, loop.x) = {} THEN NoLoop
                   ELSE [loop EXCEPT !.x = Forward(N, loop.x)]

Next == \/ \E l \in Lists, start, end \in 1..MaxGno :
              uuidSetAdd(l, start, end) \/ uuidSetRemove(l, start, end)
        \/ \E l \in Lists, watermark \in 1..MaxGno : uuidSetRaise(l, watermark)
        \/ \E l \in Lists : uuidSetNext(l)
        \/ \E d, s \in Lists :
              d # s /\ (uuidSetDup(d, s) \/ uuidSetMerge(d, s) \/ uuidSetDiff(d, s))
        \/ StepLoop

Spec == Init /\ [][Next]_vars

----------------------------------------------------------------------------
(* Properties.                                                             *)

\* Type invariant: every list is a set of nodes within 1..MaxGno plus a tail,
\* and a walk in progress names two lists and a node.
TypeOK ==
    /\ gsl \in [Lists -> [nodes : SUBSET Node, tail : Node \cup {Header}]]
    /\ loop \in Loops \cup {NoLoop}

\* Two nodes of one list never overlap and never touch: Add joins whatever it
\* meets and Remove leaves a hole, so the encoded form of a set is unique
\* (gtidSetEncode writes one interval per node).
SeparatedNodes(N) ==
    \A m, n \in N : m # n => \/ m.end + 1 < n.start
                             \/ n.end + 1 < m.start
Separated == \A l \in Lists : SeparatedNodes(gsl[l].nodes)

\* The cached tail is the last node, and the header when there is none: Next
\* allocates tail->end + 1 and Add's fast path extends it without a search.
IsTail(g) == IF g.nodes = {} THEN g.tail = Header
             ELSE g.tail \in g.nodes /\ After(g.nodes, g.tail) = {}
TailIsLast == \A l \in Lists : IsTail(gsl[l])

\* Membership by search agrees with the set the list stands for, whatever the
\* history of joins, splits and unlinks.
ContainsAgrees ==
    \A l \in Lists, gno \in 1..MaxGno :
        gtidIntervalSkipListContains(gsl[l], gno) <=> gno \in Covered(gsl[l].nodes)

\* In the middle of a Merge (Diff) the destination holds what it held before,
\* with (without) the source's gnos up to the node the walk has reached: no
\* iteration undoes an earlier one.
LoopHalfDone ==
    loop # NoLoop =>
        LET seen == {g \in Covered(gsl[loop.src].nodes) : g < loop.x.start}
            now == Covered(gsl[loop.dst].nodes)
        IN  now = IF loop.op = "merge" THEN loop.old \cup seen
                  ELSE loop.old \ seen

\* The abstract value of a list: until its walk is over, a merge's or diff's
\* destination still counts as what it was at the start.
AbstractGnos ==
    [l \in Lists |-> IF loop # NoLoop /\ loop.dst = l THEN loop.old
                     ELSE Covered(gsl[l].nodes)]

Abs == INSTANCE GnoSet WITH gnos <- AbstractGnos

\* The interval lists implement plain sets of gnos: every operation is the set
\* operation, with Merge and Diff atomic.
ImplementsGnoSet == Abs!Spec
=============================================================================
