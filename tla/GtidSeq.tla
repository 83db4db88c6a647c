------------------------------ MODULE GtidSeq -------------------------------
(***************************************************************************)
(* The gno-to-offset index of gtid.c: a list of segments, each a run of    *)
(* consecutive gnos of one uuid with 16-bit offsets relative to the        *)
(* segment's first command, and a pool of free segments.                   *)
(*                                                                         *)
(* A segment's `deltas` holds exactly its ngno used cells; the unused ones *)
(* up to `capacity` are not modelled.  The binary searches are modelled by *)
(* the cell they find.  The caller is the replication feed, which appends  *)
(* at the current end of the stream (`next`) and trims up to the backlog's *)
(* first offset, a value within the stream.                                *)
(***************************************************************************)
EXTENDS Integers, Sequences

CONSTANTS Uuids,        \* source ids of the commands in the stream
          MaxGno,       \* bound on the gnos appended
          MaxOffset,    \* bound on the stream
          SegmentSize,  \* seq->segment_size: bytes of stream one segment spans
          SegoffMax,    \* SEGOFF_MAX, the largest delta a cell can hold
          NgnoDefault   \* GTID_SEGMENT_NGNO_DEFAULT, cells of a new segment

ASSUME SizesAssumption ==
    /\ MaxGno \in Nat \ {0} /\ MaxOffset \in Nat \ {0}
    /\ SegmentSize \in Nat \ {0} /\ SegoffMax \in Nat /\ NgnoDefault \in Nat \ {0}
    /\ SegmentSize <= SegoffMax + 1

VARIABLES segs,   \* the occupied segments, firstseg to lastseg
          pool,   \* the free segments and the four counters
          next    \* offset of the next command: master_repl_offset + 1

vars == <<segs, pool, next>>

----------------------------------------------------------------------------
(* Segments.                                                               *)

ngno(seg) == Len(seg.deltas)
OffsetAt(seg, i) == seg.base_offset + seg.deltas[i]
tail_offset(seg) == OffsetAt(seg, ngno(seg))
start_gno(seg) == seg.base_gno + seg.tgno
end_gno(seg) == seg.base_gno + ngno(seg) - 1

\* The cells trimming has left.
Live(seg) == (seg.tgno + 1)..ngno(seg)

\* gtidSegmentNew and gtidSegmentReset, on a segment of the given capacity.
gtidSegmentReset(capacity, u, g, offset) ==
    [uuid |-> u, base_gno |-> g, base_offset |-> offset,
     tgno |-> 0, deltas |-> << >>, capacity |-> capacity]

\* Mutant: a full segment is not given more cells.
SegmentAppendInPlace(seg, offset) ==
    [seg EXCEPT !.deltas = Append(@, (offset - seg.base_offset) % (SegoffMax + 1))]

\* gtidSegmentAppend: a full segment doubles its cells first.
gtidSegmentAppend(seg, offset) ==
    [seg EXCEPT !.deltas = Append(@, (offset - seg.base_offset) % (SegoffMax + 1)),
                !.capacity = IF ngno(seg) = @ THEN @ * 2 ELSE @]

----------------------------------------------------------------------------
(* gtidSeqAppend.                                                          *)

\* Mutant: a segment's span is not bounded.
NeedsSwitchNoSpan(u, g, offset) ==
    \/ segs = << >>
    \/ LET last == segs[Len(segs)]
       IN  last.uuid # u \/ last.base_gno + ngno(last) # g

\* Whether lastseg cannot take gno g of uuid u at this offset.
NeedsSwitch(u, g, offset) ==
    \/ segs = << >>
    \/ LET last == segs[Len(segs)]
       IN  \/ last.uuid # u
           \/ last.base_gno + ngno(last) # g
           \/ last.base_offset + SegmentSize <= offset

\* gtidSeqSwitchSegment: a free segment if there is one, or a new one.
SwitchCapacity == IF pool.free = << >> THEN NgnoDefault ELSE Head(pool.free)

\* Mutant: a reused segment still counts as free.
PoolAfterSwitchStillFree ==
    [free |-> IF pool.free = << >> THEN << >> ELSE Tail(pool.free),
     nsegment |-> pool.nsegment + 1,
     nfreeseg |-> pool.nfreeseg,
     nsegment_deltas |-> pool.nsegment_deltas + SwitchCapacity,
     nfreeseg_deltas |-> pool.nfreeseg_deltas]

\* Mutant: the cells of a reused segment are not counted as used.
PoolAfterSwitchUncounted ==
    IF pool.free # << >>
    THEN [pool EXCEPT !.free = Tail(@), !.nsegment = @ + 1, !.nfreeseg = @ - 1,
                      !.nfreeseg_deltas = @ - SwitchCapacity]
    ELSE [pool EXCEPT !.nsegment = @ + 1, !.nsegment_deltas = @ + SwitchCapacity]

PoolAfterSwitch ==
    LET reuse == pool.free # << >>
    IN  [free |-> IF reuse THEN Tail(pool.free) ELSE << >>,
         nsegment |-> pool.nsegment + 1,
         nfreeseg |-> IF reuse THEN pool.nfreeseg - 1 ELSE pool.nfreeseg,
         nsegment_deltas |-> pool.nsegment_deltas + SwitchCapacity,
         nfreeseg_deltas |-> IF reuse THEN pool.nfreeseg_deltas - SwitchCapacity
                             ELSE pool.nfreeseg_deltas]

\* The segment the command goes to, and the segments before it.
Target(u, g, offset) ==
    IF NeedsSwitch(u, g, offset) THEN gtidSegmentReset(SwitchCapacity, u, g, offset)
    ELSE segs[Len(segs)]

Before(u, g, offset) ==
    IF NeedsSwitch(u, g, offset) THEN segs ELSE SubSeq(segs, 1, Len(segs) - 1)

\* Mutant: the index is fed the offset the command ends at.
AppendEndOffset(u, g, size) ==
    LET seg == Target(u, g, next + size)
        grown == gtidSegmentAppend(seg, next + size)
        p == IF NeedsSwitch(u, g, next + size) THEN PoolAfterSwitch ELSE pool
    IN  /\ segs' = Append(Before(u, g, next + size), grown)
        /\ pool' = [p EXCEPT !.nsegment_deltas = @ + grown.capacity - seg.capacity]
        /\ next' = next + size

\* A command with gtid u:g and the given size enters the stream.
gtidSeqAppend(u, g, size) ==
    LET seg == Target(u, g, next)
        grown == gtidSegmentAppend(seg, next)
        p == IF NeedsSwitch(u, g, next) THEN PoolAfterSwitch ELSE pool
    IN  /\ segs' = Append(Before(u, g, next), grown)
        /\ pool' = [p EXCEPT !.nsegment_deltas = @ + grown.capacity - seg.capacity]
        /\ next' = next + size

\* A command without a gtid enters the stream.
Feed(size) == next' = next + size /\ UNCHANGED <<segs, pool>>

----------------------------------------------------------------------------
(* gtidSeqTrim.                                                            *)

\* How many segments end before `until`, from firstseg on.
WholeTrimmed(until) ==
    LET kept == {i \in 1..Len(segs) : tail_offset(segs[i]) >= until}
    IN  IF kept = {} THEN Len(segs)
        ELSE (CHOOSE i \in kept : \A j \in kept : i <= j) - 1

\* The binary search: how many cells of the segment lie before `until`.
CellsBefore(seg, until) ==
    CHOOSE l \in seg.tgno..ngno(seg) :
        /\ \A i \in (seg.tgno + 1)..l : OffsetAt(seg, i) < until
        /\ \A i \in (l + 1)..ngno(seg) : OffsetAt(seg, i) >= until

\* Mutant: every trimmed segment is kept for reuse.
PoolAfterTrimCacheAll(n) ==
    LET drop[k \in 0..n] ==
          IF k = 0 THEN pool
          ELSE LET p == drop[k - 1]
                   cap == segs[k].capacity
               IN  [free |-> <<cap>> \o p.free,
                    nsegment |-> p.nsegment - 1, nfreeseg |-> p.nfreeseg + 1,
                    nsegment_deltas |-> p.nsegment_deltas - cap,
                    nfreeseg_deltas |-> p.nfreeseg_deltas + cap]
    IN  drop[n]

\* What the whole trimmed segments leave in the pool, one after the other: a
\* segment is kept for reuse while the segments in use outnumber the free ones.
PoolAfterTrim(n) ==
    LET drop[k \in 0..n] ==
          IF k = 0 THEN pool
          ELSE LET p == drop[k - 1]
                   cap == segs[k].capacity
                   q == [p EXCEPT !.nsegment = @ - 1, !.nsegment_deltas = @ - cap]
               IN  IF q.nsegment > q.nfreeseg
                   THEN [q EXCEPT !.free = <<cap>> \o @, !.nfreeseg = @ + 1,
                                  !.nfreeseg_deltas = @ + cap]
                   ELSE q
    IN  drop[n]

gtidSeqTrim(until) ==
    LET n == WholeTrimmed(until)
        rest == SubSeq(segs, n + 1, Len(segs))
    IN  /\ segs' = IF rest = << >> THEN << >>
                   ELSE [rest EXCEPT ![1].tgno = CellsBefore(rest[1], until)]
        /\ pool' = PoolAfterTrim(n)
        /\ UNCHANGED next

----------------------------------------------------------------------------
(* gtidSeqDestroy, then gtidSeqCreate: the backlog starts over.            *)

EmptyPool == [free |-> << >>, nsegment |-> 0, nfreeseg |-> 0,
              nsegment_deltas |-> 0, nfreeseg_deltas |-> 0]

Recreate == segs' = << >> /\ pool' = EmptyPool /\ UNCHANGED next

----------------------------------------------------------------------------
(* gtidSeqXsync and gtidSeqPsync.                                          *)

\* Mutant: the walk also stops at a segment the replica has nothing of.
XsyncStopEarly(need) ==
    LET stops == {i \in 1..Len(segs) : need[segs[i].uuid] >= start_gno(segs[i])}
    IN  IF stops = {} THEN 0 ELSE CHOOSE i \in stops : \A j \in stops : j <= i

\* gtidSeqXsync walks back from lastseg.  The segment it stops at is the last
\* one of which the replica has the first gno already (0 if there is none);
\* need[u] is uuidSetNext of the request's set of u, 1 if it has none.
XsyncStop(need) ==
    LET stops == {i \in 1..Len(segs) : need[segs[i].uuid] > start_gno(segs[i])}
    IN  IF stops = {} THEN 0 ELSE CHOOSE i \in stops : \A j \in stops : j <= i

\* The cells of segment i from gno g on, as (uuid, gno) pairs.
GtidsFrom(seg, g) == {<<seg.uuid, k>> : k \in g..end_gno(seg)}

\* [offset, cont]: where to continue (-1: nowhere) and what that will send.
gtidSeqXsync(need) ==
    LET k == XsyncStop(need)
        cut == k # 0 /\ need[segs[k].uuid] <= end_gno(segs[k])
        whole == UNION {GtidsFrom(segs[i], start_gno(segs[i])) : i \in (k + 1)..Len(segs)}
    IN  IF cut
        THEN LET g == need[segs[k].uuid]
             IN  [offset |-> OffsetAt(segs[k], g - segs[k].base_gno + 1),
                  cont |-> GtidsFrom(segs[k], g) \cup whole]
        ELSE [offset |-> IF k = Len(segs) THEN -1
                         ELSE OffsetAt(segs[k + 1], segs[k + 1].tgno + 1),
              cont |-> whole]

\* Mutant: the segment the offset falls in is taken whole.
PsyncWhole(offset) ==
    LET before == {i \in 1..Len(segs) : OffsetAt(segs[i], segs[i].tgno + 1) < offset}
        k == IF before = {} THEN 1 ELSE CHOOSE i \in before : \A j \in before : j <= i
    IN  UNION {GtidsFrom(segs[i], start_gno(segs[i])) : i \in k..Len(segs)}

\* The gtids at or after an offset: whole segments back from lastseg, then the
\* tail of the first one that starts before the offset.
gtidSeqPsync(offset) ==
    LET before == {i \in 1..Len(segs) : OffsetAt(segs[i], segs[i].tgno + 1) < offset}
        k == IF before = {} THEN 0 ELSE CHOOSE i \in before : \A j \in before : j <= i
        whole == UNION {GtidsFrom(segs[i], start_gno(segs[i])) : i \in (k + 1)..Len(segs)}
    IN  IF k = 0 THEN whole
        ELSE GtidsFrom(segs[k], segs[k].base_gno + CellsBefore(segs[k], offset)) \cup whole

----------------------------------------------------------------------------
Init == segs = << >> /\ pool = EmptyPool /\ next = 1

\* Bound: the stream ends before MaxOffset.
Sizes == {size \in 1..MaxOffset : next + size <= MaxOffset + 1}

Next == \/ \E u \in Uuids, g \in 1..MaxGno, size \in Sizes : gtidSeqAppend(u, g, size)
        \/ \E size \in Sizes : Feed(size)
        \/ \E until \in 1..next : gtidSeqTrim(until)
        \/ Recreate

Spec == Init /\ [][Next]_vars

----------------------------------------------------------------------------
(* Properties.                                                             *)

Segment == [uuid : Uuids, base_gno : 1..MaxGno, base_offset : 1..MaxOffset,
            tgno : Nat, deltas : Seq(0..SegoffMax), capacity : Nat]

\* Type invariant.
TypeOK ==
    /\ segs \in Seq(Segment)
    /\ pool \in [free : Seq(Nat), nsegment : Nat, nfreeseg : Nat,
                 nsegment_deltas : Nat, nfreeseg_deltas : Nat]
    /\ next \in 1..(MaxOffset + 1)

\* The asserts of gtidSeqTrim and gtidSegmentAppend: no segment is ever empty,
\* and a segment's cells are the strictly increasing offsets of its commands,
\* none of them truncated to 16 bits nor written past the allocated cells.
SegmentsOK ==
    \A k \in 1..Len(segs) :
        LET seg == segs[k]
        IN  /\ seg.tgno < ngno(seg)
            /\ ngno(seg) <= seg.capacity
            /\ seg.deltas[1] = 0
            /\ \A i, j \in 1..ngno(seg) : i < j => seg.deltas[i] < seg.deltas[j]

\* Segments follow each other in stream order, and the stream's end follows
\* them all: gtidSeqAppend's assert(tail_offset < offset).
SegmentsOrdered ==
    /\ \A i, j \in 1..Len(segs) :
           i < j => tail_offset(segs[i]) < segs[j].base_offset
    /\ \A i \in 1..Len(segs) : tail_offset(segs[i]) < next

\* The counters INFO reports and gtidSeqDestroy asserts on are exact.
SumOfCapacities(s) == LET sum[k \in 0..Len(s)] == IF k = 0 THEN 0 ELSE sum[k - 1] + s[k]
                      IN  sum[Len(s)]
PoolExact ==
    /\ pool.nsegment = Len(segs)
    /\ pool.nfreeseg = Len(pool.free)
    /\ pool.nsegment_deltas = SumOfCapacities([k \in 1..Len(segs) |-> segs[k].capacity])
    /\ pool.nfreeseg_deltas = SumOfCapacities(pool.free)

\* Whatever a step does to the pool, it never keeps more free segments than it
\* found in use: "cache no more than used segment".
CacheBounded ==
    [][pool'.nfreeseg > pool.nfreeseg => pool'.nfreeseg <= pool.nsegment]_vars

\* The index the segments stand for.
Entries == {[uuid |-> segs[p[1]].uuid, gno |-> segs[p[1]].base_gno + p[2] - 1,
             offset |-> OffsetAt(segs[p[1]], p[2])] :
                 p \in {q \in (1..Len(segs)) \X (1..MaxOffset) : q[2] \in Live(segs[q[1]])}}

Index == INSTANCE GtidIndex WITH idx <- Entries

\* Segments, deltas and partial trimming implement the plain index.
ImplementsGtidIndex == Index!Spec

\* gtidSeqXsync finds the first offset after everything the replica has, and
\* what it says will be sent is exactly what the stream holds from there: the
\* replica is not sent a gtid twice, and none it lacks is left out after it.
XsyncAgrees ==
    \A need \in [Uuids -> 1..(MaxGno + 1)] :
        LET lacking == Index!Lacking(Entries, need)
            found == gtidSeqXsync(need)
        IN  /\ found.cont = {<<e.uuid, e.gno>> : e \in lacking}
            /\ IF lacking = {} THEN found.offset = -1
               ELSE /\ found.offset \in {e.offset : e \in lacking}
                    /\ \A e \in lacking : found.offset <= e.offset

\* gtidSeqPsync lists exactly the gtids the stream holds from an offset on.
PsyncAgrees ==
    \A offset \in 1..(MaxOffset + 1) :
        gtidSeqPsync(offset) = {<<e.uuid, e.gno>> : e \in Index!From(Entries, offset)}
=============================================================================
