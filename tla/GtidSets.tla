------------------------------ MODULE GtidSets ------------------------------
(***************************************************************************)
(* gtidSets (gtid.c) over the interval lists of GtidIntervals: the list of *)
(* uuidSets and the pointers into it, the functions that combine two       *)
(* gtidSets, their text form, and the fields that keep it in an RDB file   *)
(* (xredis_gtid_rdb.c).  All are functions of their arguments: they are    *)
(* checked on gtidSets made of every list GtidIntervals reaches.           *)
(***************************************************************************)
EXTENDS GtidIntervals, Sequences, FiniteSets

LOCAL S == INSTANCE SequencesExt

CONSTANTS u, v,    \* two uuids
          NoUuid   \* a pointer to no uuidSet

ASSUME UuidsAssumption == u # v /\ NoUuid \notin {u, v}

----------------------------------------------------------------------------
(* uuidSets.                                                               *)

uuidSetNew(id) == [uuid |-> id, intervals |-> gtidIntervalSkipListNew]

\* gno_count, which the list keeps.
uuidSetCount(x) == Cardinality(Covered(x.intervals.nodes))

Sorted(N) == S!SetToSortSeq(N, LAMBDA m, n : m.start < n.start)

\* A walk over the nodes of src that updates dst, in one go.
Walk(op, dst, src) ==
    LET body(g, x) == LoopBody(g, op, x)
    IN  S!FoldLeft(body, dst, Sorted(src.nodes))

----------------------------------------------------------------------------
(* gtidSets: list goes from header to tail; current and cached are named   *)
(* by the uuid of what they point to.                                      *)

gtidSetNew == [list |-> <<>>, current |-> NoUuid, curnext |-> 0, cached |-> NoUuid]

\* The place of a uuid in the list, 0 if it is not there.
gtidSetFind(G, id) ==
    LET at == {i \in DOMAIN G.list : G.list[i].uuid = id}
    IN  IF at = {} THEN 0 ELSE CHOOSE i \in at : \A j \in at : i <= j

gtidSetAppend(G, x) == [G EXCEPT !.list = Append(@, x)]

WithUuid(G, id) == IF gtidSetFind(G, id) = 0 THEN gtidSetAppend(G, uuidSetNew(id)) ELSE G

gtidSetDup(G) == [gtidSetNew EXCEPT !.list = G.list]

gtidSetAdd(G, id, start, end) ==
    LET H == WithUuid(G, id)
    IN  [H EXCEPT !.cached = id,
                  !.list[gtidSetFind(H, id)].intervals =
                      IF gtidIntervalIsValid(start, end) THEN gtidIntervalSkipListAdd(@, start, end)
                      ELSE @]

Without(G, i) == S!RemoveAt(G.list, i)

\* Mutant: the uuidSet that current points to is freed.
RemoveKeepsCurrent(G, id, start, end) ==
    LET i == gtidSetFind(G, id)
        x == [G.list[i] EXCEPT !.intervals = gtidIntervalSkipListRemove(@, start, end)]
    IN  IF i = 0 THEN [G EXCEPT !.cached = NoUuid]
        ELSE IF uuidSetCount(x) # 0 THEN [G EXCEPT !.cached = id, !.list[i] = x]
        ELSE [G EXCEPT !.cached = NoUuid, !.list = Without(G, i)]

\* For a valid range; a uuidSet that turns empty leaves the list.
gtidSetRemove(G, id, start, end) ==
    LET i == gtidSetFind(G, id)
        x == [G.list[i] EXCEPT !.intervals = gtidIntervalSkipListRemove(@, start, end)]
    IN  IF i = 0 THEN [G EXCEPT !.cached = NoUuid]
        ELSE IF uuidSetCount(x) # 0 THEN [G EXCEPT !.cached = id, !.list[i] = x]
        ELSE [G EXCEPT !.cached = NoUuid, !.list = Without(G, i),
                       !.current = IF @ = id THEN NoUuid ELSE @]

gtidSetMerge(dst, src) ==
    LET add(G, x) ==
            LET i == gtidSetFind(G, x.uuid)
            IN  IF i = 0 THEN gtidSetAppend(G, x)
                ELSE [G EXCEPT !.list[i].intervals = Walk("merge", @, x.intervals)]
    IN  S!FoldLeft(add, dst, src.list)

\* What is left of each uuidSet of dst.  Empty ones leave the list, current
\* is not looked at: the code calls it for duplicates and for gtid.lost only.
gtidSetDiff(dst, src) ==
    LET left(x) == LET i == gtidSetFind(src, x.uuid)
                   IN  IF i = 0 THEN x
                       ELSE [x EXCEPT !.intervals = Walk("diff", @, src.list[i].intervals)]
        gone(id) == \E i \in DOMAIN dst.list :
                       dst.list[i].uuid = id /\ uuidSetCount(left(dst.list[i])) = 0
    IN  [dst EXCEPT !.list = SelectSeq([i \in DOMAIN @ |-> left(@[i])],
                                       LAMBDA x : uuidSetCount(x) # 0),
                    !.cached = IF gone(@) THEN NoUuid ELSE @]

gtidSetCount(G) == S!FoldLeft(LAMBDA n, x : n + uuidSetCount(x), 0, G.list)

gtidSetEqual(G, H) == gtidSetCount(gtidSetDiff(gtidSetDup(G), H)) = 0
                      /\ gtidSetCount(gtidSetDiff(gtidSetDup(H), G)) = 0

gtidSetRelated(G, H) == \E i \in DOMAIN H.list : gtidSetFind(G, H.list[i].uuid) # 0

gtidSetContains(G, id, gno) ==
    LET i == gtidSetFind(G, id)
    IN  i # 0 /\ gtidIntervalSkipListContains(G.list[i].intervals, gno)

gtidSetCurrentUuidSetUpdate(G, id) == [WithUuid(G, id) EXCEPT !.current = id]

----------------------------------------------------------------------------
(* Text.  A text is the sequence of its uuidSets, each a sequence of <<gno>> *)
(* or <<start, end>>; numbers have w digits each.                          *)

GNO_REPR_MAX_LEN == 21
UuidLen == 40                     \* CONFIG_RUN_ID_SIZE

\* Mutant: there is room for one number per interval.
EstimateOneNumber(G) ==
    S!FoldLeft(LAMBDA n, x : n + UuidLen + (1 + GNO_REPR_MAX_LEN) * Cardinality(x.intervals.nodes) + 1,
               1, G.list)

gtidSetEstimatedEncodeBufferSize(G) ==
    S!FoldLeft(LAMBDA n, x : n + UuidLen + 44 * Cardinality(x.intervals.nodes) + 1, 1, G.list)

gtidIntervalEncode(n) == IF n.start = n.end THEN <<n.start>> ELSE <<n.start, n.end>>

\* Whether an interval fits where the buffer is filled up to len.
Fits(len, maxlen, n, w) ==
    /\ len + 1 + GNO_REPR_MAX_LEN <= maxlen
    /\ n.start # n.end => len + 1 + w + 1 + GNO_REPR_MAX_LEN <= maxlen

IntervalLen(n, w) == IF n.start = n.end THEN 1 + w ELSE 1 + w + 1 + w

\* gtidSetEncode into a buffer of maxlen bytes; ok is FALSE once it is full.
gtidSetEncode(G, maxlen, w) ==
    LET interval(b, n) == [b EXCEPT !.ok = @ /\ Fits(b.len, maxlen, n, w),
                                    !.len = @ + IntervalLen(n, w)]
        uuidSetEncode(b, x) ==
            LET comma == IF b.text = <<>> THEN 0 ELSE 1
                nodes == Sorted(x.intervals.nodes)
                start == [b EXCEPT !.ok = @ /\ b.len + comma + UuidLen <= maxlen,
                                   !.len = @ + comma + UuidLen]
            IN  IF uuidSetCount(x) = 0 THEN b
                ELSE [S!FoldLeft(interval, start, nodes) EXCEPT
                         !.text = Append(@, [uuid |-> x.uuid,
                             intervals |-> [i \in DOMAIN nodes |-> gtidIntervalEncode(nodes[i])]])]
    IN  S!FoldLeft(uuidSetEncode, [text |-> <<>>, len |-> 0, ok |-> TRUE], G.list)

\* gtidSetDump
gtidSetDump(G, w) == gtidSetEncode(G, gtidSetEstimatedEncodeBufferSize(G), w)

gtidIntervalDecode(t) == [start |-> t[1], end |-> t[Len(t)]]

Null == [list |-> NoUuid]

\* uuidSetDecode: Add brings the intervals in order, whatever theirs is.
uuidSetDecode(t) ==
    LET add(g, i) == LET n == gtidIntervalDecode(i) IN gtidIntervalSkipListAdd(g, n.start, n.end)
    IN  [uuid |-> t.uuid, intervals |-> S!FoldLeft(add, gtidIntervalSkipListNew, t.intervals)]

\* NULL if an interval is not valid.
gtidSetDecode(text) ==
    IF \E i \in DOMAIN text : \E j \in DOMAIN text[i].intervals :
          LET n == gtidIntervalDecode(text[i].intervals[j]) IN ~gtidIntervalIsValid(n.start, n.end)
    THEN Null
    ELSE [gtidSetNew EXCEPT !.list = [i \in DOMAIN text |-> uuidSetDecode(text[i])]]

----------------------------------------------------------------------------
(* The fields in an RDB file.                                              *)

NoGtidInfo == [mode |-> "none", executed |-> Null, lost |-> Null]

\* redis: field number failAt cannot be written, and after it nothing can.
rdbSaveAuxField(rdb, field, failAt) ==
    IF rdb.failed \/ Len(rdb.fields) + 1 = failAt THEN [rdb EXCEPT !.failed = TRUE]
    ELSE [rdb EXCEPT !.fields = Append(@, field)]

\* Mutant: the failure of the last field is looked for like the first one's.
SaveChecksOne(rdb, rsi, mode, executed, lost, failAt) ==
    LET f1 == rdbSaveAuxField(rdb, [key |-> "gtid-repl-mode", val |-> mode], failAt)
        f2 == rdbSaveAuxField(f1, [key |-> "gtid-executed", val |-> executed], failAt)
        f3 == rdbSaveAuxField(f2, [key |-> "gtid-lost", val |-> lost], failAt)
    IN  IF ~rsi THEN [rdb |-> rdb, ok |-> TRUE] ELSE [rdb |-> f3, ok |-> ~f2.failed]

\* rsi says whether the caller has a replication history to save; without one
\* nothing is written, and the save is a success.  The failure of the first
\* field is compared with 0, which it never is.
rdbSaveInfoAuxFieldsGtid(rdb, rsi, mode, executed, lost, failAt) ==
    LET f1 == rdbSaveAuxField(rdb, [key |-> "gtid-repl-mode", val |-> mode], failAt)
        f2 == rdbSaveAuxField(f1, [key |-> "gtid-executed", val |-> executed], failAt)
        f3 == IF f2.failed THEN f2
              ELSE rdbSaveAuxField(f2, [key |-> "gtid-lost", val |-> lost], failAt)
    IN  IF ~rsi THEN [rdb |-> rdb, ok |-> TRUE] ELSE [rdb |-> f3, ok |-> ~f3.failed]

\* The fields in the order they were saved: the mode makes the gtid_rsi the
\* others are put in.
loadInfoAuxFieldsGtid(rsi, field) ==
    CASE field.key = "gtid-repl-mode" -> [NoGtidInfo EXCEPT !.mode = field.val]
      [] field.key = "gtid-executed"  -> [rsi EXCEPT !.executed = gtidSetDecode(field.val)]
      [] field.key = "gtid-lost"      ->
            [rsi EXCEPT !.lost = IF gtidSetDecode(field.val) = Null THEN gtidSetNew
                                 ELSE gtidSetDecode(field.val)]

rdbLoad(rdb) == S!FoldLeft(loadInfoAuxFieldsGtid, NoGtidInfo, rdb.fields)

----------------------------------------------------------------------------
(* Properties, of gtidSets made of the two lists at hand.                  *)

Uuids == {u, v}

\* The gtids a gtidSet stands for.
Gtids(G) == UNION {{G.list[i].uuid} \X Covered(G.list[i].intervals.nodes) : i \in DOMAIN G.list}

Make(g, h) == [list |-> <<[uuid |-> u, intervals |-> g], [uuid |-> v, intervals |-> h]>>,
               current |-> u, curnext |-> 0, cached |-> v]

\* gtidSets of the lists x and y: both, the other way round, one of them.
Samples(x, y) == {Make(x, y), Make(y, x), [Make(x, y) EXCEPT !.list = <<@[2]>>, !.current = NoUuid]}

\* The lists at rest.
Resting == IF loop = NoLoop THEN {<<gsl[x], gsl[y]>> : <<x, y>> \in {p \in Lists \X Lists : p[1] # p[2]}}
           ELSE {}

Canonical(G) == \A i \in DOMAIN G.list : /\ SeparatedNodes(G.list[i].intervals.nodes)
                                         /\ IsTail(G.list[i].intervals)

\* current and cached point to a uuidSet of the list, or nowhere.
Live(G) == {G.current, G.cached} \subseteq {NoUuid} \cup {G.list[i].uuid : i \in DOMAIN G.list}

\* Every function is that of sets of gtids, whatever the order of the uuidSets.
\* Merge and Diff leave lists canonical and uuidSets non-empty; Equal does not
\* mind empty ones, Related does (a server's own, before its first write).
MergeAndDiffAgree(G, H) ==
    LET M == gtidSetMerge(gtidSetDup(G), H)
        D == gtidSetDiff(gtidSetDup(G), H)
    IN  /\ Gtids(M) = Gtids(G) \cup Gtids(H) /\ Canonical(M)
        /\ Gtids(D) = Gtids(G) \ Gtids(H) /\ Canonical(D)
        /\ \A i \in DOMAIN D.list : uuidSetCount(D.list[i]) # 0
        /\ gtidSetCount(M) = Cardinality(Gtids(M))
        /\ gtidSetEqual(G, H) <=> Gtids(G) = Gtids(H)
        /\ Gtids(G) \cap Gtids(H) # {} => gtidSetRelated(G, H)

\* GTIDX REMOVE may free the very uuidSet that the server's own writes go to.
AddAndRemoveAgree(G, id, start, end) ==
    LET A == gtidSetAdd(G, id, start, end)
        R == gtidSetRemove(G, id, start, end)
    IN  /\ Live(A) /\ Live(R) /\ Live(gtidSetCurrentUuidSetUpdate(R, u))
        /\ Gtids(A) = Gtids(G) \cup ({id} \X (start..end))
        /\ Gtids(R) = Gtids(G) \ ({id} \X (start..end))
        /\ \A gno \in 1..MaxGno : gtidSetContains(R, id, gno) <=> <<id, gno>> \in Gtids(R)

\* gtidSets stay sets of gtids under each of their functions, and no pointer
\* is left to a uuidSet that one of them freed.
SetsAgree ==
    \A p \in Resting : \A G \in Samples(p[1], p[2]) :
        /\ \A H \in Samples(p[2], p[1]) : MergeAndDiffAgree(G, H)
        /\ \A id \in Uuids, start, end \in 1..MaxGno :
              start <= end => AddAndRemoveAgree(G, id, start, end)

\* A set that is written out always fits its buffer, also if all its numbers
\* have 19 digits (a failure of the inner encoder would go unnoticed: its
\* result is kept unsigned), and what is read back is the same set, node for
\* node.  The intervals of a text may come in any order.
CodecExact ==
    \A p \in Resting : \A G \in Samples(p[1], p[2]) :
        LET t == gtidSetDump(G, 19)
            G2 == gtidSetDecode(t.text)
            mixed == [uuid |-> u, intervals |->
                         LET n == Sorted(p[1].nodes) \o Sorted(p[2].nodes)
                         IN  [i \in DOMAIN n |-> gtidIntervalEncode(n[i])]]
        IN  /\ t.ok
            /\ G2.list = SelectSeq(G.list, LAMBDA x : uuidSetCount(x) # 0)
            /\ LET x == uuidSetDecode(mixed)
               IN  /\ Covered(x.intervals.nodes) = Covered(p[1].nodes) \cup Covered(p[2].nodes)
                   /\ Canonical([list |-> <<x>>])

\* A file that was saved with success is complete, at whichever field the disk
\* filled up: with a replication history it has every field, and a restart from
\* it finds the same mode and sets; without one it has none, and a restart finds
\* no gtid information at all, rather than one of the sets.
RdbRestores ==
    \A p \in Resting, rsi \in BOOLEAN, failAt \in 0..3 :
    \A G \in Samples(p[1], p[2]), mode \in {"xsync", "psync"} :
        LET lost == [Make(p[2], p[1]) EXCEPT !.list = <<@[1]>>]
            saved == rdbSaveInfoAuxFieldsGtid([fields |-> <<>>, failed |-> FALSE], rsi, mode,
                         gtidSetDump(G, 1).text, gtidSetDump(lost, 1).text, failAt)
            loaded == rdbLoad(saved.rdb)
        IN  /\ saved.ok <=> ~rsi \/ failAt = 0
            /\ saved.ok /\ rsi =>
                  /\ loaded.mode = mode
                  /\ Gtids(loaded.executed) = Gtids(G) /\ Gtids(loaded.lost) = Gtids(lost)
            /\ ~rsi => loaded = NoGtidInfo
=============================================================================
