------------------------ MODULE ModeSwitchDataProofs -------------------------
(***************************************************************************)
(* Towards SameData of ModeSwitch, for any servers, writes, backlog and    *)
(* disruptions: an invariant that says what each replication id and each   *)
(* gtid set stands for, and every step but the handshake's answer.         *)
(***************************************************************************)
EXTENDS ModeSwitchProofs

----------------------------------------------------------------------------
(* The invariant: H are facts <<replication id, offset, data>>, X are      *)
(* facts <<gtid set, data>>, N is the number of ids made so far.           *)

\* What the writer of an item has once it has run it.
DataAfter(i) == IF i.write = 0 THEN i.data ELSE Append(i.data, i.write)
GtidsAfter(i) == IF i.gtid = NoGtid THEN i.executed ELSE i.executed \cup {i.gtid}

\* The offsets a server r retains, the item it has from each of them on, and
\* the data and the gtids it had at each of them.
Window(r) == (IF r.backlog THEN r.boff - 1 ELSE r.offset)..r.offset
ItemAt(r, o) == r.items[o - r.boff + 2]
DataAt(r, o) == IF o = r.offset THEN r.data ELSE ItemAt(r, o).data
GtidsAt(r, o) == r.executed \ Gtids({e \in r.idx : e.offset > o})

\* The offsets of either mode, the current one or the one before it.
InXsync(r, o) ==
    IF r.mode = "xsync" THEN r.from - 1 <= o
    ELSE r.prev.mode = "xsync" /\ (o = r.from - 1 \/ (r.prev.from - 1 <= o /\ o < r.from))
InPsync(r, o) ==
    IF r.mode = "psync" THEN r.from - 1 <= o
    ELSE r.prev.mode = "psync" /\ r.prev.from - 1 <= o /\ o < r.from

\* Where the replication ids of the psync offsets are.
HasPsync(r) == r.mode = "psync" \/ r.prev.mode = "psync"
PsyncIds(r) == IF r.mode = "psync" THEN r ELSE r.prev

\* An item with a gtid of its own, or none if it is not a write.
XItem(i) == i.gtid \notin i.executed /\ (i.write = 0 <=> i.gtid = NoGtid)

\* The item from o on leads from what the server had at o to what it had next.
ItemOK(r, o) ==
    LET i == ItemAt(r, o)
    IN  /\ DataAfter(i) = DataAt(r, o + 1)
        /\ InXsync(r, o) /\ InXsync(r, o + 1) =>
              XItem(i) /\ i.executed = GtidsAt(r, o) /\ GtidsAfter(i) = GtidsAt(r, o + 1)
        /\ InPsync(r, o) /\ InPsync(r, o + 1) => i.gtid = NoGtid

Known(X, S, d) == S # {} => <<S, d>> \in X

\* The second replication id of p names the same data as the first.
Joined(H, p) ==
    p.replid2 # NoId =>
        \A h \in H : h[1] = p.replid2 /\ h[2] < p.off2 => <<p.replid, h[2], h[3]>> \in H

IdsOK(N, r) ==
    /\ r.replid \in 1..N /\ r.replid2 \in 0..N
    /\ r.prev # Unset => r.prev.replid \in 1..N /\ r.prev.replid2 \in 0..N

ItemsOK(r) == \A o \in Window(r) : o # r.offset => ItemOK(r, o)
GtidFacts(X, r) == \A o \in Window(r) : InXsync(r, o) => Known(X, GtidsAt(r, o), DataAt(r, o))
IdFacts(H, r) ==
    r.backlog \/ r.mode = "xsync" =>
        \A o \in Window(r) : InPsync(r, o) => <<PsyncIds(r).replid, o, DataAt(r, o)>> \in H
ShapeOK(r) ==
    /\ r.prev.mode # r.mode
    /\ r.mode = "xsync" /\ r.prev # Unset => r.prev.from <= r.from
    /\ r.mode = "psync" => ~r.stale /\ \A e \in r.idx : e.offset < r.from
    /\ ~r.backlog => r.items = <<>> /\ r.idx = {}

ServerData(H, X, N, r) ==
    /\ ItemsOK(r) /\ GtidFacts(X, r) /\ IdFacts(H, r) /\ ShapeOK(r) /\ IdsOK(N, r)
    /\ r.mode = "psync" /\ ~r.backlog => \A h \in H : h[1] # r.replid
    /\ HasPsync(r) => Joined(H, PsyncIds(r))

\* Servers that may extend the history of their replication id.
Solo(t) == master[t] = None \/ ~srv[t].backlog

\* ... such as q, do not touch what p's second id names.
Settled(p, q, solo) ==
    p.replid2 # NoId /\ solo /\ q.mode = "psync" /\ q.replid = p.replid2
        => q.backlog /\ p.off2 <= q.offset + 1

SoloOK(H) ==
    /\ \A s, t \in Servers : s # t /\ Solo(s) /\ Solo(t) => srv[s].replid # srv[t].replid
    /\ \A s \in Servers : master[s] = None /\ srv[s].mode = "psync" =>
          \A h \in H : h[1] = srv[s].replid => h[2] <= srv[s].offset
    /\ \A s, t \in Servers : HasPsync(srv[s]) => Settled(PsyncIds(srv[s]), srv[t], Solo(t))

FactsOK(H, X, N, G) ==
    /\ H \subseteq (1..N) \X Int \X Seq(Nat)
    /\ X \subseteq (SUBSET G) \X Seq(Nat)
    /\ \A h, g \in H : h[1] = g[1] /\ h[2] = g[2] => h = g
    /\ \A x, y \in X : x[1] = y[1] => x = y

\* What a replica r is once it has read the answer on its connection, if any.
Standing(r) == [mode |-> r.mode, data |-> r.data, executed |-> r.executed,
                offset |-> r.offset, replid |-> r.replid]
Becomes(r, a) ==
    [mode |-> IF a.type \in {"continue", "fullresync"} THEN "psync" ELSE "xsync",
     data |-> IF a.type \in {"fullresync", "xfullresync"} THEN a.data ELSE r.data,
     executed |-> CASE a.type = "xcontinue" -> a.cont
                    [] a.type = "xfullresync" -> a.executed
                    [] OTHER -> r.executed,
     offset |-> IF a.type = "xcontinue" \/ (a.type = "continue" /\ r.mode = "psync") THEN r.offset
                ELSE a.reploff,
     replid |-> a.replid]
Start(c, r) == IF c.link = "wait" THEN Becomes(r, Head(c.chan)) ELSE Standing(r)
Rest(c) == IF c.link = "wait" THEN Tail(c.chan) ELSE c.chan

StartOK(H, X, z) ==
    IF z.mode = "psync" THEN <<z.replid, z.offset, z.data>> \in H ELSE Known(X, z.executed, z.data)

\* The messages L, from z on.
FirstOK(z, i) == i.data = z.data /\ (z.mode = "xsync" => i.executed = z.executed)
NextItemOK(z, i, j) ==
    j.data = DataAfter(i) /\ (z.mode = "xsync" => j.executed = GtidsAfter(i))
FactOK(H, X, z, k, i) ==
    IF z.mode = "xsync" THEN XItem(i) /\ Known(X, GtidsAfter(i), DataAfter(i))
    ELSE i.gtid = NoGtid /\ <<z.replid, z.offset + k, DataAfter(i)>> \in H
PendingOK(H, X, z, L) ==
    \A k \in 1..Len(L) : L[k].type = "cmd" =>
        /\ k = 1 => FirstOK(z, L[k].item)
        /\ k > 1 /\ L[k - 1].type = "cmd" => NextItemOK(z, L[k - 1].item, L[k].item)
        /\ FactOK(H, X, z, k, L[k].item)

\* ... and they end where their sender m is.
Ends(z, L, m) ==
    IF L = <<>> THEN m.data = z.data /\ (z.mode = "xsync" => m.executed = z.executed)
    ELSE NextItemOK(z, L[Len(L)].item, m)

AnswerOK(H, N, r, a) ==
    /\ a.replid \in 1..N
    /\ a.type \in {"continue", "xcontinue"} /\ r.mode = "psync" => r.backlog
    /\ a.type = "xcontinue" /\ r.mode = "xsync" => a.cont = r.executed
    /\ a.type = "continue" /\ r.mode = "psync" /\ a.replid # r.replid =>
         \A h \in H : h[1] = r.replid /\ h[2] <= r.offset => <<a.replid, h[2], h[3]>> \in H

LinkData(H, X, N, c, r, m) ==
    c.link # "down" =>
        /\ c.link = "wait" => AnswerOK(H, N, r, Head(c.chan))
        /\ StartOK(H, X, Start(c, r))
        /\ PendingOK(H, X, Start(c, r), Rest(c))
        /\ c.attached => Ends(Start(c, r), Rest(c), m)

Data(H, X) ==
    /\ FactsOK(H, X, ids, given)
    /\ SoloOK(H)
    /\ \A s \in Servers : ServerData(H, X, ids, srv[s])
    /\ \A s \in Servers :
          LinkData(H, X, ids, conn[s], srv[s], srv[IF master[s] = None THEN s ELSE master[s]])

----------------------------------------------------------------------------
(* What a server's part of the invariant depends on.                       *)

\* A server r and a server q that tell the same of their past.
SameView(r, q) ==
    /\ q.mode = r.mode /\ q.from = r.from /\ q.prev = r.prev /\ q.replid = r.replid
    /\ q.replid2 = r.replid2 /\ q.off2 = r.off2 /\ q.offset = r.offset /\ q.stale = r.stale
    /\ q.backlog = r.backlog /\ q.boff = r.boff /\ q.items = r.items /\ q.idx = r.idx
    /\ q.executed = r.executed /\ q.data = r.data

\* The rest of a server says nothing of its past.
LEMMA SameViewData ==
  ASSUME NEW H, NEW X, NEW N, NEW r, NEW q, SameView(r, q), ServerData(H, X, N, r)
  PROVE  /\ ServerData(H, X, N, q) /\ Standing(q) = Standing(r)
         /\ HasPsync(q) = HasPsync(r) /\ PsyncIds(q).replid = PsyncIds(r).replid
         /\ PsyncIds(q).replid2 = PsyncIds(r).replid2 /\ PsyncIds(q).off2 = PsyncIds(r).off2
<1>1. /\ HasPsync(q) = HasPsync(r) /\ PsyncIds(q).replid = PsyncIds(r).replid
      /\ PsyncIds(q).replid2 = PsyncIds(r).replid2 /\ PsyncIds(q).off2 = PsyncIds(r).off2
  BY DEF SameView, HasPsync, PsyncIds
<1>2. Window(q) = Window(r)
  BY DEF SameView, Window
<1>3. \A o : /\ ItemAt(q, o) = ItemAt(r, o) /\ DataAt(q, o) = DataAt(r, o)
             /\ GtidsAt(q, o) = GtidsAt(r, o) /\ InXsync(q, o) = InXsync(r, o)
             /\ InPsync(q, o) = InPsync(r, o)
  BY DEF SameView, ItemAt, DataAt, GtidsAt, InXsync, InPsync
<1>4. \A o : ItemOK(q, o) = ItemOK(r, o)
  BY <1>3 DEF ItemOK
<1>5. ItemsOK(q)
  BY <1>2, <1>4 DEF ServerData, ItemsOK, SameView
<1>6. GtidFacts(X, q)
  BY <1>2, <1>3 DEF ServerData, GtidFacts
<1>7. IdFacts(H, q)
  BY <1>1, <1>2, <1>3 DEF ServerData, IdFacts, SameView
<1>8. ShapeOK(q) /\ IdsOK(N, q)
  BY DEF ServerData, ShapeOK, IdsOK, SameView
<1>9. q.mode = "psync" /\ ~q.backlog => \A h \in H : h[1] # q.replid
  BY DEF ServerData, SameView
<1>10. HasPsync(q) => Joined(H, PsyncIds(q))
  BY <1>1 DEF ServerData, Joined
<1>11. Standing(q) = Standing(r)
  BY DEF Standing, SameView
<1> QED BY <1>1, <1>5, <1>6, <1>7, <1>8, <1>9, <1>10, <1>11 DEF ServerData

\* New facts F that leave alone what a server p's ids name; solo if it may
\* extend its own.
Late(F, p, solo) ==
    \A f \in F :
        /\ p.mode = "psync" /\ f[1] = p.replid => ~solo /\ p.offset < f[2]
        /\ HasPsync(p) /\ f[1] = PsyncIds(p).replid2 /\ PsyncIds(p).replid2 # NoId
              => PsyncIds(p).off2 <= f[2]

\* More facts, and more ids.
LEMMA ServerGrows ==
  ASSUME NEW H, NEW X, NEW N \in Nat, NEW r, ServerData(H, X, N, r), NEW F, NEW Y,
         NEW M \in Nat, N <= M, NEW solo \in BOOLEAN, Late(F, r, solo),
         r.mode = "psync" /\ ~r.backlog => solo,
         HasPsync(r) => PsyncIds(r).off2 \in Int, \A f \in F : f[2] \in Int
  PROVE  ServerData(H \cup F, X \cup Y, M, r)
<1>1. GtidFacts(X \cup Y, r)
  BY DEF ServerData, GtidFacts, Known
<1>2. IdFacts(H \cup F, r)
  BY DEF ServerData, IdFacts
<1>3. IdsOK(M, r)
  <2>1. 1..N \subseteq 1..M /\ 0..N \subseteq 0..M
    OBVIOUS
  <2> QED BY <2>1 DEF ServerData, IdsOK
<1>4. r.mode = "psync" /\ ~r.backlog => \A h \in H \cup F : h[1] # r.replid
  BY DEF ServerData, Late
<1>5. ASSUME HasPsync(r) PROVE Joined(H \cup F, PsyncIds(r))
  <2> DEFINE p == PsyncIds(r)
  <2>1. SUFFICES ASSUME p.replid2 # NoId, NEW h \in H \cup F, h[1] = p.replid2, h[2] < p.off2
                 PROVE  <<p.replid, h[2], h[3]>> \in H \cup F
    BY DEF Joined
  <2>2. Joined(H, p)
    BY <1>5 DEF ServerData
  <2>3. h \in F => p.off2 <= h[2] /\ h[2] \in Int /\ p.off2 \in Int
    BY <1>5, <2>1 DEF Late
  <2>4. h \in H
    <3> HIDE DEF p
    <3> QED BY <2>1, <2>3
  <2> QED BY <2>1, <2>2, <2>4 DEF Joined
<1> QED BY <1>1, <1>2, <1>3, <1>4, <1>5 DEF ServerData

----------------------------------------------------------------------------
(* The stream of a server.                                                 *)

\* The fields a server's past is told by.
LEMMA FieldTypes ==
  ASSUME NEW G, NEW r \in ServerState(G), StreamOK(r)
  PROVE  /\ r.offset \in Int /\ r.from \in Int /\ r.boff \in Int /\ r.off2 \in Int
         /\ r.replid \in Nat /\ r.replid2 \in Nat /\ r.backlog \in BOOLEAN
         /\ r.mode \in {"psync", "xsync"} /\ r.from <= r.offset + 1
         /\ r.items \in Seq(ItemsOf(G)) /\ Len(r.items) \in Nat
         /\ r.executed \subseteq G /\ r.data \in Seq(Nat)
         /\ r.idx \subseteq Entries /\ \A e \in r.idx : e.offset \in Int /\ e.offset <= r.offset
         /\ r.backlog => r.boff + Len(r.items) = r.offset + 1
         /\ r.prev # Unset => r.prev.mode \in {"psync", "xsync"} /\ r.prev.from \in Int
                              /\ r.prev.replid \in Nat /\ r.prev.replid2 \in Nat
                              /\ r.prev.off2 \in Int
         /\ r.prev = Unset => r.prev.mode = "unset"
         /\ HasPsync(r) => PsyncIds(r).off2 \in Int /\ PsyncIds(r).replid \in Nat
<1>1. r.items \in Seq(ItemsOf(G)) /\ Len(r.items) \in Nat
  BY ServerTypes
<1>2. r.idx \subseteq Entries /\ \A e \in r.idx : e.offset \in Int /\ e.offset <= r.offset
  BY ServerTypes DEF StreamOK, BacklogOK, Entries
<1>3. r.prev # Unset => /\ r.prev.mode \in {"psync", "xsync"} /\ r.prev.from \in Int
                        /\ r.prev.replid \in Nat /\ r.prev.replid2 \in Nat /\ r.prev.off2 \in Int
  BY ServerTypes, PrevIs DEF Modes
<1>4. r.prev = Unset => r.prev.mode = "unset"
  BY DEF Unset
<1>5. /\ r.offset \in Int /\ r.from \in Int /\ r.boff \in Int /\ r.off2 \in Int
      /\ r.replid \in Nat /\ r.replid2 \in Nat /\ r.backlog \in BOOLEAN
      /\ r.mode \in {"psync", "xsync"} /\ r.executed \subseteq G /\ r.data \in Seq(Nat)
  BY ServerTypes DEF Modes
<1>6. HasPsync(r) => PsyncIds(r).off2 \in Int /\ PsyncIds(r).replid \in Nat
  BY <1>3, <1>4, <1>5 DEF HasPsync, PsyncIds
<1> QED BY <1>1, <1>2, <1>3, <1>4, <1>5, <1>6 DEF StreamOK, BacklogOK

\* The item from an offset on.
LEMMA ItemAtIs ==
  ASSUME NEW G, NEW r \in ServerState(G), StreamOK(r), ShapeOK(r), NEW o \in Window(r),
         o # r.offset
  PROVE  /\ r.backlog /\ o \in Int /\ o < r.offset /\ o + 1 \in Window(r)
         /\ o - r.boff + 2 \in 1..Len(r.items)
         /\ ItemAt(r, o) = r.items[o - r.boff + 2] /\ ItemAt(r, o) \in ItemsOf(G)
<1>1. /\ r.offset \in Int /\ r.boff \in Int /\ r.items \in Seq(ItemsOf(G)) /\ Len(r.items) \in Nat
      /\ r.backlog => r.boff + Len(r.items) = r.offset + 1
  BY FieldTypes
<1>2. r.backlog
  BY <1>1 DEF Window
<1>3. o \in Int /\ o < r.offset /\ r.boff - 1 <= o
  BY <1>1, <1>2 DEF Window
<1>4. o - r.boff + 2 \in 1..Len(r.items)
  BY <1>1, <1>2, <1>3
<1>5. o + 1 \in Window(r)
  BY <1>1, <1>2, <1>3 DEF Window
<1> QED BY <1>1, <1>2, <1>3, <1>4, <1>5 DEF ItemAt

\* The end of the stream, and the last gtids.
LEMMA OffsetIs ==
  ASSUME NEW G, NEW r \in ServerState(G), StreamOK(r)
  PROVE  /\ r.offset \in Window(r) /\ DataAt(r, r.offset) = r.data
         /\ GtidsAt(r, r.offset) = r.executed
         /\ InXsync(r, r.offset) <=> r.mode = "xsync" \/ (r.prev.mode = "xsync" /\ r.from = r.offset + 1)
         /\ InPsync(r, r.offset) <=> r.mode = "psync" \/ (r.prev.mode = "psync" /\ r.from = r.offset + 1
                                                        /\ r.prev.from - 1 <= r.offset)
<1>1. /\ r.offset \in Int /\ r.boff \in Int /\ Len(r.items) \in Nat /\ r.from \in Int
      /\ r.from <= r.offset + 1 /\ r.mode \in {"psync", "xsync"} /\ r.backlog \in BOOLEAN
      /\ r.backlog => r.boff + Len(r.items) = r.offset + 1
      /\ \A e \in r.idx : e.offset \in Int /\ e.offset <= r.offset
  BY FieldTypes
<1>2. r.offset \in Window(r)
  BY <1>1 DEF Window
<1>3. {e \in r.idx : e.offset > r.offset} = {}
  BY <1>1
<1>4. GtidsAt(r, r.offset) = r.executed
  BY <1>3 DEF GtidsAt, Gtids
<1>5. InXsync(r, r.offset) <=> r.mode = "xsync" \/ (r.prev.mode = "xsync" /\ r.from = r.offset + 1)
  <2>1. CASE r.mode = "xsync"
    BY <1>1, <2>1 DEF InXsync
  <2>2. CASE r.mode # "xsync"
    <3>1. r.offset = r.from - 1 <=> r.from = r.offset + 1
      BY <1>1
    <3>2. r.offset < r.from => r.offset = r.from - 1
      BY <1>1
    <3> QED BY <2>2, <3>1, <3>2 DEF InXsync
  <2> QED BY <2>1, <2>2
<1>6. InPsync(r, r.offset) <=> \/ r.mode = "psync"
                               \/ r.prev.mode = "psync" /\ r.from = r.offset + 1
                                  /\ r.prev.from - 1 <= r.offset
  <2>1. CASE r.mode = "psync"
    BY <1>1, <2>1 DEF InPsync
  <2>2. CASE r.mode # "psync"
    <3>1. r.offset < r.from <=> r.from = r.offset + 1
      BY <1>1
    <3> QED BY <2>2, <3>1 DEF InPsync
  <2> QED BY <2>1, <2>2
<1> QED BY <1>2, <1>4, <1>5, <1>6 DEF DataAt

\* Within the stream, psync and xsync meet at one offset only.
LEMMA SegmentsMeet ==
  ASSUME NEW G, NEW r \in ServerState(G), StreamOK(r), ShapeOK(r), NEW o \in Int
  PROVE  /\ InXsync(r, o + 1) /\ r.mode = "psync" => o + 1 < r.from
         /\ InPsync(r, o + 1) /\ r.mode = "xsync" => o + 1 < r.from
<1>1. r.from \in Int /\ r.mode \in {"psync", "xsync"}
  BY FieldTypes
<1> QED BY <1>1 DEF InXsync, InPsync

----------------------------------------------------------------------------
(* A command on the stream.                                                *)

\* A server q that is r but for its data and its gtids.
SameOffsets(r, q) ==
    /\ q.mode = r.mode /\ q.from = r.from /\ q.prev = r.prev /\ q.replid = r.replid
    /\ q.replid2 = r.replid2 /\ q.off2 = r.off2 /\ q.offset = r.offset
    /\ q.stale = r.stale /\ q.backlog = r.backlog /\ q.boff = r.boff
    /\ q.items = r.items /\ q.idx = r.idx /\ q.delta = r.delta

\* Running a write changes only the data and the gtids.
LEMMA RanFields ==
  ASSUME NEW G, NEW r \in ServerState(G), NEW d \in Seq(Nat), NEW S \in SUBSET G,
         NEW q, q = Ran(r, d, S)
  PROVE  /\ q \in ServerState(G) /\ q.data = d /\ q.executed = S /\ SameOffsets(r, q)
         /\ StreamOK(r) => StreamOK(q)
<1>1. q = [r EXCEPT !.data = d, !.executed = S]
  BY DEF Ran
<1>2. q \in ServerState(G) /\ q.data = d /\ q.executed = S
  BY <1>1 DEF ServerState
<1>3. SameOffsets(r, q)
  BY <1>1 DEF ServerState, SameOffsets
<1>4. StreamOK(r) => StreamOK(q)
  BY <1>3 DEF StreamOK, BacklogOK, SameOffsets
<1> QED BY <1>2, <1>3, <1>4

\* The arithmetic of a backlog of m items that begins at b, k = 1 if it is full.
LEMMA FeedOffsets ==
  ASSUME NEW b \in Int, NEW l \in Nat, NEW n \in Int, b + l = n + 1, NEW k \in {0, 1},
         NEW m \in Nat, m = l - k, NEW c \in Int, c = b + k
  PROVE  /\ c + m = n + 1 /\ (c - 1)..(n + 1) \subseteq ((b - 1)..n) \cup {n + 1}
         /\ n \in (c - 1)..(n + 1) /\ n - c + 2 = m + 1
         /\ \A o \in (c - 1)..(n + 1) :
              /\ o < n => o - c + 2 \in 1..m /\ (o - c + 2) + k = o - b + 2
              /\ \A x \in Int : o < x => c <= x
              /\ o <= n => o < n + 1
              /\ o \in Int /\ c <= n + 1
OBVIOUS

\* What a command adds to the backlog, and what it takes from it.
LEMMA FeedAdds ==
  ASSUME NEW G, G \subseteq Gtid, NEW r \in ServerState(G), StreamOK(r), r.backlog,
         NEW item \in ItemsOf(G), NEW q, q = Feed(r, item)
  PROVE  /\ q.replid2 = r.replid2 /\ q.off2 = r.off2 /\ q.data = r.data
         /\ Window(q) \subseteq Window(r) \cup {r.offset + 1}
         /\ r.offset \in Window(q)
         /\ \A o \in Window(q) : o < r.offset => ItemAt(q, o) = ItemAt(r, o)
         /\ ItemAt(q, r.offset) = item
         /\ item.gtid = NoGtid => q.idx = r.idx
         /\ item.gtid # NoGtid => \A o \in Window(q) : o <= r.offset =>
              Gtids({e \in q.idx : e.offset > o}) =
              Gtids({e \in r.idx : e.offset > o}) \cup {item.gtid}
<1> DEFINE full == Len(r.items) = BacklogSize
           boff == IF full THEN r.boff + 1 ELSE r.boff
           e == [uuid |-> item.gtid[1], gno |-> item.gtid[2], offset |-> r.offset + 1]
           old == IF full THEN Tail(r.items) ELSE r.items
           items == Append(old, item)
           idx == IF item.gtid = NoGtid THEN r.idx ELSE TrimIndex(r.idx \cup {e}, boff)
           n == r.offset + 1
           k == IF full THEN 1 ELSE 0
<1>1. /\ r.offset \in Int /\ r.boff \in Int /\ r.items \in Seq(ItemsOf(G)) /\ Len(r.items) \in Nat
      /\ r.boff + Len(r.items) = r.offset + 1
      /\ \A f \in r.idx : f.offset \in Int /\ f.offset <= r.offset
  BY FieldTypes
<1>2. q = [r EXCEPT !.offset = n, !.boff = boff, !.items = items, !.idx = idx]
  BY DEF Feed
<1>3. full => Len(r.items) >= 1
  BY ConstantsAssumption
<1>4. /\ old \in Seq(ItemsOf(G)) /\ Len(old) = Len(r.items) - k /\ k \in Int
      /\ \A i \in 1..Len(old) : old[i] = r.items[i + k]
  <2>1. CASE full
    <3>1. old = Tail(r.items) /\ r.items # << >>
      BY <1>1, <1>3, <2>1
    <3> HIDE DEF old, full
    <3> QED BY <1>1, <2>1, <3>1, HeadTailProperties
  <2>2. CASE ~full
    <3>1. old = r.items
      BY <2>2
    <3> HIDE DEF old, full
    <3> QED BY <1>1, <2>2, <3>1
  <2> QED BY <2>1, <2>2
<1>5. boff \in Int /\ boff = r.boff + k /\ k \in {0, 1}
  BY <1>1
<1>6. /\ Len(items) = Len(old) + 1 /\ items[Len(old) + 1] = item
      /\ \A i \in 1..Len(old) : items[i] = old[i]
  <2> HIDE DEF old, k
  <2> QED BY <1>4
<1>7. n = r.offset + 1 /\ n \in Int
  BY <1>1
<1>8. item.gtid # NoGtid => GtidOf(e) = item.gtid /\ e.offset = n
  <2>1. item.gtid \in G \cup {NoGtid}
    BY DEF ItemsOf
  <2> QED BY <2>1 DEF GtidOf, Gtid
<1>9. idx = IF item.gtid = NoGtid THEN r.idx ELSE {f \in r.idx \cup {e} : f.offset >= boff}
  BY DEF TrimIndex
<1> HIDE DEF full, boff, old, items, idx, n, e, k
<1>10. /\ q.offset = n /\ q.boff = boff /\ q.items = items /\ q.idx = idx /\ q.backlog
       /\ q.replid2 = r.replid2 /\ q.off2 = r.off2 /\ q.data = r.data
  BY <1>2, ZenonT(60) DEF ServerState
<1>11. Window(q) = (boff - 1)..n /\ Window(r) = (r.boff - 1)..r.offset
  BY <1>10 DEF Window
<1>12. /\ Window(q) \subseteq Window(r) \cup {r.offset + 1}
       /\ r.offset \in Window(q) /\ r.offset - boff + 2 = Len(old) + 1
       /\ \A o \in Window(q) :
            /\ o < r.offset => o - boff + 2 \in 1..Len(old)
                               /\ (o - boff + 2) + k = o - r.boff + 2
            /\ \A x \in Int : o < x => boff <= x
            /\ o <= r.offset => o < r.offset + 1
            /\ boff <= r.offset + 1
  <2>1. Len(old) \in Nat
    BY <1>4
  <2>2. Len(old) = Len(r.items) - k
    BY <1>4
  <2> DEFINE W == (boff - 1)..(r.offset + 1)
  <2>3. /\ W \subseteq ((r.boff - 1)..r.offset) \cup {r.offset + 1}
        /\ r.offset \in W /\ r.offset - boff + 2 = Len(old) + 1
        /\ \A o \in W :
             /\ o < r.offset => o - boff + 2 \in 1..Len(old)
                                /\ (o - boff + 2) + k = o - r.boff + 2
             /\ \A x \in Int : o < x => boff <= x
             /\ o <= r.offset => o < r.offset + 1
             /\ boff <= r.offset + 1
    <3> DEFINE l == Len(r.items)
               m == Len(old)
               b == r.boff
               p == r.offset
    <3>1. b \in Int /\ l \in Nat /\ p \in Int /\ b + l = p + 1 /\ k \in {0, 1}
          /\ m \in Nat /\ m = l - k /\ boff \in Int /\ boff = b + k
      BY <1>1, <1>5, <2>1, <2>2
    <3> HIDE DEF l, m, b, p
    <3>2. /\ (boff - 1)..(p + 1) \subseteq ((b - 1)..p) \cup {p + 1}
          /\ p \in (boff - 1)..(p + 1) /\ p - boff + 2 = m + 1
          /\ \A o \in (boff - 1)..(p + 1) :
               /\ o < p => o - boff + 2 \in 1..m /\ (o - boff + 2) + k = o - b + 2
               /\ \A x \in Int : o < x => boff <= x
               /\ o <= p => o < p + 1
               /\ boff <= p + 1
      BY <3>1, FeedOffsets
    <3> QED BY <3>2 DEF l, m, b, p
  <2> QED BY <1>7, <1>11, <2>3
<1>14. ASSUME NEW o \in Window(q), o < r.offset PROVE ItemAt(q, o) = ItemAt(r, o)
  <2>3. items[o - boff + 2] = r.items[(o - boff + 2) + k]
    BY <1>4, <1>6, <1>12, <1>14
  <2>4. (o - boff + 2) + k = o - r.boff + 2
    BY <1>12, <1>14
  <2> QED BY <1>10, <2>3, <2>4 DEF ItemAt
<1>15. ItemAt(q, r.offset) = item
  BY <1>6, <1>10, <1>12 DEF ItemAt
<1>16. ASSUME item.gtid # NoGtid, NEW o \in Window(q), o <= r.offset
       PROVE  Gtids({f \in q.idx : f.offset > o}) =
              Gtids({f \in r.idx : f.offset > o}) \cup {item.gtid}
  <2>1. o \in Int /\ boff \in Int
    BY <1>5, <1>7, <1>11
  <2>2. ASSUME NEW f \in r.idx, f.offset > o PROVE f.offset >= boff
    <3>1. f.offset \in Int /\ o < f.offset
      BY <1>1, <2>1, <2>2
    <3>2. boff <= f.offset
      BY <1>12, <3>1
    <3> QED BY <2>1, <3>1, <3>2
  <2>3. e.offset >= boff /\ e.offset > o
    BY <1>1, <1>7, <1>8, <1>12, <1>16, <2>1
  <2>4. {f \in q.idx : f.offset > o} = {f \in r.idx : f.offset > o} \cup {e}
    BY <1>9, <1>10, <1>16, <2>2, <2>3
  <2>5. \A A : Gtids(A \cup {e}) = Gtids(A) \cup {GtidOf(e)}
    BY DEF Gtids
  <2> QED BY <1>8, <1>16, <2>4, <2>5
<1>17. item.gtid = NoGtid => q.idx = r.idx
  BY <1>9, <1>10
<1> QED BY <1>10, <1>12, <1>14, <1>15, <1>16, <1>17

\* A command written, or read, by a server that has what its writer had.
LEMMA FedData ==
  ASSUME NEW H, NEW X, NEW N, NEW G, G \subseteq Gtid, NEW r \in ServerState(G), StreamOK(r),
         r.backlog, ServerData(H, X, N, r), NEW item \in ItemsOf(G), item.data = r.data,
         NEW S \in SUBSET G,
         r.mode = "xsync" =>
            /\ item.executed = r.executed /\ XItem(item) /\ S = GtidsAfter(item)
            /\ Known(X, S, DataAfter(item)),
         r.mode = "psync" =>
            /\ S = r.executed /\ item.gtid = NoGtid
            /\ <<r.replid, r.offset + 1, DataAfter(item)>> \in H
  PROVE  LET q == Feed(Ran(r, DataAfter(item), S), item)
         IN  ServerData(H, X, N, q) /\ q.data = DataAfter(item) /\ q.executed = S
             /\ q.off2 = r.off2 /\ q.replid2 = r.replid2
<1> DEFINE d == DataAfter(item)
           u == Ran(r, d, S)
           q == Feed(u, item)
           n == r.offset + 1
<1>1. /\ r.offset \in Int /\ r.from \in Int /\ r.mode \in {"psync", "xsync"}
      /\ r.from <= r.offset + 1
      /\ \A e \in r.idx : e.offset \in Int /\ e.offset <= r.offset
  BY FieldTypes
<1>2. d \in Seq(Nat)
  <2>1. item.data \in Seq(Nat) /\ item.write \in Nat
    BY DEF ItemsOf
  <2> QED BY <2>1 DEF DataAfter
<1> HIDE DEF d
<1>3. /\ u \in ServerState(G) /\ u.data = d /\ u.executed = S
      /\ u.mode = r.mode /\ u.from = r.from /\ u.prev = r.prev /\ u.replid = r.replid
      /\ u.replid2 = r.replid2 /\ u.off2 = r.off2 /\ u.offset = r.offset
      /\ u.stale = r.stale /\ u.backlog = r.backlog /\ u.boff = r.boff
      /\ u.items = r.items /\ u.idx = r.idx /\ StreamOK(u)
  <2>1. u = Ran(r, d, S)
    OBVIOUS
  <2> HIDE DEF u
  <2>2. /\ u \in ServerState(G) /\ u.data = d /\ u.executed = S /\ SameOffsets(r, u)
        /\ StreamOK(u)
    BY <1>2, <2>1, RanFields
  <2> QED BY <2>2 DEF SameOffsets
<1> HIDE DEF u
<1>4. /\ Window(u) = Window(r) /\ \A o : ItemAt(u, o) = ItemAt(r, o)
  BY <1>3 DEF Window, ItemAt
<1>5. /\ q \in ServerState(G) /\ StreamOK(q)
      /\ q.mode = r.mode /\ q.from = r.from /\ q.prev = r.prev /\ q.replid = r.replid
      /\ q.stale = r.stale /\ q.executed = S /\ q.backlog /\ q.offset = n
  <2>1. u.backlog
    BY <1>3
  <2> QED BY <1>3, <2>1, FeedIs, SMTT(40)
<1>6. /\ q.replid2 = r.replid2 /\ q.off2 = r.off2 /\ q.data = d
      /\ Window(q) \subseteq Window(r) \cup {n}
      /\ r.offset \in Window(q)
      /\ \A o \in Window(q) : o < r.offset => ItemAt(q, o) = ItemAt(r, o)
      /\ ItemAt(q, r.offset) = item
      /\ item.gtid = NoGtid => q.idx = r.idx
      /\ item.gtid # NoGtid => \A o \in Window(q) : o <= r.offset =>
           Gtids({e \in q.idx : e.offset > o}) =
           Gtids({e \in r.idx : e.offset > o}) \cup {item.gtid}
  <2>1. /\ q.replid2 = u.replid2 /\ q.off2 = u.off2 /\ q.data = u.data
        /\ Window(q) \subseteq Window(u) \cup {u.offset + 1}
        /\ u.offset \in Window(q)
        /\ \A o \in Window(q) : o < u.offset => ItemAt(q, o) = ItemAt(u, o)
        /\ ItemAt(q, u.offset) = item
        /\ item.gtid = NoGtid => q.idx = u.idx
        /\ item.gtid # NoGtid => \A o \in Window(q) : o <= u.offset =>
             Gtids({e \in q.idx : e.offset > o}) =
             Gtids({e \in u.idx : e.offset > o}) \cup {item.gtid}
    <3>1. u.backlog /\ q = Feed(u, item)
      BY <1>3
    <3> HIDE DEF q
    <3> QED BY <1>3, <3>1, FeedAdds
  <2> HIDE DEF q
  <2> QED BY <1>3, <1>4, <2>1
<1> HIDE DEF q, n
<1>7. n = r.offset + 1 /\ n \in Int
  BY <1>1 DEF n
<1>8. \A o \in Window(q) : o \in Int /\ (o = n \/ o = r.offset \/ (o < r.offset /\ o \in Window(r)
                                                                  /\ o + 1 \in Window(q)))
  <2>1. \A o \in Window(q) : o \in Int /\ (o = n \/ o \in Window(r)) /\ o <= n
    BY <1>1, <1>5, <1>6, <1>7, FieldTypes DEF Window
  <2>2. \A o \in Window(q) : o # n => o + 1 \in Window(q)
    <3> SUFFICES ASSUME NEW o \in Window(q), o # q.offset PROVE o + 1 \in Window(q)
      BY <1>5
    <3>1. o \in Int /\ q.offset \in Int /\ o <= q.offset
      BY <1>5, <1>7, <2>1
    <3>2. o + 1 <= q.offset
      BY <3>1
    <3>3. q.boff \in Int
      BY <1>5, FieldTypes
    <3> QED BY <1>5, <3>1, <3>2, <3>3 DEF Window
  <2> QED BY <1>1, <1>7, <2>1, <2>2
<1>9. \A o : InXsync(q, o) = InXsync(r, o) /\ InPsync(q, o) = InPsync(r, o)
  BY <1>5 DEF InXsync, InPsync
<1>10. \A o \in Window(q) : o <= r.offset => DataAt(q, o) = DataAt(r, o)
  <2>1. ASSUME NEW o \in Window(q), o < r.offset PROVE DataAt(q, o) = DataAt(r, o)
    BY <1>1, <1>5, <1>6, <1>7, <1>8, <2>1 DEF DataAt
  <2>2. DataAt(q, r.offset) = DataAt(r, r.offset)
    BY <1>1, <1>5, <1>6, <1>7 DEF DataAt
  <2> QED BY <1>1, <1>8, <2>1, <2>2
<1>11. DataAt(q, n) = d /\ GtidsAt(q, n) = S
  BY <1>5, <1>6, OffsetIs
<1>12. \A o \in Window(q) : o <= r.offset => GtidsAt(q, o) = GtidsAt(r, o)
  <2>1. CASE item.gtid = NoGtid
    <3>1. S = r.executed
      BY <1>1, <2>1 DEF GtidsAfter
    <3> QED BY <1>5, <1>6, <2>1, <3>1 DEF GtidsAt
  <2>2. CASE item.gtid # NoGtid
    <3>1. S = r.executed \cup {item.gtid} /\ item.gtid \notin r.executed
      BY <1>1, <2>2 DEF GtidsAfter, XItem
    <3> QED BY <1>5, <1>6, <2>2, <3>1 DEF GtidsAt
  <2> QED BY <2>1, <2>2
<1>13. ItemOK(q, r.offset)
  <2>1. r.offset + 1 = n /\ r.offset <= r.offset
    BY <1>1, <1>7
  <2>2. DataAfter(item) = DataAt(q, n)
    BY <1>11 DEF d
  <2>3. r.mode = "psync" => ~InXsync(r, n)
    <3>1. InXsync(r, n) /\ r.mode = "psync" => n < r.from
      BY <1>1, <1>7, SegmentsMeet DEF ServerData
    <3> QED BY <1>1, <1>7, <3>1
  <2>4. r.mode = "xsync" => ~InPsync(r, n)
    <3>1. InPsync(r, n) /\ r.mode = "xsync" => n < r.from
      BY <1>1, <1>7, SegmentsMeet DEF ServerData
    <3> QED BY <1>1, <1>7, <3>1
  <2>5. GtidsAt(q, r.offset) = r.executed
    BY <1>6, <1>12, <2>1, OffsetIs
  <2>6. r.mode = "xsync" => /\ XItem(item) /\ item.executed = GtidsAt(q, r.offset)
                            /\ GtidsAfter(item) = GtidsAt(q, n)
    BY <1>11, <2>5
  <2> QED BY <1>1, <1>6, <1>9, <2>1, <2>2, <2>3, <2>4, <2>6 DEF ItemOK
<1>14. ItemsOK(q)
  <2> SUFFICES ASSUME NEW o \in Window(q), o # q.offset PROVE ItemOK(q, o)
    BY DEF ItemsOK
  <2>1. CASE o = r.offset
    BY <1>13, <2>1
  <2>2. CASE o # r.offset
    <3>1. o \in Int /\ o < r.offset /\ o \in Window(r) /\ o + 1 \in Window(q) /\ o + 1 <= r.offset
          /\ o <= r.offset
      BY <1>1, <1>5, <1>8, <2>2
    <3>2. ItemOK(r, o)
      BY <1>1, <3>1 DEF ServerData, ItemsOK
    <3>3. /\ ItemAt(q, o) = ItemAt(r, o) /\ DataAt(q, o + 1) = DataAt(r, o + 1)
          /\ GtidsAt(q, o) = GtidsAt(r, o) /\ GtidsAt(q, o + 1) = GtidsAt(r, o + 1)
      BY <1>6, <1>10, <1>12, <3>1
    <3> QED BY <1>9, <3>2, <3>3 DEF ItemOK
  <2> QED BY <2>1, <2>2
<1>15. GtidFacts(X, q)
  <2> SUFFICES ASSUME NEW o \in Window(q), InXsync(q, o)
               PROVE  Known(X, GtidsAt(q, o), DataAt(q, o))
    BY DEF GtidFacts
  <2>1. CASE o = n
    <3>1. InXsync(r, n) /\ r.mode = "psync" => n < r.from
      BY <1>1, <1>7, SegmentsMeet DEF ServerData
    <3>2. r.mode = "xsync"
      BY <1>1, <1>7, <1>9, <2>1, <3>1
    <3> QED BY <1>11, <2>1, <3>2 DEF d
  <2>2. CASE o # n
    <3>1. o <= r.offset /\ o \in Window(r)
      BY <1>1, <1>8, <2>2, OffsetIs
    <3>2. Known(X, GtidsAt(r, o), DataAt(r, o))
      BY <1>9, <3>1 DEF ServerData, GtidFacts
    <3> QED BY <1>10, <1>12, <3>1, <3>2
  <2> QED BY <2>1, <2>2
<1>16. /\ PsyncIds(q).replid = PsyncIds(r).replid /\ PsyncIds(q).replid2 = PsyncIds(r).replid2
       /\ PsyncIds(q).off2 = PsyncIds(r).off2 /\ HasPsync(q) = HasPsync(r)
  BY <1>5, <1>6 DEF PsyncIds, HasPsync
<1>17. IdFacts(H, q)
  <2> SUFFICES ASSUME NEW o \in Window(q), InPsync(q, o)
               PROVE  <<PsyncIds(r).replid, o, DataAt(q, o)>> \in H
    BY <1>16 DEF IdFacts
  <2>1. CASE o = n
    <3>1. InPsync(r, n) /\ r.mode = "xsync" => n < r.from
      BY <1>1, <1>7, SegmentsMeet DEF ServerData
    <3>2. r.mode = "psync"
      BY <1>1, <1>7, <1>9, <2>1, <3>1
    <3> QED BY <1>7, <1>11, <2>1, <3>2 DEF d, PsyncIds
  <2>2. CASE o # n
    <3>1. o <= r.offset /\ o \in Window(r)
      BY <1>1, <1>8, <2>2, OffsetIs
    <3>2. <<PsyncIds(r).replid, o, DataAt(r, o)>> \in H
      BY <1>9, <3>1 DEF ServerData, IdFacts
    <3> QED BY <1>10, <3>1, <3>2
  <2> QED BY <2>1, <2>2
<1>18. ShapeOK(q) /\ IdsOK(N, q)
  <2>1. r.mode = "psync" => q.idx = r.idx
    BY <1>6
  <2> QED BY <1>5, <1>6, <2>1 DEF ServerData, ShapeOK, IdsOK
<1>19. HasPsync(q) => Joined(H, PsyncIds(q))
  BY <1>16 DEF ServerData, Joined
<1> QED BY <1>5, <1>6, <1>14, <1>15, <1>17, <1>18, <1>19 DEF ServerData, q, u, d

----------------------------------------------------------------------------
(* A change of mode, or of history.                                        *)

\* A server that retains nothing but where it is.
LEMMA PointData ==
  ASSUME NEW H, NEW X, NEW N, NEW G, NEW q \in ServerState(G), StreamOK(q),
         Window(q) = {q.offset}, ShapeOK(q), IdsOK(N, q),
         InXsync(q, q.offset) => Known(X, q.executed, q.data),
         InPsync(q, q.offset) /\ (q.backlog \/ q.mode = "xsync")
            => <<PsyncIds(q).replid, q.offset, q.data>> \in H,
         q.mode = "psync" /\ ~q.backlog => \A h \in H : h[1] # q.replid,
         HasPsync(q) => Joined(H, PsyncIds(q))
  PROVE  ServerData(H, X, N, q)
<1>1. DataAt(q, q.offset) = q.data /\ GtidsAt(q, q.offset) = q.executed
  BY OffsetIs
<1>2. ItemsOK(q)
  BY DEF ItemsOK
<1>3. GtidFacts(X, q)
  BY <1>1 DEF GtidFacts
<1>4. IdFacts(H, q)
  BY <1>1 DEF IdFacts
<1> QED BY <1>2, <1>3, <1>4 DEF ServerData

\* What a server without items retains.
LEMMA PointIs ==
  ASSUME NEW G, NEW q \in ServerState(G), q.backlog => q.boff = q.offset + 1
  PROVE  Window(q) = {q.offset}
<1>1. q.offset \in Int
  BY ServerTypes
<1>2. q.backlog => q.boff - 1 = q.offset
  BY <1>1
<1>3. Window(q) = q.offset..q.offset
  BY <1>2 DEF Window
<1> QED BY <1>1, <1>3

\* A server q that is r in the mode it turns to.
Turned(r, q, mode) ==
    /\ q.mode = mode /\ q.from = r.offset + 1 /\ q.prev # Unset /\ q.prev.mode = r.mode
    /\ q.prev.from = r.from /\ q.prev.replid = r.replid /\ q.prev.replid2 = r.replid2
    /\ q.prev.off2 = r.off2 /\ q.replid2 = NoId /\ q.offset = r.offset /\ q.stale = FALSE
    /\ q.backlog = r.backlog /\ q.boff = r.boff /\ q.items = r.items /\ q.data = r.data

\* Turning to psync.
LEMMA TurnedPsync ==
  ASSUME NEW G, NEW r \in ServerState(G), NEW id, NEW reploff, NEW q,
         q = serverReplStreamSwitch2Psync(r, id, reploff),
         NEW u, u = (IF r.offset = reploff THEN r ELSE RestartAt(r, reploff))
  PROVE  Turned(u, q, "psync") /\ q.replid = id /\ q.idx = u.idx /\ q.executed = u.executed
<1> DEFINE a == [u EXCEPT !.delta = 0, !.stale = FALSE]
           p == [mode |-> a.mode, from |-> a.from, replid |-> a.replid,
                 replid2 |-> a.replid2, off2 |-> a.off2, delta |-> a.delta]
           b == [a EXCEPT !.mode = "psync", !.from = a.offset + 1, !.prev = p]
           c == [b EXCEPT !.replid = id, !.replid2 = NoId, !.off2 = -1]
<1>1. q = [c EXCEPT !.muuid = NoUuid, !.force = FALSE]
  BY DEF serverReplStreamSwitch2Psync, shiftServerReplMode, SetReplId
<1>2. u \in [DOMAIN r -> UNION {{u[x]} : x \in DOMAIN r}] /\ DOMAIN u = DOMAIN r
  BY DEF RestartAt, ServerState
<1>3. DOMAIN r = {"enabled", "uuid", "muuid", "executed", "mode", "from", "prev", "replid",
                  "replid2", "off2", "offset", "delta", "stale", "backlog", "boff", "items",
                  "idx", "wrong", "force", "data"}
  BY DEF ServerState
<1> HIDE DEF p
<1>4. /\ q.mode = "psync" /\ q.from = u.offset + 1 /\ q.prev = p /\ q.replid2 = NoId
      /\ q.offset = u.offset /\ q.stale = FALSE
      /\ q.backlog = u.backlog /\ q.boff = u.boff /\ q.items = u.items /\ q.data = u.data
      /\ q.replid = id /\ q.idx = u.idx /\ q.executed = u.executed
  BY <1>1, <1>2, <1>3
<1>5. /\ p # Unset /\ p.mode = u.mode /\ p.from = u.from /\ p.replid = u.replid
      /\ p.replid2 = u.replid2 /\ p.off2 = u.off2
  BY <1>2, <1>3 DEF p, Unset
<1> QED BY <1>4, <1>5 DEF Turned

\* Turning to xsync.
LEMMA TurnedXsync ==
  ASSUME NEW G, NEW r \in ServerState(G), NEW id, NEW reploff, NEW muuid, NEW cont, NEW q,
         q = serverReplStreamSwitch2Xsync(r, id, reploff, muuid, cont)
  PROVE  Turned(r, q, "xsync") /\ q.replid = id /\ q.idx = {} /\ q.executed = cont
<1> DEFINE p == [mode |-> r.mode, from |-> r.from, replid |-> r.replid,
                 replid2 |-> r.replid2, off2 |-> r.off2, delta |-> r.delta]
           b == [r EXCEPT !.mode = "xsync", !.from = r.offset + 1, !.prev = p]
           c == [b EXCEPT !.replid = id, !.replid2 = NoId, !.off2 = -1]
<1>1. q = [c EXCEPT !.delta = reploff - r.offset, !.stale = FALSE, !.muuid = muuid,
                    !.force = FALSE, !.executed = cont, !.idx = {}]
  BY DEF serverReplStreamSwitch2Xsync, shiftServerReplMode, SetReplId
<1> HIDE DEF p
<1>2. /\ q.mode = "xsync" /\ q.from = r.offset + 1 /\ q.prev = p /\ q.replid2 = NoId
      /\ q.offset = r.offset /\ q.stale = FALSE
      /\ q.backlog = r.backlog /\ q.boff = r.boff /\ q.items = r.items /\ q.data = r.data
      /\ q.replid = id /\ q.idx = {} /\ q.executed = cont
  BY <1>1 DEF ServerState
<1>3. /\ p # Unset /\ p.mode = r.mode /\ p.from = r.from /\ p.replid = r.replid
      /\ p.replid2 = r.replid2 /\ p.off2 = r.off2
  BY DEF p, Unset
<1> QED BY <1>2, <1>3 DEF Turned

\* What a server that turns to another mode retains.
LEMMA TurnedRetains ==
  ASSUME NEW G, NEW r \in ServerState(G), StreamOK(r), NEW mode, NEW q, Turned(r, q, mode)
  PROVE  /\ Window(q) = Window(r)
         /\ \A o \in Window(r) : o \in Int /\ o <= r.offset /\ ItemAt(q, o) = ItemAt(r, o)
                                 /\ DataAt(q, o) = DataAt(r, o)
         /\ \A o \in Window(r) : o < q.from
         /\ q.from - 1 = r.offset /\ r.from - 1 <= r.offset
<1>1. r.offset \in Int /\ r.boff \in Int /\ r.from \in Int /\ r.from <= r.offset + 1
  BY FieldTypes
<1>2. Window(q) = Window(r) /\ \A o \in Window(r) : o \in Int /\ o <= r.offset
  BY <1>1 DEF Turned, Window
<1>3. \A o \in Window(r) : ItemAt(q, o) = ItemAt(r, o) /\ DataAt(q, o) = DataAt(r, o)
  BY DEF Turned, ItemAt, DataAt
<1>4. q.from = r.offset + 1
  BY DEF Turned
<1> QED BY <1>1, <1>2, <1>3, <1>4

\* From psync to xsync: the offset where the mode changes belongs to both.
LEMMA ToXsyncData ==
  ASSUME NEW H0, NEW X0, NEW N0 \in Nat, NEW H, NEW X, NEW N \in Nat, H0 \subseteq H, N0 <= N,
         NEW G, NEW r \in ServerState(G), StreamOK(r), ServerData(H0, X0, N0, r),
         r.mode = "psync", NEW q \in ServerState(G), StreamOK(q), Turned(r, q, "xsync"),
         q.idx = {}, q.replid \in 1..N, Known(X, q.executed, q.data),
         ~r.backlog => <<r.replid, r.offset, r.data>> \in H, Joined(H, r)
  PROVE  ServerData(H, X, N, q)
<1>1. /\ r.offset \in Int /\ r.from \in Int /\ q.from \in Int
      /\ r.backlog \in BOOLEAN /\ r.mode # "xsync"
  BY FieldTypes
<1>2. /\ Window(q) = Window(r)
      /\ \A o \in Window(r) : o \in Int /\ o <= r.offset /\ ItemAt(q, o) = ItemAt(r, o)
                              /\ DataAt(q, o) = DataAt(r, o)
      /\ \A o \in Window(r) : o < q.from
      /\ q.from - 1 = r.offset /\ r.from - 1 <= r.offset
  BY TurnedRetains
<1>3. \A o \in Int : o <= r.offset => (InXsync(q, o) <=> o = r.offset)
  BY <1>1, <1>2 DEF InXsync, Turned
<1>4. \A o \in Window(r) : InPsync(q, o) <=> InPsync(r, o)
  BY <1>2 DEF InPsync, Turned
<1>5. r.offset \in Window(q) /\ DataAt(q, r.offset) = q.data /\ GtidsAt(q, r.offset) = q.executed
  <2>1. q.offset = r.offset
    BY DEF Turned
  <2> QED BY <2>1, OffsetIs
<1>6. ItemsOK(q)
  <2> SUFFICES ASSUME NEW o \in Window(r), o # r.offset PROVE ItemOK(q, o)
    BY <1>2 DEF ItemsOK, Turned
  <2>1. ItemOK(r, o) /\ o + 1 \in Window(r) /\ o \in Int /\ o < r.offset /\ o + 1 <= r.offset
    BY <1>1, <1>2, ItemAtIs DEF ServerData, ItemsOK
  <2>2. ~InXsync(q, o)
    BY <1>1, <1>3, <2>1
  <2> QED BY <1>2, <1>4, <2>1, <2>2 DEF ItemOK
<1>7. GtidFacts(X, q)
  <2> SUFFICES ASSUME NEW o \in Window(r), InXsync(q, o)
               PROVE  Known(X, GtidsAt(q, o), DataAt(q, o))
    BY <1>2 DEF GtidFacts
  <2>1. o = r.offset
    BY <1>2, <1>3
  <2> QED BY <1>5, <2>1
<1>8. PsyncIds(q) = q.prev /\ PsyncIds(r) = r
  BY <1>1 DEF PsyncIds, Turned
<1>9. IdFacts(H, q)
  <2> SUFFICES ASSUME NEW o \in Window(r), InPsync(r, o)
               PROVE  <<r.replid, o, DataAt(r, o)>> \in H
    BY <1>2, <1>4, <1>8 DEF IdFacts, Turned
  <2>1. CASE r.backlog
    BY <1>8, <2>1 DEF ServerData, IdFacts
  <2>2. CASE ~r.backlog
    <3>1. o = r.offset
      BY <1>1, <2>2 DEF Window
    <3> QED BY <2>2, <3>1, OffsetIs
  <2> QED BY <2>1, <2>2
<1>10. ShapeOK(q)
  <2>1. q.prev.from <= q.from
    BY <1>1 DEF Turned, StreamOK
  <2> QED BY <1>1, <2>1 DEF ServerData, ShapeOK, Turned
<1>11. IdsOK(N, q)
  <2>1. 1..N0 \subseteq 1..N /\ 0..N0 \subseteq 0..N /\ 0 \in 0..N
    OBVIOUS
  <2> QED BY <2>1 DEF ServerData, IdsOK, Turned, NoId
<1>12. Joined(H, PsyncIds(q))
  BY <1>8 DEF Joined, Turned
<1> QED BY <1>6, <1>7, <1>9, <1>10, <1>11, <1>12 DEF ServerData, Turned

\* From xsync to psync.
LEMMA ToPsyncData ==
  ASSUME NEW H0, NEW X0, NEW N0 \in Nat, NEW H, NEW X, NEW N \in Nat, X0 \subseteq X, N0 <= N,
         NEW G, NEW r \in ServerState(G), StreamOK(r), ServerData(H0, X0, N0, r),
         r.mode = "xsync", NEW q \in ServerState(G), StreamOK(q), Turned(r, q, "psync"),
         q.idx = r.idx, q.executed = r.executed, q.replid \in 1..N,
         r.backlog => <<q.replid, r.offset, r.data>> \in H,
         ~r.backlog => \A h \in H : h[1] # q.replid
  PROVE  ServerData(H, X, N, q)
<1>1. /\ r.offset \in Int /\ r.from \in Int /\ q.from \in Int
      /\ r.backlog \in BOOLEAN /\ r.mode # "psync"
      /\ \A e \in r.idx : e.offset \in Int /\ e.offset <= r.offset
  BY FieldTypes
<1>2. /\ Window(q) = Window(r)
      /\ \A o \in Window(r) : o \in Int /\ o <= r.offset /\ ItemAt(q, o) = ItemAt(r, o)
                              /\ DataAt(q, o) = DataAt(r, o)
      /\ \A o \in Window(r) : o < q.from
      /\ q.from - 1 = r.offset /\ r.from - 1 <= r.offset
  BY TurnedRetains
<1>3. \A o \in Window(r) : InXsync(q, o) <=> InXsync(r, o)
  BY <1>2 DEF InXsync, Turned
<1>4. \A o \in Int : o <= r.offset => (InPsync(q, o) <=> o = r.offset)
  BY <1>1, <1>2 DEF InPsync, Turned
<1>5. \A o : GtidsAt(q, o) = GtidsAt(r, o)
  BY DEF GtidsAt
<1>6. ItemsOK(q)
  <2> SUFFICES ASSUME NEW o \in Window(r), o # r.offset PROVE ItemOK(q, o)
    BY <1>2 DEF ItemsOK, Turned
  <2>1. ItemOK(r, o) /\ o + 1 \in Window(r) /\ o \in Int /\ o < r.offset
    BY <1>1, <1>2, ItemAtIs DEF ServerData, ItemsOK
  <2>2. ~InPsync(q, o)
    BY <1>1, <1>4, <2>1
  <2> QED BY <1>2, <1>3, <1>5, <2>1, <2>2 DEF ItemOK
<1>7. GtidFacts(X, q)
  <2> SUFFICES ASSUME NEW o \in Window(r), InXsync(r, o)
               PROVE  Known(X, GtidsAt(r, o), DataAt(r, o))
    BY <1>2, <1>3, <1>5 DEF GtidFacts
  <2> QED BY DEF ServerData, GtidFacts, Known
<1>8. PsyncIds(q) = q
  BY DEF PsyncIds, Turned
<1>9. IdFacts(H, q)
  <2> SUFFICES ASSUME r.backlog, NEW o \in Window(r), InPsync(q, o)
               PROVE  <<q.replid, o, DataAt(r, o)>> \in H
    BY <1>2, <1>8 DEF IdFacts, Turned
  <2>1. o = r.offset
    BY <1>2, <1>4
  <2> QED BY <2>1, OffsetIs
<1>10. ShapeOK(q)
  <2>1. \A e \in q.idx : e.offset < q.from
    BY <1>1, <1>2
  <2> QED BY <1>1, <2>1 DEF ServerData, ShapeOK, Turned
<1>11. IdsOK(N, q)
  <2>1. 1..N0 \subseteq 1..N /\ 0..N0 \subseteq 0..N /\ 0 \in 0..N
    OBVIOUS
  <2> QED BY <2>1 DEF ServerData, IdsOK, Turned, NoId
<1>12. Joined(H, PsyncIds(q))
  BY <1>8 DEF Joined, Turned
<1> QED BY <1>6, <1>7, <1>9, <1>10, <1>11, <1>12 DEF ServerData, Turned

\* A server q that is r with a backlog.
Backlogged(r, q) ==
    /\ q.backlog /\ q.mode = r.mode /\ q.from = r.from /\ q.prev = r.prev /\ q.replid = r.replid
    /\ q.replid2 = r.replid2 /\ q.off2 = r.off2 /\ q.offset = r.offset /\ q.stale = r.stale
    /\ q.executed = r.executed /\ q.data = r.data
    /\ r.backlog => q = r
    /\ ~r.backlog => q.boff = r.offset + 1 /\ q.items = << >> /\ q.idx = {}

\* Creating the backlog.
LEMMA BackloggedIs ==
  ASSUME NEW G, NEW r \in ServerState(G), StreamOK(r), NEW q, q = CreateBacklog(r)
  PROVE  q \in ServerState(G) /\ StreamOK(q) /\ Backlogged(r, q)
<1>1. q \in ServerState(G) /\ StreamOK(q)
  BY CreateBacklogIs, CreateBacklogOK
<1>2. Backlogged(r, q)
  <2>1. CASE r.backlog
    BY <2>1 DEF CreateBacklog, Backlogged
  <2>2. CASE ~r.backlog
    BY <2>2 DEF CreateBacklog, Backlogged, ServerState
  <2> QED BY <2>1, <2>2
<1> QED BY <1>1, <1>2

\* A new backlog retains the last offset alone.
LEMMA BackloggedPoint ==
  ASSUME NEW G, NEW r \in ServerState(G), ~r.backlog \/ r.boff = r.offset + 1,
         NEW q \in ServerState(G), Backlogged(r, q)
  PROVE  Window(q) = {q.offset}
<1>1. q.boff = q.offset + 1
  BY DEF Backlogged
<1> QED BY <1>1, PointIs

\* A new backlog retains the offset it begins after.
LEMMA CreatedData ==
  ASSUME NEW H0, NEW X0, NEW N0 \in Nat, NEW H, NEW X, NEW N \in Nat, H0 \subseteq H,
         X0 \subseteq X, N0 <= N,
         NEW G, NEW r \in ServerState(G), StreamOK(r), ServerData(H0, X0, N0, r), ~r.backlog,
         r.mode = "psync" => <<r.replid, r.offset, r.data>> \in H,
         HasPsync(r) => Joined(H, PsyncIds(r)), NEW q, q = CreateBacklog(r)
  PROVE  ServerData(H, X, N, q)
<1>1. q \in ServerState(G) /\ StreamOK(q) /\ Backlogged(r, q)
  BY BackloggedIs
<1>2. Window(q) = {q.offset} /\ r.offset \in Int
  BY <1>1, BackloggedPoint, ServerTypes
<1>3. \A o : InXsync(q, o) = InXsync(r, o) /\ InPsync(q, o) = InPsync(r, o)
  BY <1>1 DEF Backlogged, InXsync, InPsync
<1>4. /\ r.offset \in Window(r) /\ DataAt(r, r.offset) = r.data
      /\ GtidsAt(r, r.offset) = r.executed
  BY OffsetIs
<1>5. InXsync(q, q.offset) => Known(X, q.executed, q.data)
  <2>1. InXsync(r, r.offset) => Known(X0, r.executed, r.data)
    BY <1>4 DEF ServerData, GtidFacts
  <2> QED BY <1>1, <1>3, <2>1 DEF Known, Backlogged
<1>6. /\ PsyncIds(q).replid = PsyncIds(r).replid /\ PsyncIds(q).replid2 = PsyncIds(r).replid2
      /\ PsyncIds(q).off2 = PsyncIds(r).off2 /\ HasPsync(q) = HasPsync(r)
  BY <1>1 DEF PsyncIds, HasPsync, Backlogged
<1>7. InPsync(q, q.offset) => <<PsyncIds(q).replid, q.offset, q.data>> \in H
  <2>1. CASE r.mode = "psync"
    BY <1>1, <1>6, <2>1 DEF PsyncIds, Backlogged
  <2>2. CASE r.mode # "psync"
    <3>1. r.mode = "xsync"
      BY <2>2, FieldTypes
    <3>2. InPsync(r, r.offset) => <<PsyncIds(r).replid, r.offset, r.data>> \in H0
      BY <1>4, <3>1 DEF ServerData, IdFacts
    <3> QED BY <1>1, <1>3, <1>6, <3>2 DEF Backlogged
  <2> QED BY <2>1, <2>2
<1>8. ShapeOK(q)
  <2>1. \A e \in q.idx : e.offset < q.from
    BY <1>1 DEF Backlogged
  <2> QED BY <1>1, <2>1 DEF ServerData, ShapeOK, Backlogged
<1>9. IdsOK(N, q)
  <2>1. 1..N0 \subseteq 1..N /\ 0..N0 \subseteq 0..N
    OBVIOUS
  <2> QED BY <1>1, <2>1 DEF ServerData, IdsOK, Backlogged
<1>10. HasPsync(q) => Joined(H, PsyncIds(q))
  BY <1>6 DEF Joined
<1>11. q.backlog
  BY <1>1 DEF Backlogged
<1> QED BY <1>1, <1>2, <1>5, <1>7, <1>8, <1>9, <1>10, <1>11, PointData

\* What remains when a server frees its backlog.
LEMMA DroppedData ==
  ASSUME NEW H, NEW X, NEW N, NEW G, NEW r \in ServerState(G), StreamOK(r),
         ServerData(H, X, N, r), NEW M \in Nat, N \in Nat, N <= M,
         NEW q \in ServerState(G), StreamOK(q), ~q.backlog, q.items = << >>, q.idx = {},
         q.mode = r.mode, q.from = r.from, q.prev = r.prev, q.offset = r.offset,
         q.stale = r.stale, q.executed = r.executed, q.data = r.data,
         q.replid \in 1..M, q.replid2 = NoId, \A h \in H : h[1] # q.replid
  PROVE  ServerData(H, X, M, q)
<1>1. Window(q) = {q.offset}
  BY PointIs
<1>2. \A o : InXsync(q, o) = InXsync(r, o) /\ InPsync(q, o) = InPsync(r, o)
  BY DEF InXsync, InPsync
<1>3. /\ r.offset \in Window(r) /\ DataAt(r, r.offset) = r.data
      /\ GtidsAt(r, r.offset) = r.executed
  BY OffsetIs
<1>4. InXsync(q, q.offset) => Known(X, q.executed, q.data)
  BY <1>2, <1>3 DEF ServerData, GtidFacts
<1>5. InPsync(q, q.offset) /\ (q.backlog \/ q.mode = "xsync")
         => <<PsyncIds(q).replid, q.offset, q.data>> \in H
  BY <1>2, <1>3 DEF ServerData, IdFacts, PsyncIds
<1>6. ShapeOK(q)
  BY DEF ServerData, ShapeOK
<1>7. IdsOK(M, q)
  <2>1. 1..N \subseteq 1..M /\ 0..N \subseteq 0..M /\ 0 \in 0..M
    OBVIOUS
  <2> QED BY <2>1 DEF ServerData, IdsOK, NoId
<1>8. HasPsync(q) => Joined(H, PsyncIds(q))
  <2>1. CASE q.mode = "psync"
    BY <2>1 DEF PsyncIds, Joined
  <2>2. CASE q.mode # "psync"
    BY <2>2 DEF PsyncIds, HasPsync, ServerData
  <2> QED BY <2>1, <2>2
<1> QED BY <1>1, <1>4, <1>5, <1>6, <1>7, <1>8, PointData

----------------------------------------------------------------------------
(* What a replica becomes when it reads an answer.                         *)

\* What those who follow a server, or share its ids, notice of it.
Stands(q, mode, data, executed, offset, replid, replid2) ==
    /\ q.backlog /\ q.mode = mode /\ q.data = data /\ q.executed = executed /\ q.offset = offset
    /\ q.replid = replid /\ q.replid2 = replid2

\* XSYNC => CONTINUE: a replica whose offset was not its master's retains
\* nothing but where it is.
LEMMA ToPsyncRead ==
  ASSUME NEW H, NEW X, NEW N \in Nat, NEW G, NEW r \in ServerState(G), StreamOK(r),
         ServerData(H, X, N, r), r.mode = "xsync", NEW reploff \in Int, NEW id \in 1..N,
         <<id, reploff, r.data>> \in H,
         NEW q, q = CreateBacklog(serverReplStreamSwitch2Psync(r, id, reploff))
  PROVE  ServerData(H, X, N, q) /\ Stands(q, "psync", r.data, r.executed, reploff, id, NoId)
<1> DEFINE p == serverReplStreamSwitch2Psync(r, id, reploff)
           u == IF r.offset = reploff THEN r ELSE RestartAt(r, reploff)
<1>1. p \in ServerState(G) /\ StreamOK(p) /\ p.offset = reploff /\ id \in Nat
  BY Switch2PsyncIs
<1>2. Turned(u, p, "psync") /\ p.replid = id /\ p.idx = u.idx /\ p.executed = u.executed
  BY TurnedPsync
<1>3. /\ r.offset # reploff =>
         /\ u.mode = r.mode /\ u.from = r.from /\ u.prev = r.prev /\ u.offset = reploff
         /\ u.backlog = r.backlog /\ u.idx = {} /\ u.executed = r.executed /\ u.data = r.data
         /\ u.replid = r.replid /\ u.replid2 = r.replid2 /\ u.items = << >>
         /\ r.backlog => u.boff = reploff + 1
      /\ r.offset = reploff => u = r
  BY ZenonT(60) DEF RestartAt, ServerState
<1>4. q = CreateBacklog(p)
  OBVIOUS
<1> HIDE DEF p, u
<1>5. q \in ServerState(G) /\ StreamOK(q) /\ Backlogged(p, q)
  BY <1>1, <1>4, BackloggedIs
<1>6. Stands(q, "psync", r.data, r.executed, reploff, id, NoId)
  BY <1>1, <1>2, <1>3, <1>5 DEF Stands, Backlogged, Turned
<1>7. CASE r.offset = reploff /\ r.backlog
  <2>1. ServerData(H, X, N, p)
    BY <1>1, <1>2, <1>3, <1>7, ToPsyncData
  <2>2. q = p
    BY <1>2, <1>3, <1>5, <1>7 DEF Backlogged, Turned
  <2> QED BY <1>6, <2>1, <2>2
<1>8. CASE ~(r.offset = reploff /\ r.backlog)
  <2>1. Known(X, r.executed, r.data)
    <3>1. /\ r.offset \in Window(r) /\ InXsync(r, r.offset) /\ DataAt(r, r.offset) = r.data
          /\ GtidsAt(r, r.offset) = r.executed
      BY OffsetIs
    <3> QED BY <3>1 DEF ServerData, GtidFacts
  <2>2. ~p.backlog \/ p.boff = p.offset + 1
    BY <1>1, <1>2, <1>3, <1>8 DEF Turned
  <2>3. Window(q) = {q.offset}
    BY <1>1, <1>5, <2>2, BackloggedPoint
  <2>4. ShapeOK(q)
    <3>1. p.idx = {} /\ p.prev.mode = "xsync" /\ p.stale = FALSE
      BY <1>2, <1>3, <1>8 DEF Turned, ServerData, ShapeOK
    <3>2. q.idx = {} /\ q.prev.mode = "xsync" /\ q.stale = FALSE /\ q.mode = "psync" /\ q.backlog
      BY <1>2, <1>5, <3>1 DEF Backlogged, Turned
    <3> QED BY <3>2 DEF ShapeOK
  <2>5. IdsOK(N, q)
    <3>1. NoId \in 0..N
      BY DEF NoId
    <3>2. /\ q.prev.replid = r.replid /\ q.prev.replid2 = r.replid2 /\ q.replid = id
          /\ q.replid2 = NoId
      BY <1>2, <1>3, <1>5 DEF Backlogged, Turned
    <3> QED BY <3>1, <3>2 DEF ServerData, IdsOK
  <2>6. PsyncIds(q) = q /\ Joined(H, q)
    BY <1>6 DEF PsyncIds, Stands, Joined
  <2>7. Known(X, q.executed, q.data) /\ <<PsyncIds(q).replid, q.offset, q.data>> \in H
    BY <1>6, <2>1, <2>6 DEF Stands
  <2>8. q.mode = "psync" /\ q.backlog
    BY <1>6 DEF Stands
  <2>9. ServerData(H, X, N, q)
    BY <1>5, <2>3, <2>4, <2>5, <2>6, <2>7, <2>8, PointData
  <2> QED BY <1>6, <2>9
<1> QED BY <1>7, <1>8

\* PSYNC => XCONTINUE: the ids of before are kept with the mode of before.
ReadsXsync(H, X, N, r, q, cont, id) ==
    /\ ServerData(H, X, N, q) /\ Stands(q, "xsync", r.data, cont, r.offset, id, NoId)
    /\ q.prev.replid2 = r.replid2 /\ q.prev.off2 = r.off2

\* A psync server that turns to xsync at its own offset.
LEMMA ToXsyncRead ==
  ASSUME NEW H, NEW X, NEW N \in Nat, NEW G, NEW r \in ServerState(G), StreamOK(r),
         ServerData(H, X, N, r), r.mode = "psync", r.backlog, NEW reploff \in Int,
         NEW id \in 1..N, NEW muuid \in MasterUid, NEW cont \in SUBSET G, Known(X, cont, r.data),
         NEW q, q = CreateBacklog(serverReplStreamSwitch2Xsync(r, id, reploff, muuid, cont))
  PROVE  ReadsXsync(H, X, N, r, q, cont, id)
<1> DEFINE p == serverReplStreamSwitch2Xsync(r, id, reploff, muuid, cont)
<1>1. p \in ServerState(G) /\ StreamOK(p) /\ p.backlog /\ id \in Nat
  BY Switch2XsyncIs
<1>2. Turned(r, p, "xsync") /\ p.replid = id /\ p.idx = {} /\ p.executed = cont
  BY TurnedXsync
<1>3. q = p
  BY <1>1 DEF CreateBacklog
<1> HIDE DEF p
<1>4. Joined(H, r)
  BY DEF ServerData, HasPsync, PsyncIds
<1>5. p.data = r.data
  BY <1>2 DEF Turned
<1>6. ServerData(H, X, N, p)
  <2>1. p.replid \in 1..N /\ Known(X, p.executed, p.data)
    BY <1>2, <1>5
  <2>2. H \subseteq H /\ N <= N /\ (~r.backlog => <<r.replid, r.offset, r.data>> \in H)
    OBVIOUS
  <2> QED BY <1>1, <1>2, <1>4, <2>1, <2>2, ToXsyncData
<1>7. p.offset = r.offset /\ p.mode = "xsync" /\ p.replid2 = NoId
  BY <1>2 DEF Turned
<1>8. Stands(p, "xsync", r.data, cont, r.offset, id, NoId)
  BY <1>1, <1>2, <1>5, <1>7 DEF Stands
<1>9. p.prev.replid2 = r.replid2 /\ p.prev.off2 = r.off2
  BY <1>2 DEF Turned
<1> QED BY <1>3, <1>6, <1>8, <1>9 DEF ReadsXsync

\* FULLRESYNC.
LEMMA ResetPsyncRead ==
  ASSUME NEW H, NEW X, NEW N \in Nat, NEW G, NEW r \in ServerState(G), NEW reploff \in Int,
         NEW id \in 1..N, NEW d \in Seq(Nat), <<id, reploff, d>> \in H,
         NEW q, q = CreateBacklog([serverReplStreamReset2Psync(r, id, reploff) EXCEPT !.data = d])
  PROVE  ServerData(H, X, N, q) /\ Stands(q, "psync", d, r.executed, reploff, id, NoId)
<1> DEFINE p == [serverReplStreamReset2Psync(r, id, reploff) EXCEPT !.data = d]
<1>1. p \in ServerState(G) /\ StreamOK(p)
  BY Reset2PsyncIs
<1>2. /\ p.mode = "psync" /\ p.offset = reploff /\ p.replid = id /\ p.replid2 = NoId
      /\ p.prev = Unset /\ p.stale = FALSE /\ p.idx = {} /\ p.items = << >> /\ p.data = d
      /\ p.executed = r.executed /\ (p.backlog => p.boff = reploff + 1)
  <2> DEFINE a == RestartAt(r, reploff)
  <2>1. /\ a.offset = reploff /\ a.items = << >> /\ a.idx = {} /\ a.executed = r.executed
        /\ a.backlog = r.backlog /\ (r.backlog => a.boff = reploff + 1) /\ a \in ServerState(G)
    <3>1. a \in ServerState(G)
      BY RestartAtIs
    <3> QED BY <3>1 DEF RestartAt, ServerState
  <2> HIDE DEF a
  <2> DEFINE b == [[a EXCEPT !.mode = "psync", !.from = a.offset + 1, !.prev = Unset]
                     EXCEPT !.replid = id, !.replid2 = NoId, !.off2 = -1]
  <2>2. p = [[b EXCEPT !.muuid = NoUuid, !.force = FALSE, !.delta = 0, !.stale = FALSE]
                EXCEPT !.data = d]
    BY DEF serverReplStreamReset2Psync, resetServerReplMode, SetReplId, a
  <2>3. /\ b.mode = "psync" /\ b.offset = reploff /\ b.replid = id /\ b.replid2 = NoId
        /\ b.prev = Unset /\ b.idx = {} /\ b.items = << >> /\ b.executed = r.executed
        /\ b.backlog = r.backlog /\ (r.backlog => b.boff = reploff + 1)
        /\ DOMAIN b = DOMAIN a
    BY <2>1, ZenonT(60) DEF ServerState
  <2>4. DOMAIN a = {"enabled", "uuid", "muuid", "executed", "mode", "from", "prev", "replid",
                    "replid2", "off2", "offset", "delta", "stale", "backlog", "boff", "items",
                    "idx", "wrong", "force", "data"}
    BY <2>1 DEF ServerState
  <2> HIDE DEF b, p
  <2> QED BY <2>2, <2>3, <2>4
<1>3. q = CreateBacklog(p)
  OBVIOUS
<1> HIDE DEF p
<1>4. q \in ServerState(G) /\ StreamOK(q) /\ Backlogged(p, q)
  BY <1>1, <1>3, BackloggedIs
<1>5. Stands(q, "psync", d, r.executed, reploff, id, NoId)
  BY <1>2, <1>4 DEF Stands, Backlogged
<1>6. q.prev = Unset /\ q.stale = FALSE /\ q.idx = {} /\ q.prev.mode = "unset"
  <2>1. q.prev = Unset /\ q.stale = FALSE
    BY <1>2, <1>4 DEF Backlogged
  <2>2. q.idx = {}
    BY <1>2, <1>4 DEF Backlogged
  <2>3. Unset.mode = "unset"
    BY DEF Unset
  <2> QED BY <2>1, <2>2, <2>3
<1>7. Window(q) = {q.offset}
  BY <1>1, <1>2, <1>4, BackloggedPoint
<1>8. ShapeOK(q)
  BY <1>5, <1>6 DEF ShapeOK, Stands
<1>9. IdsOK(N, q)
  BY <1>5, <1>6 DEF IdsOK, Stands, NoId
<1>10. PsyncIds(q) = q /\ Joined(H, q)
  BY <1>5 DEF PsyncIds, Stands, Joined
<1>11. ~InXsync(q, q.offset) /\ <<PsyncIds(q).replid, q.offset, q.data>> \in H /\ q.backlog
  BY <1>5, <1>6, <1>10 DEF InXsync, Stands
<1>12. ServerData(H, X, N, q)
  BY <1>4, <1>7, <1>8, <1>9, <1>10, <1>11, PointData
<1> QED BY <1>5, <1>12

\* XFULLRESYNC.
LEMMA ResetXsyncRead ==
  ASSUME NEW H, NEW X, NEW N \in Nat, NEW G, NEW r \in ServerState(G), NEW reploff \in Int,
         NEW id \in 1..N, NEW muuid \in MasterUid, NEW S \in SUBSET G, NEW d \in Seq(Nat),
         Known(X, S, d),
         NEW q, q = CreateBacklog([serverReplStreamReset2Xsync(r, id, reploff, muuid, S)
                                     EXCEPT !.data = d])
  PROVE  /\ ServerData(H, X, N, q) /\ Stands(q, "xsync", d, S, reploff, id, NoId)
         /\ ~HasPsync(q)
<1> DEFINE p == [serverReplStreamReset2Xsync(r, id, reploff, muuid, S) EXCEPT !.data = d]
<1>1. p \in ServerState(G) /\ StreamOK(p)
  BY Reset2XsyncIs
<1>2. /\ p.mode = "xsync" /\ p.offset = reploff /\ p.replid = id /\ p.replid2 = NoId
      /\ p.prev = Unset /\ p.idx = {} /\ p.items = << >> /\ p.data = d
      /\ p.executed = S /\ (p.backlog => p.boff = reploff + 1)
  <2> DEFINE a == RestartAt(r, reploff)
             b == r.delta # 0
  <2>1. /\ a.offset = reploff /\ a.items = << >> /\ a.idx = {}
        /\ a.backlog = r.backlog /\ (r.backlog => a.boff = reploff + 1) /\ a \in ServerState(G)
    <3>1. a \in ServerState(G)
      BY RestartAtIs
    <3> QED BY <3>1 DEF RestartAt, ServerState
  <2> HIDE DEF a, b
  <2>2. p = [serverReplStreamReset2Xsync(r, id, reploff, muuid, S) EXCEPT !.data = d]
    OBVIOUS
  <2>3. p = [[[[a EXCEPT !.mode = "xsync", !.from = a.offset + 1, !.prev = Unset]
                EXCEPT !.replid = id, !.replid2 = NoId, !.off2 = -1]
                EXCEPT !.muuid = muuid, !.force = FALSE, !.executed = S, !.stale = b]
                EXCEPT !.data = d]
    BY <2>2 DEF serverReplStreamReset2Xsync, resetServerReplMode, SetReplId, a, b
  <2> QED BY <2>1, <2>3 DEF ServerState
<1>3. q = CreateBacklog(p)
  OBVIOUS
<1> HIDE DEF p
<1>4. q \in ServerState(G) /\ StreamOK(q) /\ Backlogged(p, q)
  BY <1>1, <1>3, BackloggedIs
<1>5. Stands(q, "xsync", d, S, reploff, id, NoId)
  BY <1>2, <1>4 DEF Stands, Backlogged
<1>6. q.prev = Unset /\ q.prev.mode = "unset"
  BY <1>2, <1>4 DEF Backlogged, Unset
<1>7. Window(q) = {q.offset}
  BY <1>1, <1>2, <1>4, BackloggedPoint
<1>8. ShapeOK(q)
  BY <1>5, <1>6 DEF ShapeOK, Stands
<1>9. IdsOK(N, q)
  BY <1>5, <1>6 DEF IdsOK, Stands, NoId
<1>10. ~HasPsync(q) /\ ~InPsync(q, q.offset) /\ Known(X, q.executed, q.data) /\ q.mode # "psync"
  BY <1>5, <1>6 DEF HasPsync, InPsync, Stands
<1>11. ServerData(H, X, N, q)
  BY <1>4, <1>7, <1>8, <1>9, <1>10, PointData
<1> QED BY <1>5, <1>10, <1>11

----------------------------------------------------------------------------
(* What a server becomes by itself.                                        *)

\* The fact of a server that turns to the other mode: the offset where it does
\* has its name in psync too.
Turning(r, id) ==
    IF r.mode = "xsync" THEN IF r.backlog THEN {<<id, r.offset, r.data>>} ELSE {}
    ELSE IF r.backlog THEN {} ELSE {<<r.replid, r.offset, r.data>>}

\* The server q that r with such a fact, and the new id M, becomes.
Switched(H, X, r, M, q) ==
    /\ ServerData(H \cup Turning(r, M), X, M, q)
    /\ q.mode = EnabledMode(r) /\ q.data = r.data /\ q.backlog = r.backlog
    /\ q.offset = r.offset /\ q.replid = M /\ q.replid2 = NoId
    /\ HasPsync(q) => \/ PsyncIds(q).replid2 = NoId
                      \/ r.mode = "psync" /\ PsyncIds(q).replid2 = r.replid2
                         /\ PsyncIds(q).off2 = r.off2

\* A server that turns to the mode gtid-enabled asks for.
LEMMA SwitchedData ==
  ASSUME NEW H, NEW X, NEW N \in Nat, NEW G, NEW r \in ServerState(G), StreamOK(r),
         ServerData(H, X, N, r), NEW M, M = N + 1, r.mode # EnabledMode(r), FactsOK(H, X, N, G),
         NEW s, NEW w, NEW D, NamesOK(r, s, G, w, D), G \in SUBSET Gtid,
         NEW q, q = serverReplStreamSwitchIfNeeded(r, M)
  PROVE  Switched(H, X, r, M, q)
<1> DEFINE F == Turning(r, M)
<1>1. /\ r.mode \in {"psync", "xsync"} /\ r.offset \in Int /\ r.backlog \in BOOLEAN
      /\ EnabledMode(r) \in {"psync", "xsync"} /\ r.uuid \in Uid
  BY FieldTypes, ServerTypes DEF EnabledMode
<1>2. M \in Nat /\ M \in 1..M /\ N <= M /\ M \notin 1..N
      /\ \A h \in H : h[1] \in 1..N
  BY DEF FactsOK
<1>3. q \in ServerState(G) /\ StreamOK(q) /\ q.backlog = r.backlog
  BY <1>2, SwitchIfNeededIs
<1>4. CASE r.mode = "xsync"
  <2>1. q = serverReplStreamSwitch2Psync(r, M, r.offset) /\ EnabledMode(r) = "psync"
    BY <1>1, <1>4 DEF serverReplStreamSwitchIfNeeded
  <2>2. Turned(r, q, "psync") /\ q.replid = M /\ q.idx = r.idx /\ q.executed = r.executed
    BY <2>1, TurnedPsync
  <2>3. r.backlog => <<M, r.offset, r.data>> \in H \cup F
    BY <1>4 DEF Turning
  <2>4. ~r.backlog => \A h \in H \cup F : h[1] # M
    BY <1>2, <1>4 DEF Turning
  <2>5. q.replid \in 1..M /\ X \subseteq X
    BY <1>2, <2>2
  <2> HIDE DEF F
  <2>6. ServerData(H \cup F, X, M, q)
    BY <1>2, <1>3, <1>4, <2>2, <2>3, <2>4, <2>5, ToPsyncData
  <2> QED BY <1>3, <2>1, <2>2, <2>6 DEF Turned, PsyncIds, F, Switched
<1>5. CASE r.mode # "xsync"
  <2> DEFINE uuid == RenewedUuid(r)
             u == [r EXCEPT !.uuid = uuid]
  <2>1. q = serverReplStreamSwitch2Xsync(u, M, r.offset, uuid, {}) /\ EnabledMode(r) = "xsync"
        /\ r.mode = "psync"
    BY <1>1, <1>5 DEF serverReplStreamSwitchIfNeeded
  <2>2. uuid \in Uid
    <3>1. r.uuid[1] \in Servers /\ r.uuid[2] + 1 \in Nat
      BY <1>1 DEF Uid
    <3> QED BY <1>1, <3>1 DEF RenewedUuid, Uid
  <2> HIDE DEF uuid
  <2>3. u \in ServerState(G) /\ SameView(r, u) /\ u.delta = r.delta
    BY <2>2 DEF ServerState, SameView
  <2> HIDE DEF u
  <2>4. ServerData(H, X, N, u) /\ StreamOK(u)
    BY <2>3, SameViewData DEF StreamOK, BacklogOK, SameView
  <2>5. Turned(u, q, "xsync") /\ q.replid = M /\ q.idx = {} /\ q.executed = {}
    BY <2>1, <2>3, TurnedXsync
  <2>6. ~u.backlog => <<u.replid, u.offset, u.data>> \in H \cup F
    BY <2>1, <2>3 DEF SameView, Turning
  <2>7. Joined(H \cup F, u)
    <3> SUFFICES ASSUME u.replid2 # NoId, NEW h \in H \cup F, h[1] = u.replid2, h[2] < u.off2
                 PROVE  <<u.replid, h[2], h[3]>> \in H \cup F
      BY DEF Joined
    <3>1. CASE h \in H
      <4>1. Joined(H, u)
        BY <2>1, <2>3, <2>4 DEF ServerData, HasPsync, PsyncIds, SameView
      <4> QED BY <3>1, <4>1 DEF Joined
    <3>2. CASE h \in F
      <4>1. h = <<r.replid, r.offset, r.data>>
        BY <2>1, <3>2 DEF Turning
      <4> QED BY <2>3, <3>2, <4>1 DEF SameView
    <3> QED BY <3>1, <3>2
  <2>8. Known(X, q.executed, q.data) /\ q.replid \in 1..M /\ u.mode = "psync"
    BY <1>2, <2>1, <2>3, <2>5 DEF Known, SameView
  <2> HIDE DEF F
  <2>9. ServerData(H \cup F, X, M, q)
    <3>1. H \subseteq H \cup F
      OBVIOUS
    <3> QED BY <1>2, <1>3, <2>3, <2>4, <2>5, <2>6, <2>7, <2>8, <3>1, ToXsyncData
  <2>10. q.mode = "xsync" /\ PsyncIds(q) = q.prev
    BY <2>5 DEF Turned, PsyncIds
  <2>11. q.prev.replid2 = r.replid2 /\ q.prev.off2 = r.off2 /\ q.data = r.data
         /\ q.offset = r.offset /\ q.replid2 = NoId
    BY <2>3, <2>5 DEF Turned, SameView
  <2> QED BY <1>3, <2>1, <2>5, <2>9, <2>10, <2>11 DEF F, Switched
<1> QED BY <1>4, <1>5

\* A server that goes on in psync with another replication id, which names all
\* that the one before named.
Renames(H, r, id) ==
    /\ r.mode = "psync"
    /\ \A h \in H : h[1] = r.replid /\ h[2] <= r.offset => <<id, h[2], h[3]>> \in H
    /\ \A h \in H : h[2] \in Int
    /\ ~r.backlog => \A h \in H : h[1] # id

\* A new replication id, with the facts that move to it.
LEMMA RenamedData ==
  ASSUME NEW H, NEW X, NEW N \in Nat, NEW H2, NEW M \in Nat, H \subseteq H2, N <= M,
         NEW G, NEW r \in ServerState(G), StreamOK(r),
         ServerData(H, X, N, r), NEW id \in 1..M, Renames(H2, r, id),
         NEW q, q = shiftReplicationId(r, id)
  PROVE  ServerData(H2, X, M, q)
<1>0. /\ q = [r EXCEPT !.replid = id, !.replid2 = r.replid, !.off2 = r.offset + 1]
      /\ r.mode = "psync"
      /\ \A h \in H2 : h[1] = r.replid /\ h[2] <= r.offset => <<id, h[2], h[3]>> \in H2
      /\ \A h \in H2 : h[2] \in Int
      /\ ~r.backlog => \A h \in H2 : h[1] # id
  BY DEF Renames, shiftReplicationId
<1>1. /\ q.mode = r.mode /\ q.from = r.from /\ q.prev = r.prev /\ q.replid = id
      /\ q.replid2 = r.replid /\ q.off2 = r.offset + 1 /\ q.offset = r.offset /\ q.stale = r.stale
      /\ q.backlog = r.backlog /\ q.boff = r.boff /\ q.items = r.items /\ q.idx = r.idx
      /\ q.executed = r.executed /\ q.data = r.data /\ q.delta = r.delta
  BY <1>0, ZenonT(60) DEF ServerState
<1>2. r.offset \in Int /\ r.boff \in Int /\ r.replid \in Nat /\ id \in Nat /\ r.offset + 1 \in Int
  BY ServerTypes
<1>5. Window(q) = Window(r) /\ \A o \in Window(r) : o <= r.offset
  BY <1>1, <1>2 DEF Window
<1>6. \A o : /\ ItemAt(q, o) = ItemAt(r, o) /\ DataAt(q, o) = DataAt(r, o)
             /\ GtidsAt(q, o) = GtidsAt(r, o) /\ InXsync(q, o) = InXsync(r, o)
             /\ InPsync(q, o) = InPsync(r, o)
  BY <1>1 DEF ItemAt, DataAt, GtidsAt, InXsync, InPsync
<1>7. \A o : ItemOK(q, o) = ItemOK(r, o)
  BY <1>6 DEF ItemOK
<1>8. ItemsOK(q) /\ GtidFacts(X, q)
  BY <1>1, <1>5, <1>6, <1>7 DEF ServerData, ItemsOK, GtidFacts
<1>9. PsyncIds(q) = q /\ PsyncIds(r) = r
  BY <1>0, <1>1 DEF PsyncIds
<1>10. IdFacts(H2, q)
  <2> SUFFICES ASSUME r.backlog, NEW o \in Window(r), InPsync(r, o)
               PROVE  <<id, o, DataAt(r, o)>> \in H2
    BY <1>0, <1>1, <1>5, <1>6, <1>9 DEF IdFacts
  <2>1. <<r.replid, o, DataAt(r, o)>> \in H2
    BY <1>9 DEF ServerData, IdFacts
  <2> QED BY <1>0, <1>5, <2>1
<1>11. ShapeOK(q)
  BY <1>1 DEF ServerData, ShapeOK
<1>12. IdsOK(M, q)
  <2>1. 1..N \subseteq 1..M /\ 0..N \subseteq 0..M /\ 1..N \subseteq 0..M
    OBVIOUS
  <2> QED BY <1>1, <2>1 DEF ServerData, IdsOK
<1>13. Joined(H2, q)
  <2>1. \A h \in H2 : h[2] < r.offset + 1 => h[2] <= r.offset
    BY <1>0, <1>2
  <2> QED BY <1>0, <1>1, <2>1 DEF Joined
<1> QED BY <1>0, <1>1, <1>8, <1>9, <1>10, <1>11, <1>12, <1>13 DEF ServerData

\* An xsync server with another replication id, which names no data.
Updates(r, q, M) ==
    /\ r.mode = "xsync" /\ q.mode = r.mode /\ q.from = r.from /\ q.prev = r.prev
    /\ q.replid \in 1..M /\ q.replid2 \in 0..M
    /\ q.offset = r.offset /\ q.backlog = r.backlog /\ q.boff = r.boff
    /\ q.items = r.items /\ q.idx = r.idx /\ q.executed = r.executed /\ q.data = r.data

\* A new master uuid and offset delta.
LEMMA UpdatedData ==
  ASSUME NEW H, NEW X, NEW N \in Nat, NEW M \in Nat, N <= M, NEW r,
         ServerData(H, X, N, r), HasPsync(r) => PsyncIds(r).off2 \in Int,
         NEW q, Updates(r, q, M)
  PROVE  ServerData(H, X, M, q)
<1>0. ServerData(H, X, M, r)
  <2>1. PICK F : F = {}
    OBVIOUS
  <2>2. Late(F, r, TRUE) /\ \A f \in F : f[2] \in Int
    BY <2>1 DEF Late
  <2>3. ServerData(H \cup F, X \cup F, M, r)
    BY <2>2, ServerGrows
  <2>4. H \cup F = H /\ X \cup F = X
    BY <2>1
  <2> QED BY <2>3, <2>4
<1>1. Window(q) = Window(r) /\ q.mode = r.mode
  BY DEF Window, Updates
<1>2. \A o : /\ ItemAt(q, o) = ItemAt(r, o) /\ DataAt(q, o) = DataAt(r, o)
             /\ GtidsAt(q, o) = GtidsAt(r, o) /\ InXsync(q, o) = InXsync(r, o)
             /\ InPsync(q, o) = InPsync(r, o)
  BY DEF ItemAt, DataAt, GtidsAt, InXsync, InPsync, Updates
<1>3. \A o : ItemOK(q, o) = ItemOK(r, o)
  BY <1>2 DEF ItemOK
<1>4. PsyncIds(q) = PsyncIds(r) /\ HasPsync(q) = HasPsync(r)
  BY DEF PsyncIds, HasPsync, Updates
<1>5. ItemsOK(q) /\ GtidFacts(X, q) /\ IdFacts(H, q)
  BY <1>0, <1>1, <1>2, <1>3, <1>4 DEF ServerData, ItemsOK, GtidFacts, IdFacts, Updates
<1>6. ShapeOK(q) /\ IdsOK(M, q)
  BY <1>0 DEF ServerData, ShapeOK, IdsOK, Updates
<1>7. ~(q.mode = "psync")
  BY DEF Updates
<1> QED BY <1>0, <1>4, <1>5, <1>6, <1>7 DEF ServerData

\* A write without a backlog moves the data but not the offset, which must not
\* be one of the mode before.
LEMMA UnloggedData ==
  ASSUME NEW H, NEW X, NEW N \in Nat, NEW Y, NEW G, NEW r \in ServerState(G), StreamOK(r),
         ServerData(H, X, N, r), ~r.backlog, NEW d \in Seq(Nat), NEW S \in SUBSET G,
         r.mode = "xsync" => Known(X \cup Y, S, d),
         r.prev = Unset \/ r.from # r.offset + 1,
         NEW q, q = Ran(r, d, S)
  PROVE  ServerData(H, X \cup Y, N, q)
<1>1. q \in ServerState(G) /\ q.data = d /\ q.executed = S /\ SameOffsets(r, q) /\ StreamOK(q)
  BY RanFields
<1>2. Window(q) = {q.offset} /\ ~q.backlog
  BY <1>1, PointIs DEF SameOffsets
<1>3. r.prev = Unset => r.prev.mode = "unset"
  BY FieldTypes
<1>4. r.mode \in {"psync", "xsync"}
  BY FieldTypes
<1>5. /\ InXsync(q, q.offset) => q.mode = "xsync"
      /\ InPsync(q, q.offset) => q.mode = "psync"
  BY <1>1, <1>3, <1>4, OffsetIs DEF SameOffsets
<1>6. ShapeOK(q)
  BY <1>1 DEF ServerData, ShapeOK, SameOffsets
<1>7. IdsOK(N, q)
  BY <1>1 DEF ServerData, IdsOK, SameOffsets
<1>8. HasPsync(q) => Joined(H, PsyncIds(q))
  BY <1>1 DEF ServerData, HasPsync, PsyncIds, Joined, SameOffsets
<1>9. q.mode = "psync" /\ ~q.backlog => \A h \in H : h[1] # q.replid
  BY <1>1 DEF ServerData, SameOffsets
<1>10. q.mode = r.mode
  BY <1>1 DEF SameOffsets
<1> QED BY <1>1, <1>2, <1>4, <1>5, <1>6, <1>7, <1>8, <1>9, <1>10, PointData

\* The new history of a replica that is asked for a full resync without having
\* a backlog.
LEMMA NewHistoryData ==
  ASSUME NEW H, NEW X, NEW N \in Nat, NEW G, NEW r \in ServerState(G), StreamOK(r),
         ServerData(H, X, N, r), NEW M, M = N + 1, ~r.backlog, \A h \in H : h[1] \in 1..N,
         NEW F, F = IF r.mode = "psync" THEN {<<M, r.offset, r.data>>} ELSE {},
         NEW q, q = CreateBacklog(SetReplId(r, M))
  PROVE  ServerData(H \cup F, X, M, q)
<1> DEFINE u == SetReplId(r, M)
<1>1. M \in Nat /\ M \in 1..M /\ N <= M /\ M \notin 1..N
  OBVIOUS
<1>2. /\ u \in ServerState(G)
      /\ u.mode = r.mode /\ u.from = r.from /\ u.prev = r.prev
      /\ u.replid = M /\ u.offset = r.offset /\ u.delta = r.delta
      /\ u.stale = r.stale /\ u.executed = r.executed /\ u.backlog = r.backlog
      /\ u.boff = r.boff /\ u.items = r.items /\ u.idx = r.idx /\ u.data = r.data
  BY <1>1, SetReplIdIs
<1>3. u.replid2 = NoId
  BY DEF SetReplId, ServerState
<1>4. q = CreateBacklog(u)
  OBVIOUS
<1> HIDE DEF u
<1>5. StreamOK(u)
  BY <1>2 DEF StreamOK, BacklogOK
<1>6. u.items = << >> /\ u.idx = {}
  BY <1>2 DEF ServerData, ShapeOK
<1>7. \A h \in H : h[1] # u.replid
  BY <1>1, <1>2
<1>8. ServerData(H, X, M, u)
  BY <1>1, <1>2, <1>3, <1>5, <1>6, <1>7, DroppedData
<1>9. u.mode = "psync" => <<u.replid, u.offset, u.data>> \in H \cup F
  BY <1>2
<1>10. HasPsync(u) => Joined(H \cup F, PsyncIds(u))
  <2>1. CASE u.mode = "psync"
    BY <1>3, <2>1 DEF PsyncIds, Joined
  <2>2. CASE u.mode # "psync"
    <3>1. F = {} /\ H \cup F = H
      BY <1>2, <2>2
    <3> QED BY <1>8, <3>1 DEF ServerData
  <2> QED BY <2>1, <2>2
<1>11. H \subseteq H \cup F /\ X \subseteq X /\ M <= M
  BY <1>1
<1> QED BY <1>1, <1>2, <1>4, <1>5, <1>8, <1>9, <1>10, <1>11, CreatedData

----------------------------------------------------------------------------
(* Connections.                                                            *)

\* What is on its way after the answer, if any.
LEMMA RestIs ==
  ASSUME NEW G, NEW c \in Connection(G), ChanOK(c)
  PROVE  /\ Rest(c) \in Seq(Messages(G)) /\ Len(Rest(c)) \in Nat
         /\ \A k \in 1..Len(Rest(c)) : /\ Rest(c)[k] \in Messages(G)
                                       /\ c.attached => Rest(c)[k].type = "cmd"
         /\ Len(Rest(c)) = IF c.link = "wait" THEN Len(c.chan) - 1 ELSE Len(c.chan)
         /\ c.link = "wait" => /\ c.chan # << >> /\ Head(c.chan) \in Messages(G)
                               /\ Head(c.chan).type \in Answer
<1>1. /\ c.chan \in Seq(Messages(G)) /\ Len(c.chan) \in Nat /\ c.attached \in BOOLEAN
      /\ c.link \in {"down", "wait", "up"}
  BY ConnectionTypes
<1>2. CASE c.link = "wait"
  <2>1. c.chan # << >>
    BY <1>2 DEF ChanOK
  <2>2. /\ Tail(c.chan) \in Seq(Messages(G)) /\ Len(Tail(c.chan)) = Len(c.chan) - 1
        /\ \A i \in 1..(Len(c.chan) - 1) : Tail(c.chan)[i] = c.chan[i + 1]
        /\ Head(c.chan) \in Messages(G)
    BY <2>1, ChanTail
  <2>3. Len(c.chan) >= 1 /\ Head(c.chan) = c.chan[1]
    BY <2>1, ConnectionTypes
  <2>4. Head(c.chan).type \in Answer
    BY <1>1, <1>2, <2>3 DEF ChanOK, Answer
  <2>5. ASSUME NEW k \in 1..(Len(c.chan) - 1), c.attached PROVE c.chan[k + 1].type = "cmd"
    <3>1. k + 1 \in 1..Len(c.chan) /\ k + 1 # 1
      BY <1>1
    <3> QED BY <2>5, <3>1 DEF ChanOK
  <2>6. \A k \in 1..(Len(c.chan) - 1) : k + 1 \in 1..Len(c.chan)
    BY <1>1
  <2>7. Rest(c) = Tail(c.chan) /\ Len(Tail(c.chan)) \in Nat
    BY <1>1, <1>2, <2>2 DEF Rest
  <2> QED BY <1>1, <1>2, <2>1, <2>2, <2>4, <2>5, <2>6, <2>7, ConnectionTypes
<1>3. CASE c.link # "wait"
  <2>1. Rest(c) = c.chan
    BY <1>3 DEF Rest
  <2>2. \A k \in 1..Len(c.chan) : c.attached => c.chan[k].type = "cmd"
    BY <1>3 DEF ChanOK
  <2> QED BY <1>1, <1>3, <2>1, <2>2, ConnectionTypes
<1> QED BY <1>2, <1>3

\* A message more.
LEMMA RestAppend ==
  ASSUME NEW G, NEW c \in Connection(G), ChanOK(c), NEW msg, NEW k, k = Append(c.chan, msg),
         NEW d, d.link = c.link, d.chan = k
  PROVE  /\ Rest(d) = Append(Rest(c), msg)
         /\ c.link = "wait" => Head(k) = Head(c.chan)
<1>1. c.chan \in Seq(Messages(G)) /\ (c.link = "wait" => c.chan # << >>)
  BY ConnectionTypes DEF ChanOK
<1>2. CASE c.link = "wait"
  <2>1. Head(k) = Head(c.chan) /\ Tail(k) = Append(Tail(c.chan), msg)
    BY <1>1, <1>2, HeadTailAppend
  <2> QED BY <1>2, <2>1 DEF Rest
<1>3. CASE c.link # "wait"
  BY <1>3 DEF Rest
<1> QED BY <1>2, <1>3

\* The messages of a connection, one more.
LEMMA PendingAppend ==
  ASSUME NEW H, NEW X, NEW z, NEW S, NEW L \in Seq(S), PendingOK(H, X, z, L), NEW msg,
         msg.type = "cmd" =>
            /\ L = << >> => FirstOK(z, msg.item)
            /\ L # << >> /\ L[Len(L)].type = "cmd" => NextItemOK(z, L[Len(L)].item, msg.item)
            /\ FactOK(H, X, z, Len(L) + 1, msg.item)
  PROVE  PendingOK(H, X, z, Append(L, msg))
<1> DEFINE n == Len(L)
           K == Append(L, msg)
<1>1. /\ n \in Nat /\ Len(K) = n + 1 /\ K[n + 1] = msg /\ \A i \in 1..n : K[i] = L[i]
      /\ L = << >> <=> n = 0
  OBVIOUS
<1> HIDE DEF n, K
<1> SUFFICES ASSUME NEW k \in 1..(n + 1), K[k].type = "cmd"
             PROVE  /\ k = 1 => FirstOK(z, K[k].item)
                    /\ k > 1 /\ K[k - 1].type = "cmd" => NextItemOK(z, K[k - 1].item, K[k].item)
                    /\ FactOK(H, X, z, k, K[k].item)
  BY <1>1 DEF PendingOK, K
<1>2. CASE k = n + 1
  <2>1. k = 1 => L = << >>
    BY <1>1, <1>2
  <2>2. k > 1 => n \in 1..n /\ k - 1 = n /\ L # << >>
    BY <1>1, <1>2
  <2>3. FirstOK(z, msg.item) \/ k # 1
    BY <1>1, <1>2, <2>1
  <2>4. k > 1 /\ K[k - 1].type = "cmd" => NextItemOK(z, K[k - 1].item, msg.item)
    BY <1>1, <1>2, <2>2 DEF n
  <2>5. FactOK(H, X, z, n + 1, msg.item)
    BY <1>1, <1>2 DEF n
  <2> QED BY <1>1, <1>2, <2>3, <2>4, <2>5
<1>3. CASE k # n + 1
  <2>1. k \in 1..n /\ K[k] = L[k] /\ (k > 1 => k - 1 \in 1..n /\ K[k - 1] = L[k - 1])
    BY <1>1, <1>3
  <2> QED BY <2>1 DEF PendingOK, n
<1> QED BY <1>2, <1>3

\* What a replica starts from, if its own part is told the same.
LEMMA StartSame ==
  ASSUME NEW c, NEW r, NEW q, SameView(r, q)
  PROVE  Start(c, q) = Start(c, r)
BY DEF SameView, Start, Standing, Becomes

\* More facts, and more ids, and a replica and a master that are told the same.
LEMMA LinkGrows ==
  ASSUME NEW H, NEW X, NEW N \in Nat, NEW c, NEW r, NEW m, LinkData(H, X, N, c, r, m),
         NEW F, NEW Y, NEW M \in Nat, N <= M, NEW solo \in BOOLEAN, Late(F, r, solo),
         r.offset \in Int, \A f \in F : f[2] \in Int,
         NEW q, SameView(r, q),
         NEW p, c.attached => p.data = m.data /\ p.executed = m.executed
  PROVE  LinkData(H \cup F, X \cup Y, M, c, q, p)
<1> SUFFICES ASSUME c.link # "down"
             PROVE  /\ c.link = "wait" => AnswerOK(H \cup F, M, q, Head(c.chan))
                    /\ StartOK(H \cup F, X \cup Y, Start(c, q))
                    /\ PendingOK(H \cup F, X \cup Y, Start(c, q), Rest(c))
                    /\ c.attached => Ends(Start(c, q), Rest(c), p)
  BY DEF LinkData
<1> DEFINE z == Start(c, q)
<1>1. z = Start(c, r)
  BY StartSame
<1> HIDE DEF z
<1>2. /\ c.link = "wait" => AnswerOK(H, N, r, Head(c.chan))
      /\ StartOK(H, X, z) /\ PendingOK(H, X, z, Rest(c))
      /\ c.attached => Ends(z, Rest(c), m)
  BY <1>1 DEF LinkData
<1>3. StartOK(H \cup F, X \cup Y, z)
  BY <1>2 DEF StartOK, Known
<1>4. PendingOK(H \cup F, X \cup Y, z, Rest(c))
  <2>1. ASSUME NEW k, NEW i, FactOK(H, X, z, k, i) PROVE FactOK(H \cup F, X \cup Y, z, k, i)
    BY <2>1 DEF FactOK, Known
  <2> QED BY <1>2, <2>1 DEF PendingOK
<1>5. c.attached => Ends(z, Rest(c), p)
  BY <1>2 DEF Ends, NextItemOK
<1>6. ASSUME c.link = "wait" PROVE AnswerOK(H \cup F, M, q, Head(c.chan))
  <2> DEFINE a == Head(c.chan)
  <2>1. AnswerOK(H, N, r, a)
    BY <1>2, <1>6
  <2>2. a.replid \in 1..M
    <3>1. 1..N \subseteq 1..M
      OBVIOUS
    <3> QED BY <2>1, <3>1 DEF AnswerOK
  <2>3. q.mode = r.mode /\ q.backlog = r.backlog /\ q.executed = r.executed
        /\ q.replid = r.replid /\ q.offset = r.offset
    BY DEF SameView
  <2>4. ASSUME q.mode = "psync", NEW h \in H \cup F, h[1] = q.replid, h[2] <= q.offset PROVE h \in H
    <3>1. h \in F => r.offset < h[2] /\ h[2] \in Int
      BY <2>3, <2>4 DEF Late
    <3>2. h \in F => ~(h[2] <= q.offset)
      BY <2>3, <3>1
    <3> QED BY <2>4, <3>2
  <2> HIDE DEF a
  <2> QED BY <2>1, <2>2, <2>3, <2>4 DEF AnswerOK, a
<1> QED BY <1>3, <1>4, <1>5, <1>6 DEF z

\* A connection that its master closes.
LEMMA LinkKicked ==
  ASSUME NEW H, NEW X, NEW N, NEW G, NEW c \in Connection(G), ChanOK(c), NEW r, NEW m,
         LinkData(H, X, N, c, r, m), NEW p
  PROVE  LinkData(H, X, N, Kicked(c), r, p)
<1> DEFINE d == Kicked(c)
<1>1. d.link = c.link /\ d.chan = Append(c.chan, Eof) /\ ~d.attached
  BY DEF Kicked, Connection
<1> HIDE DEF d
<1>2. Start(d, r) = Start(c, r) /\ Rest(d) = Append(Rest(c), Eof)
      /\ (c.link = "wait" => Head(d.chan) = Head(c.chan))
  <2>1. Rest(d) = Append(Rest(c), Eof) /\ (c.link = "wait" => Head(d.chan) = Head(c.chan))
    BY <1>1, RestAppend
  <2> QED BY <1>1, <2>1 DEF Start
<1>3. Rest(c) \in Seq(Messages(G))
  BY RestIs
<1>4. Eof.type # "cmd"
  BY DEF Eof
<1> SUFFICES ASSUME c.link # "down" PROVE LinkData(H, X, N, d, r, p)
  BY <1>1 DEF LinkData, d
<1>5. PendingOK(H, X, Start(c, r), Append(Rest(c), Eof))
  <2>1. PendingOK(H, X, Start(c, r), Rest(c))
    BY DEF LinkData
  <2> QED BY <1>3, <1>4, <2>1, PendingAppend
<1> QED BY <1>1, <1>2, <1>5 DEF LinkData

\* A command for a replica.
LEMMA LinkFed ==
  ASSUME NEW H, NEW X, NEW N, NEW G, NEW c \in Connection(G), ChanOK(c), c.attached, NEW r, NEW m,
         LinkData(H, X, N, c, r, m), NEW item, item.data = m.data,
         c.link # "down",
         NEW z, z = Start(c, r),
         z.mode = "xsync" => item.executed = m.executed,
         FactOK(H, X, z, Len(Rest(c)) + 1, item),
         NEW p, p.data = DataAfter(item), z.mode = "xsync" => p.executed = GtidsAfter(item),
         NEW d, d = [c EXCEPT !.chan = Append(@, Command(item))]
  PROVE  LinkData(H, X, N, d, r, p)
<1> DEFINE msg == Command(item)
           L == Rest(c)
<1>1. d.link = c.link /\ d.chan = Append(c.chan, msg) /\ d.attached
  BY DEF Connection
<1>2. msg.type = "cmd" /\ msg.item = item
  BY DEF Command
<1> HIDE DEF msg, L
<1>3. Start(d, r) = z /\ Rest(d) = Append(L, msg)
      /\ (c.link = "wait" => Head(d.chan) = Head(c.chan))
  <2>1. Rest(d) = Append(Rest(c), msg) /\ (c.link = "wait" => Head(d.chan) = Head(c.chan))
    BY <1>1, RestAppend
  <2>2. Start(d, r) = Start(c, r)
    BY <1>1, <2>1 DEF Start
  <2> QED BY <2>1, <2>2 DEF L
<1>4. L \in Seq(Messages(G)) /\ \A k \in 1..Len(L) : L[k].type = "cmd"
  BY RestIs DEF L
<1>5. Ends(z, L, m) /\ PendingOK(H, X, z, L)
  BY DEF LinkData, L
<1>6. L = << >> => FirstOK(z, item)
  BY <1>5 DEF Ends, FirstOK
<1>7. L # << >> => NextItemOK(z, L[Len(L)].item, item)
  BY <1>5 DEF Ends, NextItemOK
<1>8. PendingOK(H, X, z, Append(L, msg))
  BY <1>2, <1>4, <1>5, <1>6, <1>7, PendingAppend DEF L
<1>9. Ends(z, Append(L, msg), p)
  <2>1. Len(Append(L, msg)) = Len(L) + 1 /\ Append(L, msg)[Len(L) + 1] = msg
        /\ Append(L, msg) # << >>
    BY <1>4
  <2> QED BY <1>2, <2>1 DEF Ends, NextItemOK
<1> QED BY <1>1, <1>3, <1>8, <1>9 DEF LinkData

\* A replica that reads an answer.
LEMMA LinkAnswered ==
  ASSUME NEW H, NEW X, NEW N, NEW c, NEW r, NEW m, LinkData(H, X, N, c, r, m), c.link = "wait",
         NEW q, Standing(q) = Becomes(r, Head(c.chan)),
         NEW d, d.link = "up", d.chan = Tail(c.chan), d.attached = c.attached
  PROVE  LinkData(H, X, N, d, q, m)
<1>1. Start(d, q) = Start(c, r) /\ Rest(d) = Rest(c)
  BY DEF Start, Rest
<1> QED BY <1>1 DEF LinkData

\* A replica that reads a command.
LEMMA LinkRan ==
  ASSUME NEW H, NEW X, NEW N, NEW G, NEW c \in Connection(G), ChanOK(c), NEW r, NEW m,
         LinkData(H, X, N, c, r, m), c.link = "up", c.chan # << >>, NEW item,
         Head(c.chan).type = "cmd", item = Head(c.chan).item,
         r.mode \in {"psync", "xsync"}, r.offset \in Int,
         NEW q, q.mode = r.mode, q.replid = r.replid, q.offset = r.offset + 1,
         q.data = DataAfter(item), q.mode = "xsync" => q.executed = GtidsAfter(item),
         NEW d, d.link = "up", d.chan = Tail(c.chan), d.attached = c.attached
  PROVE  LinkData(H, X, N, d, q, m)
<1> DEFINE z == Standing(r)
           y == Standing(q)
           L == c.chan
           K == Tail(c.chan)
           n == Len(c.chan)
<1>1. /\ z.mode = r.mode /\ z.data = r.data /\ z.executed = r.executed /\ z.offset = r.offset
      /\ z.replid = r.replid /\ y.mode = r.mode /\ y.data = DataAfter(item)
      /\ y.mode = "xsync" => y.executed = GtidsAfter(item)
      /\ y.offset = r.offset + 1 /\ y.replid = r.replid
  BY DEF Standing
<1>2. Start(c, r) = z /\ Rest(c) = L /\ Start(d, q) = y /\ Rest(d) = K
  BY DEF Start, Rest
<1>3. /\ K \in Seq(Messages(G)) /\ Len(K) = n - 1 /\ n \in Nat /\ n >= 1
      /\ \A i \in 1..(n - 1) : K[i] = L[i + 1]
      /\ L[1].type = "cmd" /\ L[1].item = item
  <2>1. L[1] = Head(c.chan) /\ n \in Nat /\ n >= 1
    BY ConnectionTypes
  <2> QED BY <2>1, ChanTail
<1>4. StartOK(H, X, z) /\ PendingOK(H, X, z, L) /\ (c.attached => Ends(z, L, m))
  BY <1>2 DEF LinkData
<1>5. L # << >>
  OBVIOUS
<1>6. Len(L) = n
  OBVIOUS
<1> HIDE DEF z, y, L, K, n
<1>7. StartOK(H, X, y)
  <2>1. FactOK(H, X, z, 1, item)
    BY <1>3, <1>4, <1>6 DEF PendingOK
  <2> QED BY <1>1, <2>1 DEF FactOK, StartOK
<1>8. ASSUME NEW k \in 1..(n - 1), NEW i, FactOK(H, X, z, k + 1, i) PROVE FactOK(H, X, y, k, i)
  <2>1. z.offset + (k + 1) = y.offset + k
    <3>1. n \in Nat /\ k \in Int /\ z.offset = r.offset /\ y.offset = r.offset + 1
      BY <1>1, <1>3
    <3> QED BY <3>1
  <2> QED BY <1>1, <1>8, <2>1 DEF FactOK
<1>9. ASSUME NEW i, NEW j, NextItemOK(z, i, j) PROVE NextItemOK(y, i, j)
  BY <1>1, <1>9 DEF NextItemOK
<1>10. PendingOK(H, X, y, K)
  <2> SUFFICES ASSUME NEW k \in 1..(n - 1), K[k].type = "cmd"
               PROVE  /\ k = 1 => FirstOK(y, K[k].item)
                      /\ k > 1 /\ K[k - 1].type = "cmd" => NextItemOK(y, K[k - 1].item, K[k].item)
                      /\ FactOK(H, X, y, k, K[k].item)
    BY <1>3 DEF PendingOK
  <2>1. k + 1 \in 1..n /\ k + 1 > 1 /\ (k + 1) - 1 = k /\ k \in 1..n
        /\ (k > 1 => k - 1 \in 1..(n - 1) /\ (k - 1) + 1 = k)
    BY <1>3
  <2>2. K[k] = L[k + 1] /\ (k > 1 => K[k - 1] = L[k])
    BY <1>3, <2>1
  <2>3. L[k].type = "cmd" => NextItemOK(z, L[k].item, L[k + 1].item)
    BY <1>4, <1>6, <2>1, <2>2 DEF PendingOK
  <2>4. FactOK(H, X, z, k + 1, L[k + 1].item)
    BY <1>4, <1>6, <2>1, <2>2 DEF PendingOK
  <2>5. k = 1 => FirstOK(y, K[k].item)
    <3>1. k = 1 => NextItemOK(z, item, L[k + 1].item)
      BY <1>3, <2>3
    <3> QED BY <1>1, <2>2, <3>1 DEF NextItemOK, FirstOK
  <2>6. k > 1 /\ K[k - 1].type = "cmd" => NextItemOK(y, K[k - 1].item, K[k].item)
    BY <1>9, <2>2, <2>3
  <2> QED BY <1>8, <2>2, <2>4, <2>5, <2>6
<1>11. ASSUME c.attached PROVE Ends(y, K, m)
  <2>1. NextItemOK(z, L[n].item, m)
    BY <1>4, <1>5, <1>6, <1>11 DEF Ends
  <2>2. CASE K = << >>
    <3>1. Len(K) = 0
      BY <2>2
    <3>2. n = 1
      BY <1>3, <3>1
    <3>3. NextItemOK(z, item, m)
      BY <1>3, <2>1, <3>2
    <3> QED BY <1>1, <2>2, <3>3 DEF Ends, NextItemOK
  <2>3. CASE K # << >>
    <3>1. Len(K) # 0
      BY <1>3, <2>3, EmptySeq
    <3>2. n - 1 \in 1..(n - 1) /\ (n - 1) + 1 = n
      BY <1>3, <3>1
    <3>3. K[Len(K)] = L[n]
      BY <1>3, <3>2
    <3> QED BY <1>9, <2>1, <2>3, <3>3 DEF Ends
  <2> QED BY <2>2, <2>3
<1> QED BY <1>2, <1>7, <1>10, <1>11 DEF LinkData

----------------------------------------------------------------------------
(* A step of a server.                                                     *)

\* What the invariant says of a server and of its connection.
LEMMA DataIs ==
  ASSUME IInv, NEW H, NEW X, Data(H, X), NEW s \in Servers
  PROVE  /\ srv[s] \in ServerState(given) /\ conn[s] \in Connection(given)
         /\ StreamOK(srv[s]) /\ ChanOK(conn[s]) /\ given \in SUBSET Gtid
         /\ master[s] \in Servers \cup {None} /\ master[s] # s
         /\ master[s] = None => conn[s] = Closed /\ conn[s].link = "down" /\ ~conn[s].attached
         /\ conn[s].attached => conn[s].link # "down"
         /\ conn[s].link = "up" => srv[s].backlog
         /\ conn[s].link # "down" => master[s] \in Servers
         /\ ids \in Nat /\ ids + 1 \in Nat /\ Solo(s) \in BOOLEAN
         /\ ServerData(H, X, ids, srv[s]) /\ FactsOK(H, X, ids, given)
         /\ conn[s].link # "down" => LinkData(H, X, ids, conn[s], srv[s], srv[master[s]])
         /\ HasPsync(srv[s]) => PsyncIds(srv[s]).off2 \in Int
         /\ srv[s].offset \in Int /\ srv[s].mode \in {"psync", "xsync"}
         /\ \A h \in H : h[2] \in Int /\ h[1] \in 1..ids /\ h = <<h[1], h[2], h[3]>>
                         /\ h[3] \in Seq(Nat)
<1>1. /\ srv[s] \in ServerState(given) /\ conn[s] \in Connection(given)
      /\ StreamOK(srv[s]) /\ given \in SUBSET Gtid
      /\ master[s] \in Servers \cup {None} /\ master[s] # s
      /\ master[s] = None => conn[s] = Closed
      /\ conn[s].link # "down" => master[s] \in Servers
      /\ Linked(conn[s], srv[s], srv[master[s]], MasterUuid(master[s]))
      /\ ids \in Nat /\ ids + 1 \in Nat
  BY ServerIs
<1>2. ChanOK(conn[s]) /\ (conn[s].link = "up" => srv[s].backlog)
  BY <1>1 DEF Linked
<1>3. Closed.link = "down" /\ ~Closed.attached
  BY ClosedIs
<1>4. conn[s].attached => conn[s].link # "down"
  BY <1>2, <1>3 DEF ChanOK
<1>5. ServerData(H, X, ids, srv[s]) /\ FactsOK(H, X, ids, given)
  BY DEF Data
<1>6. conn[s].link # "down" => LinkData(H, X, ids, conn[s], srv[s], srv[master[s]])
  <2>1. conn[s].link # "down" => master[s] # None
    BY <1>1, ConstantsAssumption
  <2> QED BY <2>1 DEF Data
<1>7. (HasPsync(srv[s]) => PsyncIds(srv[s]).off2 \in Int) /\ srv[s].offset \in Int
      /\ srv[s].mode \in {"psync", "xsync"}
  BY <1>1, FieldTypes
<1>8. \A h \in H : h[2] \in Int /\ h[1] \in 1..ids /\ h = <<h[1], h[2], h[3]>>
                   /\ h[3] \in Seq(Nat)
  BY <1>5 DEF FactsOK
<1>9. Solo(s) \in BOOLEAN
  BY DEF Solo
<1> QED BY <1>1, <1>2, <1>3, <1>4, <1>5, <1>6, <1>7, <1>8, <1>9

\* A server r, after s, that may extend the history of an id could do so before
\* or has made the id.
KeepsSolo(s, r, solo) ==
    solo => \/ r.replid = ids + 1
            \/ /\ Solo(s) /\ r.replid = srv[s].replid
               /\ r.mode = "psync" => /\ srv[s].mode = "psync" /\ srv[s].offset <= r.offset
                                      /\ srv[s].backlog => r.backlog

\* The second id of r is the one of s, or names what nobody touches.
KeepsSecond(s, r, solo) ==
    HasPsync(r) =>
       LET p == PsyncIds(r)
       IN  \/ p.replid2 = NoId
           \/ HasPsync(srv[s]) /\ p.replid2 = PsyncIds(srv[s]).replid2
                               /\ p.off2 = PsyncIds(srv[s]).off2
           \/ /\ \A t \in Servers : t # s => Settled(p, srv[t], Solo(t))
              /\ Settled(p, r, solo)

\* A replica t of another server than itself sees nothing of s that becomes r,
\* or is disconnected.
Undisturbed(s, t, r) ==
    \/ /\ conn'[t] = conn[t]
       /\ t \in Slaves(s) => r.data = srv[s].data /\ r.executed = srv[s].executed
    \/ conn'[t] = Kicked(conn[t]) /\ t \in Slaves(s)

\* The master of a server t, or t itself.
Up(t) == IF master[t] = None THEN t ELSE master[t]

\* Such a step is right, part by part.
LEMMA DataStepTo ==
  ASSUME IInv, NEW H, NEW X, Data(H, X), NEW F, NEW Y, NEW s \in Servers, NEW r,
         srv' = [srv EXCEPT ![s] = r],
         \A t \in Servers : t # s => master'[t] = master[t],
         ids' \in Nat, ids <= ids',
         FactsOK(H \cup F, X \cup Y, ids', given'),
         \A t \in Servers : t # s => Late(F, srv[t], Solo(t)),
         NEW solo, solo = (master'[s] = None \/ ~r.backlog),
         KeepsSolo(s, r, solo), KeepsSecond(s, r, solo),
         r.offset \in Int,
         master'[s] = None /\ r.mode = "psync" =>
            \A h \in H \cup F : h[1] = r.replid => h[2] <= r.offset,
         ServerData(H \cup F, X \cup Y, ids', r),
         \A t \in Servers : t # s => \/ Undisturbed(s, t, r)
                                     \/ LinkData(H \cup F, X \cup Y, ids', conn'[t], srv'[t], srv'[Up(t)]),
         LinkData(H \cup F, X \cup Y, ids', conn'[s], r, srv'[Up(s)'])
  PROVE  Data(H \cup F, X \cup Y)'
<1> DEFINE K == H \cup F
           Z == X \cup Y
<1>0. \A f \in F : f[2] \in Int
  BY DEF FactsOK
<1>1. srv'[s] = r /\ \A t \in Servers : t # s => srv'[t] = srv[t]
  BY DEF IInv, Typed
<1>2. \A t \in Servers : t # s => Solo(t)' = Solo(t) /\ Up(t)' = Up(t)
  BY <1>1 DEF Solo, Up
<1>3. Solo(s)' = solo
  BY <1>1 DEF Solo
<1>4. ASSUME NEW t \in Servers, t # s PROVE ServerData(K, Z, ids', srv'[t])
  <2>1. srv[t].mode = "psync" /\ ~srv[t].backlog => Solo(t)
    BY DEF Solo
  <2>2. /\ ids \in Nat /\ Solo(t) \in BOOLEAN /\ ServerData(H, X, ids, srv[t])
        /\ HasPsync(srv[t]) => PsyncIds(srv[t]).off2 \in Int
    BY DataIs
  <2>3. ServerData(K, Z, ids', srv[t])
    BY <1>0, <1>4, <2>1, <2>2, ServerGrows
  <2> QED BY <1>1, <1>4, <2>3
<1>5. ASSUME NEW t \in Servers, t # s, Undisturbed(s, t, r)
      PROVE  LinkData(K, Z, ids', conn'[t], srv'[t], srv'[Up(t)])
  <2> DEFINE c == conn[t]
             m == srv[master[t]]
  <2>1. /\ c \in Connection(given) /\ ChanOK(c) /\ ids \in Nat /\ Solo(t) \in BOOLEAN
        /\ srv[t].offset \in Int /\ master[t] \in Servers \cup {None}
        /\ c.link # "down" => LinkData(H, X, ids, c, srv[t], m) /\ master[t] \in Servers
        /\ c.attached => c.link # "down"
    BY DataIs
  <2>2. CASE c.link = "down"
    <3>1. t \notin Slaves(s)
      BY <2>1, <2>2 DEF Slaves
    <3> QED BY <1>5, <2>2, <3>1 DEF Undisturbed, LinkData
  <2>3. CASE c.link # "down"
    <3>1. Up(t) = master[t]
      BY <2>1, <2>3, ConstantsAssumption DEF Up
    <3>2. SameView(srv[t], srv[t])
      BY DEF SameView
    <3>3. CASE conn'[t] = c /\ (t \in Slaves(s) => r.data = srv[s].data /\ r.executed = srv[s].executed)
      <4>1. c.attached => srv'[master[t]].data = m.data /\ srv'[master[t]].executed = m.executed
        BY <1>1, <2>1, <2>3, <3>3 DEF Slaves
      <4>2. LinkData(K, Z, ids', c, srv[t], srv'[master[t]])
        <5> HIDE DEF c, m
        <5> QED BY <1>0, <1>5, <2>1, <2>3, <3>2, <4>1, LinkGrows
      <4> QED BY <1>1, <1>5, <3>1, <3>3, <4>2
    <3>4. CASE conn'[t] = Kicked(c)
      <4>1. LinkData(K, Z, ids', c, srv[t], m)
        <5> HIDE DEF c, m
        <5> QED BY <1>0, <1>5, <2>1, <2>3, <3>2, LinkGrows
      <4>2. LinkData(K, Z, ids', Kicked(c), srv[t], srv'[Up(t)])
        <5> HIDE DEF c, m
        <5> QED BY <2>1, <4>1, LinkKicked
      <4> QED BY <1>1, <1>5, <3>4, <4>2
    <3> QED BY <1>5, <3>3, <3>4 DEF Undisturbed
  <2> QED BY <2>2, <2>3
<1>6. \A t \in Servers : LinkData(K, Z, ids', conn'[t], srv'[t], srv'[Up(t)'])
  BY <1>1, <1>2, <1>5
<1>7. \A t \in Servers : ServerData(K, Z, ids', srv'[t])
  BY <1>1, <1>4
<1>8. ASSUME NEW t \in Servers, NEW u \in Servers, t # u, Solo(t)', Solo(u)'
      PROVE  srv'[t].replid # srv'[u].replid
  <2>1. ASSUME NEW v \in Servers, v # s, Solo(v), solo PROVE r.replid # srv[v].replid
    <3>1. srv[v].replid \in 1..ids /\ ids \in Nat
      BY DataIs DEF ServerData, IdsOK
    <3>2. ids + 1 \notin 1..ids
      BY <3>1
    <3> QED BY <2>1, <3>1, <3>2 DEF KeepsSolo, Data, SoloOK
  <2>2. CASE t = s
    BY <1>1, <1>2, <1>3, <1>8, <2>1, <2>2
  <2>3. CASE u = s
    BY <1>1, <1>2, <1>3, <1>8, <2>1, <2>3
  <2>4. CASE t # s /\ u # s
    BY <1>1, <1>2, <1>8, <2>4 DEF Data, SoloOK
  <2> QED BY <2>2, <2>3, <2>4
<1>9. ASSUME NEW t \in Servers, master'[t] = None, srv'[t].mode = "psync", NEW h \in K,
             h[1] = srv'[t].replid
      PROVE  h[2] <= srv'[t].offset
  <2>1. CASE t = s
    BY <1>1, <1>9, <2>1
  <2>2. CASE t # s
    <3>1. srv'[t] = srv[t] /\ Solo(t) /\ master[t] = None
      BY <1>1, <1>9, <2>2 DEF Solo
    <3>2. h \notin F
      BY <1>9, <2>2, <3>1 DEF Late
    <3> QED BY <1>9, <3>1, <3>2 DEF Data, SoloOK
  <2> QED BY <2>1, <2>2
<1>10. ASSUME NEW p, NEW t \in Servers, p.replid2 \in 0..ids, p.off2 \in Int,
              Settled(p, srv[t], Solo(t))
       PROVE  Settled(p, srv'[t], Solo(t)')
  <2>1. CASE t # s
    BY <1>1, <1>2, <1>10, <2>1
  <2>2. CASE t = s
    <3> SUFFICES ASSUME p.replid2 # NoId, solo, r.mode = "psync", r.replid = p.replid2
                 PROVE  r.backlog /\ p.off2 <= r.offset + 1
      BY <1>1, <1>3, <2>2 DEF Settled
    <3>1. ids \in Nat /\ srv[s].offset \in Int
      BY DataIs
    <3>2. ids + 1 \notin 0..ids
      BY <3>1
    <3>3. /\ Solo(s) /\ r.replid = srv[s].replid /\ srv[s].mode = "psync"
          /\ srv[s].offset <= r.offset /\ (srv[s].backlog => r.backlog)
      BY <1>10, <3>2 DEF KeepsSolo
    <3>4. srv[s].backlog /\ p.off2 <= srv[s].offset + 1
      BY <1>10, <2>2, <3>3 DEF Settled
    <3> QED BY <1>10, <3>1, <3>3, <3>4
  <2> QED BY <2>1, <2>2
<1>11. ASSUME NEW t \in Servers, HasPsync(srv[t])
       PROVE  /\ PsyncIds(srv[t]).replid2 \in 0..ids /\ PsyncIds(srv[t]).off2 \in Int
              /\ \A u \in Servers : Settled(PsyncIds(srv[t]), srv[u], Solo(u))
  <2>1. IdsOK(ids, srv[t]) /\ PsyncIds(srv[t]).off2 \in Int
    BY <1>11, DataIs DEF ServerData
  <2>2. srv[t].mode = "psync" \/ srv[t].prev # Unset
    BY <1>11 DEF HasPsync, Unset
  <2>3. PsyncIds(srv[t]).replid2 \in 0..ids
    BY <2>1, <2>2 DEF IdsOK, PsyncIds
  <2> QED BY <1>11, <2>1, <2>3 DEF Data, SoloOK
<1>12. ASSUME NEW t \in Servers, NEW u \in Servers, HasPsync(srv'[t])
       PROVE  Settled(PsyncIds(srv'[t]), srv'[u], Solo(u)')
  <2>1. CASE t # s
    <3>1. srv'[t] = srv[t]
      BY <1>1, <2>1
    <3> QED BY <1>10, <1>11, <1>12, <3>1
  <2>2. CASE t = s
    <3> DEFINE p == PsyncIds(r)
    <3>1. srv'[t] = r /\ HasPsync(r)
      BY <1>1, <1>12, <2>2
    <3>2. CASE p.replid2 = NoId
      BY <3>1, <3>2 DEF Settled
    <3>3. CASE HasPsync(srv[s]) /\ p.replid2 = PsyncIds(srv[s]).replid2
               /\ p.off2 = PsyncIds(srv[s]).off2
      <4>1. Settled(PsyncIds(srv[s]), srv'[u], Solo(u)')
        BY <1>10, <1>11, <3>3
      <4> QED BY <3>1, <3>3, <4>1 DEF Settled
    <3>4. CASE /\ \A v \in Servers : v # s => Settled(p, srv[v], Solo(v))
               /\ Settled(p, r, solo)
      BY <1>1, <1>2, <1>3, <3>1, <3>4
    <3> QED BY <3>1, <3>2, <3>3, <3>4 DEF KeepsSecond
  <2> QED BY <2>1, <2>2
<1>13. SoloOK(K)'
  BY <1>8, <1>9, <1>12 DEF SoloOK
<1> HIDE DEF K, Z
<1>14. FactsOK(K, Z, ids', given')
  BY DEF K, Z
<1>15. Data(K, Z)'
  BY <1>6, <1>7, <1>13, <1>14 DEF Data, Up
<1> QED BY <1>15 DEF K, Z

\* A server s that becomes r, with the facts F and Y it adds.
Advances(H, X, F, Y, s, r) ==
    /\ srv' = [srv EXCEPT ![s] = r]
    /\ \A t \in Servers : t # s => master'[t] = master[t]
    /\ ids' \in Nat /\ ids <= ids'
    /\ FactsOK(H \cup F, X \cup Y, ids', given')
    /\ \A t \in Servers : t # s => Late(F, srv[t], Solo(t))
    /\ KeepsSolo(s, r, master'[s] = None \/ ~r.backlog)
    /\ KeepsSecond(s, r, master'[s] = None \/ ~r.backlog)
    /\ r.offset \in Int
    /\ master'[s] = None /\ r.mode = "psync" =>
          \A h \in H \cup F : h[1] = r.replid => h[2] <= r.offset
    /\ ServerData(H \cup F, X \cup Y, ids', r)
    /\ \A t \in Servers : t # s =>
          \/ Undisturbed(s, t, r)
          \/ LinkData(H \cup F, X \cup Y, ids', conn'[t], srv'[t], srv'[Up(t)])
    /\ LinkData(H \cup F, X \cup Y, ids', conn'[s], r, srv'[Up(s)'])

\* A step of one server, with new facts F and Y, preserves the invariant.
LEMMA DataStep ==
  ASSUME IInv, NEW H, NEW X, Data(H, X), NEW F, NEW Y, NEW s \in Servers, NEW r,
         Advances(H, X, F, Y, s, r)
  PROVE  \E K, Z : Data(K, Z)'
<1> DEFINE solo == master'[s] = None \/ ~r.backlog
<1>a. /\ srv' = [srv EXCEPT ![s] = r]
      /\ \A t \in Servers : t # s => master'[t] = master[t]
      /\ ids' \in Nat /\ ids <= ids'
      /\ FactsOK(H \cup F, X \cup Y, ids', given')
      /\ \A t \in Servers : t # s => Late(F, srv[t], Solo(t))
      /\ KeepsSolo(s, r, solo) /\ KeepsSecond(s, r, solo)
      /\ r.offset \in Int
      /\ master'[s] = None /\ r.mode = "psync" =>
            \A h \in H \cup F : h[1] = r.replid => h[2] <= r.offset
      /\ ServerData(H \cup F, X \cup Y, ids', r)
      /\ \A t \in Servers : t # s =>
            \/ Undisturbed(s, t, r)
            \/ LinkData(H \cup F, X \cup Y, ids', conn'[t], srv'[t], srv'[Up(t)])
      /\ LinkData(H \cup F, X \cup Y, ids', conn'[s], r, srv'[Up(s)'])
  BY DEF Advances
<1>b. solo = (master'[s] = None \/ ~r.backlog)
  OBVIOUS
<1> HIDE DEF solo
<1>c. Data(H \cup F, X \cup Y)'
  BY <1>a, <1>b, DataStepTo
<1> QED BY <1>c

----------------------------------------------------------------------------
(* The facts a step adds.                                                  *)

\* New facts that contradict none.
LEMMA FactsNew ==
  ASSUME NEW H, NEW X, NEW N \in Nat, NEW G, FactsOK(H, X, N, G),
         NEW M \in Nat, N <= M, NEW K, G \subseteq K,
         NEW F \in SUBSET ((1..M) \X Int \X Seq(Nat)),
         \A f \in F : \A h \in H \cup F : f[1] = h[1] /\ f[2] = h[2] => f = h,
         NEW Y \in SUBSET ((SUBSET K) \X Seq(Nat)),
         \A y \in Y : \A x \in X \cup Y : y[1] = x[1] => y = x
  PROVE  FactsOK(H \cup F, X \cup Y, M, K)
<1>1. H \subseteq (1..M) \X Int \X Seq(Nat)
  <2>1. 1..N \subseteq 1..M
    OBVIOUS
  <2> QED BY <2>1 DEF FactsOK
<1>2. X \subseteq (SUBSET K) \X Seq(Nat)
  <2>1. SUBSET G \subseteq SUBSET K
    OBVIOUS
  <2> QED BY <2>1 DEF FactsOK
<1>3. \A h, g \in H \cup F : h[1] = g[1] /\ h[2] = g[2] => h = g
  BY DEF FactsOK
<1>4. \A x, y \in X \cup Y : x[1] = y[1] => x = y
  BY DEF FactsOK
<1> QED BY <1>1, <1>2, <1>3, <1>4 DEF FactsOK

\* None at all.
LEMMA FactsSame ==
  ASSUME IInv, NEW H, NEW X, Data(H, X), ids' \in Nat, ids <= ids', given \subseteq given'
  PROVE  FactsOK(H \cup {}, X \cup {}, ids', given')
<1>1. FactsOK(H, X, ids, given) /\ ids \in Nat
  BY DEF Data, IInv, Typed
<1>2. /\ {} \in SUBSET ((1..ids') \X Int \X Seq(Nat))
      /\ {} \in SUBSET ((SUBSET given') \X Seq(Nat))
  OBVIOUS
<1> QED BY <1>1, <1>2, FactsNew

\* A server that may extend its own history extends nobody else's past.
LEMMA LateOwn ==
  ASSUME IInv, NEW H, NEW X, Data(H, X), NEW s \in Servers, Solo(s), srv[s].mode = "psync",
         NEW o \in Int, NEW d, srv[s].backlog => o = srv[s].offset + 1,
         NEW t \in Servers, t # s
  PROVE  Late({<<srv[s].replid, o, d>>}, srv[t], Solo(t))
<1> DEFINE r == srv[s]
           p == srv[t]
<1>1. /\ r.offset \in Int /\ p.offset \in Int /\ p.mode \in {"psync", "xsync"}
      /\ ServerData(H, X, ids, r) /\ ServerData(H, X, ids, p)
      /\ HasPsync(p) => PsyncIds(p).off2 \in Int
      /\ p \in ServerState(given) /\ StreamOK(p)
      /\ \A h \in H : h[2] \in Int
  BY DataIs
<1>2. ASSUME p.mode = "psync", p.replid = r.replid PROVE ~Solo(t) /\ p.offset < o
  <2>1. ~Solo(t)
    BY <1>2 DEF Data, SoloOK
  <2>2. <<r.replid, p.offset, p.data>> \in H
    <3>1. /\ p.offset \in Window(p) /\ DataAt(p, p.offset) = p.data /\ InPsync(p, p.offset)
      BY <1>1, <1>2, OffsetIs
    <3>2. PsyncIds(p) = p /\ p.backlog
      BY <1>2, <2>1 DEF PsyncIds, Solo
    <3> QED BY <1>1, <1>2, <3>1, <3>2 DEF ServerData, IdFacts
  <2>3. r.backlog
    BY <1>1, <2>2 DEF ServerData
  <2>4. master[s] = None
    BY <2>3 DEF Solo
  <2>5. p.offset <= r.offset
    BY <2>2, <2>4 DEF Data, SoloOK
  <2> QED BY <1>1, <2>1, <2>3, <2>5
<1>3. ASSUME HasPsync(p), r.replid = PsyncIds(p).replid2, PsyncIds(p).replid2 # NoId
      PROVE  PsyncIds(p).off2 <= o
  <2>1. Settled(PsyncIds(p), r, Solo(s))
    BY <1>3 DEF Data, SoloOK
  <2> QED BY <1>3, <2>1 DEF Settled
<1> QED BY <1>2, <1>3 DEF Late

\* A new id is nobody's past.
LEMMA LateNew ==
  ASSUME IInv, NEW H, NEW X, Data(H, X), NEW F, \A f \in F : f[1] = ids + 1,
         NEW t \in Servers
  PROVE  Late(F, srv[t], Solo(t))
<1> DEFINE p == srv[t]
<1>1. ids \in Nat /\ IdsOK(ids, p) /\ p \in ServerState(given)
  BY DataIs DEF ServerData
<1>2. ids + 1 \notin 0..ids /\ ids + 1 \notin 1..ids
  BY <1>1
<1>3. HasPsync(p) => p.mode = "psync" \/ p.prev # Unset
  BY DEF HasPsync, Unset
<1>4. HasPsync(p) => PsyncIds(p).replid2 \in 0..ids
  BY <1>1, <1>3 DEF IdsOK, PsyncIds
<1>5. p.replid \in 1..ids
  BY <1>1 DEF IdsOK
<1> QED BY <1>2, <1>4, <1>5 DEF Late

\* No fact at all is nobody's.
LEMMA LateNone == \A p, solo : Late({}, p, solo)
BY DEF Late

\* What an attached replica of a server q starts from, and how far it is.
LEMMA StartAligned ==
  ASSUME NEW G, NEW c \in Connection(G), NEW r \in ServerState(G), NEW q \in ServerState(G),
         NEW mu, Linked(c, r, q, mu), c.attached, StreamOK(r), StreamOK(q), ShapeOK(r),
         NEW z, z = Start(c, r)
  PROVE  /\ z.mode = q.mode /\ z.replid = q.replid
         /\ q.mode = "psync" => z.offset + Len(Rest(c)) = q.offset
<1>1. /\ ChanOK(c) /\ c.link \in {"down", "wait", "up"} /\ Len(c.chan) \in Nat
      /\ Rest(c) \in Seq(Messages(G))
      /\ Len(Rest(c)) = IF c.link = "wait" THEN Len(c.chan) - 1 ELSE Len(c.chan)
  BY ConnectionTypes, RestIs DEF Linked
<1>2. c.link # "down"
  BY <1>1, ClosedIs DEF ChanOK
<1>3. /\ r.offset \in Int /\ q.offset \in Int /\ r.delta \in Int /\ q.delta \in Int
      /\ r.mode \in Modes /\ q.mode \in Modes
      /\ r.mode = "psync" => r.delta = 0 /\ ~r.stale
      /\ q.mode = "psync" => q.delta = 0
  BY ServerTypes DEF StreamOK, ShapeOK
<1>4. CASE c.link = "up"
  <2>1. Following(r, q, mu, Len(c.chan))
    BY <1>4 DEF Linked
  <2>2. z = Standing(r)
    BY <1>4 DEF Start
  <2>3. z.mode = r.mode /\ z.replid = r.replid /\ z.offset = r.offset
    BY <2>2 DEF Standing
  <2>4. r.mode = q.mode /\ r.replid = q.replid
    BY <2>1 DEF Following
  <2>5. q.mode = "psync" => r.offset + Len(c.chan) = q.offset
    BY <1>3, <1>1, <2>1, <2>4 DEF Following, MasterReploff
  <2> QED BY <1>1, <1>4, <2>3, <2>4, <2>5
<1>5. CASE c.link = "wait"
  <2> DEFINE a == Head(c.chan)
  <2>1. Answered(a, r, q, mu, Len(c.chan) - 1)
    BY <1>5 DEF Linked
  <2>2. z = Becomes(r, a)
    BY <1>5 DEF Start
  <2>3. a \in Messages(G) /\ a.type \in Answer
    BY <1>1, <1>5, RestIs
  <2>4. a.reploff \in Int
    BY <2>3, MessageTypes DEF Answer
  <2> HIDE DEF a
  <2>5. /\ z.mode = (IF a.type \in {"continue", "fullresync"} THEN "psync" ELSE "xsync")
        /\ z.replid = a.replid
        /\ z.offset = (IF a.type = "xcontinue" \/ (a.type = "continue" /\ r.mode = "psync")
                       THEN r.offset ELSE a.reploff)
    BY <2>2 DEF Becomes
  <2>6. z.mode = q.mode /\ z.replid = q.replid
    BY <2>1, <2>5 DEF Answered
  <2>7. q.mode = "psync" => a.type \in {"continue", "fullresync"}
    BY <2>1, <2>3 DEF Answered
  <2>8. q.mode = "psync" => z.offset + (Len(c.chan) - 1) = q.offset
    <3>1. q.mode = "psync" => a.type # "xcontinue"
      BY <2>7
    <3> QED BY <1>1, <1>3, <2>1, <2>4, <2>5, <3>1 DEF Answered, MasterReploff
  <2> QED BY <1>1, <1>5, <2>6, <2>8
<1> QED BY <1>1, <1>2, <1>4, <1>5

\* A server that kicks its replicas disturbs no other's.
LEMMA KickUndisturbed ==
  ASSUME IInv, NEW s \in Servers, NEW t \in Servers, NEW r, conn'[t] = Kick(conn, s)[t]
  PROVE  Undisturbed(s, t, r)
BY KickIs DEF Undisturbed

----------------------------------------------------------------------------
(* Actions.                                                                *)

\* The link of a server that sees no difference, or is closed.
LEMMA OwnLink ==
  ASSUME IInv, NEW H, NEW X, Data(H, X), NEW s \in Servers, NEW r, SameView(srv[s], r),
         ids' \in Nat, ids <= ids', NEW F, NEW Y, \A f \in F : f[2] \in Int,
         NEW solo \in BOOLEAN, Late(F, srv[s], solo),
         srv' = [srv EXCEPT ![s] = r],
         \/ conn'[s] = Closed
         \/ conn'[s] = conn[s] /\ master'[s] = master[s]
  PROVE  LinkData(H \cup F, X \cup Y, ids', conn'[s], r, srv'[Up(s)'])
<1>1. CASE conn'[s] = Closed
  BY <1>1, ClosedIs DEF LinkData
<1>2. CASE conn'[s] = conn[s] /\ master'[s] = master[s]
  <2> DEFINE c == conn[s]
  <2>1. /\ ids \in Nat /\ srv[s].offset \in Int /\ master[s] # s
        /\ c.link # "down" => LinkData(H, X, ids, c, srv[s], srv[master[s]]) /\ master[s] \in Servers
    BY DataIs
  <2>2. CASE c.link = "down"
    BY <1>2, <2>2 DEF LinkData
  <2>3. CASE c.link # "down"
    <3>1. Up(s)' = master[s] /\ srv'[master[s]] = srv[master[s]]
      BY <1>2, <2>1, <2>3, ConstantsAssumption DEF Up
    <3>2. LinkData(H \cup F, X \cup Y, ids', c, r, srv[master[s]])
      <4> HIDE DEF c
      <4> QED BY <2>1, <2>3, LinkGrows
    <3> QED BY <1>2, <3>1, <3>2
  <2> QED BY <2>2, <2>3
<1> QED BY <1>1, <1>2

\* A server whose past is what it was, and that is nobody's master but of those
\* it was.
LEMMA ViewStep ==
  ASSUME IInv, NEW H, NEW X, Data(H, X), NEW s \in Servers, NEW r, SameView(srv[s], r),
         srv' = [srv EXCEPT ![s] = r],
         \A t \in Servers : t # s => /\ master'[t] = master[t]
                                     /\ conn'[t] = conn[t] \/ conn'[t] = Kick(conn, s)[t],
         \/ conn'[s] = Closed /\ (master'[s] = master[s] \/ master'[s] # None)
         \/ conn'[s] = conn[s] /\ master'[s] = master[s],
         ids' = ids, given' = given
  PROVE  \E K, Z : Data(K, Z)'
<1> DEFINE solo == master'[s] = None \/ ~r.backlog
<1>1. /\ ids \in Nat /\ srv[s].offset \in Int /\ ServerData(H, X, ids, srv[s])
      /\ Solo(s) \in BOOLEAN
  BY DataIs
<1>2. ids' \in Nat /\ ids <= ids'
  BY <1>1
<1>3. /\ r.mode = srv[s].mode /\ r.replid = srv[s].replid /\ r.backlog = srv[s].backlog
      /\ r.offset = srv[s].offset /\ r.data = srv[s].data /\ r.executed = srv[s].executed
  BY DEF SameView
<1>4. ServerData(H, X, ids, r) /\ HasPsync(r) = HasPsync(srv[s])
      /\ PsyncIds(r).replid2 = PsyncIds(srv[s]).replid2 /\ PsyncIds(r).off2 = PsyncIds(srv[s]).off2
  BY <1>1, SameViewData
<1>5. solo => Solo(s)
  BY <1>3 DEF Solo
<1>6. KeepsSolo(s, r, solo)
  BY <1>1, <1>3, <1>5 DEF KeepsSolo
<1>7. KeepsSecond(s, r, solo)
  BY <1>4 DEF KeepsSecond
<1>8. \A t \in Servers : t # s => Undisturbed(s, t, r)
  <2> SUFFICES ASSUME NEW t \in Servers, t # s PROVE Undisturbed(s, t, r)
    OBVIOUS
  <2>1. CASE conn'[t] = conn[t]
    BY <1>3, <2>1 DEF Undisturbed
  <2>2. CASE conn'[t] = Kick(conn, s)[t]
    BY <2>2, KickUndisturbed
  <2> QED BY <2>1, <2>2
<1>9. master'[s] = None /\ r.mode = "psync" =>
         \A h \in H \cup {} : h[1] = r.replid => h[2] <= r.offset
  BY <1>3 DEF Data, SoloOK
<1>10. FactsOK(H \cup {}, X \cup {}, ids', given')
  BY <1>2, FactsSame
<1>11. LinkData(H \cup {}, X \cup {}, ids', conn'[s], r, srv'[Up(s)'])
  BY <1>1, <1>2, LateNone, OwnLink
<1>12. ServerData(H \cup {}, X \cup {}, ids', r)
  <2>1. H \cup {} = H /\ X \cup {} = X
    OBVIOUS
  <2> QED BY <1>4, <2>1
<1>13. r.offset \in Int
  BY <1>1, <1>3
<1>14. \A t \in Servers : t # s => Late({}, srv[t], Solo(t))
  BY LateNone
<1>15. Advances(H, X, {}, {}, s, r)
  BY <1>2, <1>6, <1>7, <1>8, <1>9, <1>10, <1>11, <1>12, <1>13, <1>14 DEF Advances
<1> QED BY <1>15, DataStep

\* A flag is no part of the past.
LEMMA FlagView ==
  ASSUME NEW G, NEW r \in ServerState(G), NEW b, NEW q \in Flags(r, b)
  PROVE  SameView(r, q)
BY DEF Flags, ServerState, SameView

\* The indicator of a wrong type, and the request of a full resync.
LEMMA WrongTypeData ==
  ASSUME IInv, NEW H, NEW X, Data(H, X), NEW s \in Servers,
         WrongType(s) \/ forceXsyncFullResyncIfNeeded(s)
  PROVE  \E K, Z : Data(K, Z)'
<1>0. srv \in [Servers -> ServerState(given)] /\ conn \in [Servers -> Connection(given)]
  BY DEF IInv, Typed
<1>1. CASE WrongType(s)
  <2> DEFINE r == [srv[s] EXCEPT !.wrong = TRUE]
  <2>1. srv' = [srv EXCEPT ![s] = r] /\ conn' = conn /\ UNCHANGED <<master, ids, given>>
    BY <1>0, <1>1 DEF WrongType, history
  <2>2. SameView(srv[s], r)
    BY <1>0, FlagView DEF Flags
  <2> HIDE DEF r
  <2> QED BY <2>1, <2>2, ViewStep
<1>2. CASE forceXsyncFullResyncIfNeeded(s)
  <2> DEFINE r == [srv[s] EXCEPT !.wrong = FALSE, !.force = TRUE]
  <2>1. srv' = [srv EXCEPT ![s] = r]
        /\ (conn' = conn \/ conn' = [conn EXCEPT ![s] = Closed])
        /\ UNCHANGED <<master, ids, given>>
    BY <1>0, <1>2 DEF forceXsyncFullResyncIfNeeded, history, bounds
  <2>2. SameView(srv[s], r)
    BY <1>0, FlagView DEF Flags
  <2> HIDE DEF r
  <2>3. \A t \in Servers : t # s => conn'[t] = conn[t]
    BY <1>0, <2>1
  <2>4. conn'[s] = Closed \/ conn'[s] = conn[s]
    BY <1>0, <2>1
  <2> QED BY <2>1, <2>2, <2>3, <2>4, ViewStep
<1> QED BY <1>1, <1>2

\* A closed connection.
LEMMA CloseData ==
  ASSUME IInv, NEW H, NEW X, Data(H, X), NEW s \in Servers, BreakLink(s) \/ ReadEof(s)
  PROVE  \E K, Z : Data(K, Z)'
<1>1. /\ srv' = srv /\ conn' = [conn EXCEPT ![s] = Closed] /\ UNCHANGED <<master, ids, given>>
  BY DEF BreakLink, ReadEof, history, bounds
<1>2. conn \in [Servers -> Connection(given)]
  BY DEF IInv, Typed
<1>3. srv' = [srv EXCEPT ![s] = srv[s]] /\ SameView(srv[s], srv[s])
  BY <1>1, SameIs DEF SameView
<1>4. conn'[s] = Closed /\ \A t \in Servers : t # s => conn'[t] = conn[t]
  BY <1>1, <1>2
<1> QED BY <1>1, <1>3, <1>4, ViewStep

\* Another master: nobody knows more or less.
LEMMA ReplicaOfData ==
  ASSUME IInv, NEW H, NEW X, Data(H, X), NEW s \in Servers, NEW m \in Servers, ReplicaOf(s, m)
  PROVE  \E K, Z : Data(K, Z)'
<1>1. /\ srv' = srv /\ conn' = [Kick(conn, s) EXCEPT ![s] = Closed]
      /\ ids' = ids /\ master' = [master EXCEPT ![s] = m] /\ given' = given
  BY DEF ReplicaOf, history
<1>2. master \in [Servers -> Servers \cup {None}] /\ None \notin Servers
  BY ConstantsAssumption DEF IInv, Typed
<1>3. master'[s] # None /\ \A t \in Servers : t # s => master'[t] = master[t]
  BY <1>1, <1>2
<1>4. conn'[s] = Closed /\ \A t \in Servers : t # s => conn'[t] = Kick(conn, s)[t]
  BY <1>1, KickIs
<1>5. srv' = [srv EXCEPT ![s] = srv[s]] /\ SameView(srv[s], srv[s])
  BY <1>1, SameIs DEF SameView
<1> QED BY <1>1, <1>3, <1>4, <1>5, ViewStep

\* A master that turns to the mode gtid-enabled asks for, and disconnects its
\* replicas.
LEMMA SwitchStep ==
  ASSUME IInv, NEW H, NEW X, Data(H, X), NEW s \in Servers, NEW r \in ServerState(given),
         SameView(srv[s], r), StreamOK(r), NamesOK(r, s, given, writes, dropped),
         r.mode # EnabledMode(r),
         NEW q, q = serverReplStreamSwitchIfNeeded(r, ids + 1),
         srv' = [srv EXCEPT ![s] = q], ids' = ids + 1, given' = given, master'[s] = None,
         conn'[s] = Closed,
         \A t \in Servers : t # s => master'[t] = master[t] /\ conn'[t] = Kick(conn, s)[t]
  PROVE  \E K, Z : Data(K, Z)'
<1> DEFINE F == Turning(r, ids + 1)
<1>1. /\ ids \in Nat /\ ids + 1 \in Nat /\ ServerData(H, X, ids, srv[s])
      /\ FactsOK(H, X, ids, given) /\ given \in SUBSET Gtid
      /\ \A h \in H : h[1] \in 1..ids
  BY DataIs
<1>2. ids' \in Nat /\ ids <= ids' /\ ids + 1 \notin 1..ids /\ ids + 1 \in 1..ids'
      /\ 1..ids \subseteq 1..ids'
  BY <1>1
<1>3. /\ srv[s].mode = r.mode /\ srv[s].backlog = r.backlog /\ srv[s].replid = r.replid
      /\ srv[s].replid2 = r.replid2 /\ srv[s].off2 = r.off2
      /\ ServerData(H, X, ids, r)
  BY <1>1, SameViewData DEF SameView
<1>4. /\ r.offset \in Int /\ r.data \in Seq(Nat) /\ r.mode \in {"psync", "xsync"}
      /\ r.replid \in 1..ids
  BY <1>3, FieldTypes DEF ServerData, IdsOK
<1> HIDE DEF F
<1>5. /\ ServerData(H \cup Turning(r, ids + 1), X, ids + 1, q)
      /\ q.mode = EnabledMode(r) /\ q.backlog = r.backlog
      /\ q.offset = r.offset /\ q.replid = ids + 1
      /\ HasPsync(q) => \/ PsyncIds(q).replid2 = NoId
                        \/ r.mode = "psync" /\ PsyncIds(q).replid2 = r.replid2
                           /\ PsyncIds(q).off2 = r.off2
  <2>1. PICK N \in Nat : N = ids
    BY <1>1
  <2>2. PICK M \in Nat : M = N + 1
    OBVIOUS
  <2>3. /\ ServerData(H, X, N, r) /\ FactsOK(H, X, N, given)
        /\ q = serverReplStreamSwitchIfNeeded(r, M)
    BY <1>1, <1>3, <2>1, <2>2
  <2>4. Switched(H, X, r, M, q)
    BY <1>1, <2>2, <2>3, SwitchedData
  <2> QED BY <2>1, <2>2, <2>4 DEF Switched
<1>6. /\ F \in SUBSET ((1..ids') \X Int \X Seq(Nat))
      /\ \A f \in F : \A h \in H \cup F : f[1] = h[1] /\ f[2] = h[2] => f = h
      /\ \A t \in Servers : t # s => Late(F, srv[t], Solo(t))
      /\ \A h \in H \cup F : h[1] = ids + 1 => h[2] <= r.offset
  <2>1. CASE r.mode = "xsync" /\ r.backlog
    <3>1. F = {<<ids + 1, r.offset, r.data>>}
      BY <2>1 DEF Turning, F
    <3>2. \A f \in F : f = <<ids + 1, r.offset, r.data>> /\ f[1] = ids + 1 /\ f[2] = r.offset
      BY <3>1
    <3>3. F \in SUBSET ((1..ids') \X Int \X Seq(Nat))
      BY <1>2, <1>4, <3>1
    <3>4. \A f \in F : \A h \in H \cup F : f[1] = h[1] => h \in F
      BY <1>1, <1>2, <3>2
    <3>5. \A t \in Servers : Late(F, srv[t], Solo(t))
      BY <3>2, LateNew
    <3>6. \A h \in H \cup F : h[1] = ids + 1 => h[2] <= r.offset
      BY <1>1, <1>2, <1>4, <3>2
    <3> QED BY <3>2, <3>3, <3>4, <3>5, <3>6
  <2>2. CASE r.mode = "psync" /\ ~r.backlog
    <3>1. F = {<<r.replid, r.offset, r.data>>}
      BY <2>2 DEF Turning, F
    <3>2. \A f \in F : f = <<r.replid, r.offset, r.data>> /\ f[1] = r.replid /\ f[2] = r.offset
      BY <3>1
    <3>3. F \in SUBSET ((1..ids') \X Int \X Seq(Nat))
      BY <1>2, <1>4, <3>1
    <3>4. \A h \in H : h[1] # r.replid
      BY <1>3, <2>2 DEF ServerData
    <3>5. \A f \in F : \A h \in H \cup F : f[1] = h[1] => h \in F
      BY <3>2, <3>4
    <3>6. \A t \in Servers : t # s => Late(F, srv[t], Solo(t))
      <4>1. Solo(s) /\ srv[s].mode = "psync" /\ ~srv[s].backlog
        BY <1>3, <2>2 DEF Solo
      <4> QED BY <1>3, <1>4, <3>1, <4>1, LateOwn
    <3>7. \A h \in H \cup F : h[1] = ids + 1 => h[2] <= r.offset
      BY <1>1, <1>2, <1>4, <3>2
    <3> QED BY <3>2, <3>3, <3>5, <3>6, <3>7
  <2>3. CASE F = {}
    <3> QED BY <1>1, <1>2, <2>3, LateNone
  <2> QED BY <1>4, <2>1, <2>2, <2>3 DEF Turning, F
<1>7. FactsOK(H \cup F, X \cup {}, ids', given')
  <2>1. {} \in SUBSET ((SUBSET given') \X Seq(Nat))
    OBVIOUS
  <2> QED BY <1>1, <1>2, <1>6, <2>1, FactsNew
<1>8. KeepsSolo(s, q, master'[s] = None \/ ~q.backlog)
  BY <1>5 DEF KeepsSolo
<1>9. KeepsSecond(s, q, master'[s] = None \/ ~q.backlog)
  <2>1. r.mode = "psync" => HasPsync(srv[s]) /\ PsyncIds(srv[s]) = srv[s]
    BY <1>3 DEF HasPsync, PsyncIds
  <2> QED BY <1>3, <1>5, <2>1 DEF KeepsSecond
<1>10. LinkData(H \cup F, X \cup {}, ids', conn'[s], q, srv'[Up(s)'])
  BY ClosedIs DEF LinkData
<1>11. \A t \in Servers : t # s => Undisturbed(s, t, q)
  BY KickUndisturbed
<1>12. /\ q.offset \in Int
       /\ \A h \in H \cup F : h[1] = q.replid => h[2] <= q.offset
  BY <1>4, <1>5, <1>6
<1>13. ServerData(H \cup F, X \cup {}, ids', q)
  <2>1. X \cup {} = X
    OBVIOUS
  <2> QED BY <1>5, <2>1 DEF F
<1>14. Advances(H, X, F, {}, s, q)
  BY <1>2, <1>6, <1>7, <1>8, <1>9, <1>10, <1>11, <1>12, <1>13 DEF Advances
<1> QED BY <1>14, DataStep

\* CONFIG SET gtid-enabled.
LEMMA SetEnabledData ==
  ASSUME IInv, NEW H, NEW X, Data(H, X), NEW s \in Servers, SetEnabled(s)
  PROVE  \E K, Z : Data(K, Z)'
<1> DEFINE r == [srv[s] EXCEPT !.enabled = ~@]
<1>1. /\ srv[s] \in ServerState(given) /\ StreamOK(srv[s]) /\ master[s] # s
      /\ NamesOK(srv[s], s, given, writes, dropped)
      /\ master[s] = None => conn[s] = Closed /\ srv[s].mode = EnabledMode(srv[s])
      /\ given \in SUBSET Gtid
  BY ServerIs
<1>2. PICK b \in BOOLEAN : r = [srv[s] EXCEPT !.enabled = b]
  BY <1>1, ServerTypes
<1>3. /\ r \in ServerState(given) /\ StreamOK(r) /\ NamesOK(r, s, given, writes, dropped)
  BY <1>1, <1>2, FlagIs DEF Flags
<1>4. SameView(srv[s], r)
  BY <1>1, <1>2, FlagView DEF Flags
<1>5. srv[s].enabled \in BOOLEAN /\ r.enabled = ~srv[s].enabled
  BY <1>1 DEF ServerState
<1>6. srv[s].mode = EnabledMode(srv[s]) => r.mode # EnabledMode(r)
  <2> HIDE DEF r
  <2>1. r.mode = srv[s].mode
    BY <1>4 DEF SameView
  <2>2. CASE srv[s].enabled = TRUE
    BY <1>5, <2>1, <2>2 DEF EnabledMode
  <2>3. CASE srv[s].enabled = FALSE
    BY <1>5, <2>1, <2>3 DEF EnabledMode
  <2> QED BY <1>5, <2>2, <2>3
<1>7. CASE master[s] = None
  <2> DEFINE q == serverReplStreamSwitchIfNeeded(r, ids + 1)
  <2>1. /\ srv' = [srv EXCEPT ![s] = q] /\ conn' = Kick(conn, s) /\ ids' = ids + 1
        /\ UNCHANGED <<master, given>>
    BY <1>7 DEF SetEnabled, history
  <2>2. q = serverReplStreamSwitchIfNeeded(r, ids + 1)
    OBVIOUS
  <2> HIDE DEF q, r
  <2>3. conn'[s] = Closed /\ master'[s] = None
    BY <1>1, <1>7, <2>1, KickIs
  <2>4. \A t \in Servers : t # s => master'[t] = master[t] /\ conn'[t] = Kick(conn, s)[t]
    BY <2>1
  <2> QED BY <1>1, <1>3, <1>4, <1>6, <1>7, <2>1, <2>2, <2>3, <2>4, SwitchStep
<1>8. CASE master[s] # None
  <2>1. srv' = [srv EXCEPT ![s] = r] /\ conn' = conn /\ UNCHANGED <<master, ids, given>>
    BY <1>8 DEF SetEnabled, history
  <2> HIDE DEF r
  <2> QED BY <1>4, <2>1, ViewStep
<1> QED BY <1>7, <1>8

\* A server in psync that takes a new id keeps the past under it.
Past(H, r, id) == {<<id, h[2], h[3]>> : h \in {h \in H : h[1] = r.replid /\ h[2] <= r.offset}}

Shifted(H, X, F, r) ==
    /\ FactsOK(H \cup F, X \cup {}, ids', given')
    /\ \A h \in H \cup F : h[1] = r.replid /\ h[2] <= r.offset =>
         <<ids + 1, h[2], h[3]>> \in H \cup F
    /\ \A h \in H \cup F : h[1] = ids + 1 => h \in F /\ h[2] <= r.offset
    /\ \A f \in F : f[1] = ids + 1 /\ \E h \in H : h[1] = r.replid

\* The facts of the replication id a server leaves move to its new one.
LEMMA ShiftedFacts ==
  ASSUME IInv, NEW H, NEW X, Data(H, X), NEW s \in Servers, NEW r, r = srv[s], r.mode = "psync",
         NEW F, F = Past(H, r, ids + 1),
         ids' = ids + 1, given' = given
  PROVE  Shifted(H, X, F, r)
<1>1. /\ ids \in Nat /\ ids + 1 \in Nat /\ FactsOK(H, X, ids, given)
      /\ \A h \in H : h[2] \in Int /\ h[1] \in 1..ids /\ h = <<h[1], h[2], h[3]>>
                      /\ h[3] \in Seq(Nat)
  BY DataIs
<1>2. ids' \in Nat /\ ids <= ids' /\ ids + 1 \notin 1..ids /\ ids + 1 \in 1..ids'
  BY <1>1
<1>3. \A f \in F : \E h \in H : /\ h[1] = r.replid /\ h[2] <= r.offset
                                /\ f = <<ids + 1, h[2], h[3]>>
  BY DEF Past
<1>4. \A f \in F : f[1] = ids + 1
  BY <1>3
<1>5. F \in SUBSET ((1..ids') \X Int \X Seq(Nat))
  BY <1>1, <1>2, <1>3
<1>6. \A f \in F : \A h \in H \cup F : f[1] = h[1] => h \in F
  BY <1>1, <1>2, <1>4
<1>7. \A f \in F : \A h \in F : f[2] = h[2] => f = h
  <2> SUFFICES ASSUME NEW f \in F, NEW h \in F, f[2] = h[2] PROVE f = h
    OBVIOUS
  <2>1. PICK g \in H : g[1] = r.replid /\ f = <<ids + 1, g[2], g[3]>>
    BY <1>3
  <2>2. PICK k \in H : k[1] = r.replid /\ h = <<ids + 1, k[2], k[3]>>
    BY <1>3
  <2>3. g = k
    BY <1>1, <2>1, <2>2 DEF FactsOK
  <2> QED BY <2>1, <2>2, <2>3
<1>8. FactsOK(H \cup F, X \cup {}, ids', given')
  <2>1. {} \in SUBSET ((SUBSET given') \X Seq(Nat))
    OBVIOUS
  <2>2. \A f \in F : \A h \in H \cup F : f[1] = h[1] /\ f[2] = h[2] => f = h
    BY <1>6, <1>7
  <2> QED BY <1>1, <1>2, <1>5, <2>1, <2>2, FactsNew
<1>9. r.replid \in 1..ids
  BY DataIs DEF ServerData, IdsOK
<1>10. \A h \in H \cup F : h[1] = r.replid => h \in H
  BY <1>2, <1>4, <1>9
<1>11. \A h \in H \cup F : h[1] = r.replid /\ h[2] <= r.offset => <<ids + 1, h[2], h[3]>> \in F
  BY <1>10 DEF Past
<1>12. \A h \in H \cup F : h[1] = ids + 1 => h \in F
  BY <1>1, <1>2
<1>13. \A h \in F : h[2] <= r.offset
  BY <1>3
<1> QED BY <1>3, <1>4, <1>8, <1>11, <1>12, <1>13 DEF Shifted

\* REPLICAOF NO ONE in psync: the new id names the past of the one before.
LEMMA RenamedStep ==
  ASSUME IInv, NEW H, NEW X, Data(H, X), NEW s \in Servers, srv[s].mode = "psync",
         NEW q, q = shiftReplicationId(srv[s], ids + 1),
         srv' = [srv EXCEPT ![s] = q], ids' = ids + 1, given' = given, master'[s] = None,
         conn'[s] = Closed,
         \A t \in Servers : t # s => master'[t] = master[t] /\ conn'[t] = Kick(conn, s)[t]
  PROVE  \E K, Z : Data(K, Z)'
<1> DEFINE r == srv[s]
           F == Past(H, r, ids + 1)
<1>1. /\ ids \in Nat /\ ids + 1 \in Nat /\ ServerData(H, X, ids, r)
      /\ r \in ServerState(given) /\ StreamOK(r) /\ r.offset \in Int /\ r.mode = "psync"
      /\ \A h \in H : h[2] \in Int
      /\ r.backlog \in BOOLEAN /\ r.replid \in 1..ids
  BY DataIs, ServerTypes DEF ServerData, IdsOK
<1>2. ids' \in Nat /\ ids <= ids' /\ ids + 1 \in 1..ids' /\ ids + 1 \notin 1..ids
  BY <1>1
<1>3. /\ FactsOK(H \cup F, X \cup {}, ids', given')
      /\ \A h \in H \cup F : h[1] = r.replid /\ h[2] <= r.offset =>
           <<ids + 1, h[2], h[3]>> \in H \cup F
      /\ \A h \in H \cup F : h[1] = ids + 1 => h \in F /\ h[2] <= r.offset
      /\ \A f \in F : f[1] = ids + 1 /\ \E h \in H : h[1] = r.replid
  <2>1. r = srv[s] /\ F = Past(H, r, ids + 1)
    OBVIOUS
  <2> HIDE DEF r, F
  <2>2. Shifted(H, X, F, r)
    BY <1>1, <2>1, ShiftedFacts
  <2> QED BY <2>2 DEF Shifted
<1>4. \A t \in Servers : Late(F, srv[t], Solo(t))
  <2> HIDE DEF F
  <2> QED BY <1>3, LateNew
<1> HIDE DEF F
<1>5. ~r.backlog => \A h \in H \cup F : h[1] # ids + 1
  BY <1>1, <1>3 DEF ServerData
<1>6. /\ q.mode = r.mode /\ q.replid = ids + 1 /\ q.replid2 = r.replid
      /\ q.off2 = r.offset + 1 /\ q.offset = r.offset /\ q.backlog = r.backlog
  BY <1>1, ZenonT(60) DEF shiftReplicationId, ServerState
<1>7. ServerData(H \cup F, X \cup {}, ids', q)
  <2>1. PICK N \in Nat : N = ids
    BY <1>1
  <2>2. PICK M \in Nat : M = ids'
    BY <1>2
  <2>3. PICK id \in 1..M : id = ids + 1
    BY <1>2, <2>2
  <2>4. PICK K : K = H \cup F
    OBVIOUS
  <2>5. H \subseteq K /\ N <= M /\ ServerData(H, X, N, r)
    BY <1>1, <1>2, <2>1, <2>2, <2>4
  <2>6. Renames(K, r, id)
    <3>1. \A h \in K : h[2] \in Int
      BY <1>3, <2>4 DEF FactsOK
    <3> QED BY <1>1, <1>3, <1>5, <2>3, <2>4, <3>1 DEF Renames
  <2>8. q = shiftReplicationId(r, id)
    BY <2>3
  <2>9. ServerData(K, X, M, q)
    <3> HIDE DEF r
    <3> QED BY <1>1, <2>1, <2>2, <2>3, <2>5, <2>6, <2>8, RenamedData
  <2>7. X \cup {} = X
    OBVIOUS
  <2> QED BY <2>2, <2>4, <2>9, <2>7
<1>8. KeepsSolo(s, q, master'[s] = None \/ ~q.backlog)
  BY <1>6 DEF KeepsSolo
<1>9. ASSUME NEW t \in Servers, t # s PROVE Settled(q, srv[t], Solo(t))
  <2> SUFFICES ASSUME Solo(t), srv[t].mode = "psync", srv[t].replid = r.replid
               PROVE  srv[t].backlog /\ q.off2 <= srv[t].offset + 1
    BY <1>6 DEF Settled
  <2>1. ~Solo(s)
    BY <1>9 DEF Data, SoloOK
  <2>2. r.backlog
    BY <2>1 DEF Solo
  <2>3. <<r.replid, r.offset, r.data>> \in H
    <3>1. /\ r.offset \in Window(r) /\ DataAt(r, r.offset) = r.data /\ InPsync(r, r.offset)
      BY <1>1, OffsetIs
    <3>2. PsyncIds(r) = r
      BY <1>1 DEF PsyncIds
    <3> QED BY <1>1, <2>2, <3>1, <3>2 DEF ServerData, IdFacts
  <2>4. srv[t].backlog
    <3>1. ServerData(H, X, ids, srv[t])
      BY DataIs
    <3> QED BY <2>3, <3>1 DEF ServerData
  <2>5. master[t] = None
    BY <2>4 DEF Solo
  <2>6. r.offset <= srv[t].offset /\ srv[t].offset \in Int
    BY <2>3, <2>5, DataIs DEF Data, SoloOK
  <2> QED BY <1>1, <1>6, <2>4, <2>6
<1>10. KeepsSecond(s, q, master'[s] = None \/ ~q.backlog)
  <2>1. PsyncIds(q) = q
    BY <1>1, <1>6 DEF PsyncIds
  <2>2. Settled(q, q, master'[s] = None \/ ~q.backlog)
    BY <1>1, <1>2, <1>6 DEF Settled
  <2> QED BY <1>9, <2>1, <2>2 DEF KeepsSecond
<1>11. LinkData(H \cup F, X \cup {}, ids', conn'[s], q, srv'[Up(s)'])
  BY ClosedIs DEF LinkData
<1>12. \A t \in Servers : t # s => Undisturbed(s, t, q)
  BY KickUndisturbed
<1>13. /\ q.offset \in Int
       /\ \A h \in H \cup F : h[1] = q.replid => h[2] <= q.offset
  BY <1>1, <1>3, <1>6
<1>14. Advances(H, X, F, {}, s, q)
  BY <1>2, <1>3, <1>4, <1>7, <1>8, <1>10, <1>11, <1>12, <1>13 DEF Advances
<1> QED BY <1>14, DataStep

\* REPLICAOF NO ONE in xsync.
LEMMA RenamedXsyncStep ==
  ASSUME IInv, NEW H, NEW X, Data(H, X), NEW s \in Servers, srv[s].mode = "xsync",
         NEW q, q = shiftReplicationId(srv[s], ids + 1),
         srv' = [srv EXCEPT ![s] = q], ids' = ids + 1, given' = given, master'[s] = None,
         conn'[s] = Closed,
         \A t \in Servers : t # s => master'[t] = master[t] /\ conn'[t] = Kick(conn, s)[t]
  PROVE  \E K, Z : Data(K, Z)'
<1> DEFINE r == srv[s]
<1>1. /\ ids \in Nat /\ ids + 1 \in Nat /\ ServerData(H, X, ids, r)
      /\ r \in ServerState(given) /\ StreamOK(r) /\ r.offset \in Int /\ r.mode = "xsync"
      /\ HasPsync(r) => PsyncIds(r).off2 \in Int
      /\ r.backlog \in BOOLEAN /\ r.replid \in 1..ids
  BY DataIs, ServerTypes DEF ServerData, IdsOK
<1>2. ids' \in Nat /\ ids <= ids' /\ ids + 1 \in 1..ids' /\ r.replid \in 0..ids'
  BY <1>1
<1>3. /\ q.mode = r.mode /\ q.from = r.from /\ q.prev = r.prev /\ q.replid = ids + 1
      /\ q.replid2 = r.replid /\ q.offset = r.offset /\ q.backlog = r.backlog /\ q.boff = r.boff
      /\ q.items = r.items /\ q.idx = r.idx /\ q.executed = r.executed /\ q.data = r.data
      /\ q.stale = r.stale
  BY <1>1, ZenonT(60) DEF shiftReplicationId, ServerState
<1>4. ServerData(H \cup {}, X \cup {}, ids', q)
  <2>1. PICK N \in Nat : N = ids
    BY <1>1
  <2>2. PICK M \in Nat : M = ids'
    BY <1>2
  <2>3. N <= M /\ ServerData(H, X, N, r) /\ Updates(r, q, M)
    BY <1>1, <1>2, <1>3, <2>1, <2>2 DEF Updates
  <2>4. ServerData(H, X, M, q)
    <3> HIDE DEF r
    <3> QED BY <1>1, <2>1, <2>2, <2>3, UpdatedData
  <2>5. X \cup {} = X /\ H \cup {} = H
    OBVIOUS
  <2> QED BY <2>2, <2>4, <2>5
<1>5. KeepsSolo(s, q, master'[s] = None \/ ~q.backlog)
  BY <1>3 DEF KeepsSolo
<1>6. KeepsSecond(s, q, master'[s] = None \/ ~q.backlog)
  <2>1. HasPsync(q) => HasPsync(r) /\ PsyncIds(q) = q.prev /\ PsyncIds(r) = r.prev
    BY <1>1, <1>3 DEF HasPsync, PsyncIds
  <2> QED BY <1>3, <2>1 DEF KeepsSecond
<1>7. LinkData(H \cup {}, X \cup {}, ids', conn'[s], q, srv'[Up(s)'])
  BY ClosedIs DEF LinkData
<1>8. \A t \in Servers : t # s => Undisturbed(s, t, q) /\ Late({}, srv[t], Solo(t))
  BY KickUndisturbed, LateNone
<1>9. q.offset \in Int /\ q.mode # "psync"
  BY <1>1, <1>3
<1>10. FactsOK(H \cup {}, X \cup {}, ids', given')
  BY <1>2, FactsSame
<1>11. Advances(H, X, {}, {}, s, q)
  BY <1>2, <1>4, <1>5, <1>6, <1>7, <1>8, <1>9, <1>10 DEF Advances
<1> QED BY <1>11, DataStep

\* A promoted replica goes on under a new replication id, in either mode.
LEMMA PromoteData ==
  ASSUME IInv, NEW H, NEW X, Data(H, X), NEW s \in Servers, Promote(s)
  PROVE  \E K, Z : Data(K, Z)'
<1> DEFINE r == srv[s]
           q == IF r.mode = EnabledMode(r) THEN shiftReplicationId(r, ids + 1)
                ELSE serverReplStreamSwitchIfNeeded(r, ids + 1)
<1>1. /\ r \in ServerState(given) /\ StreamOK(r) /\ NamesOK(r, s, given, writes, dropped)
      /\ r.mode \in {"psync", "xsync"}
  BY ServerIs, ServerTypes DEF Modes
<1>2. /\ srv' = [srv EXCEPT ![s] = q] /\ conn' = [Kick(conn, s) EXCEPT ![s] = Closed]
      /\ ids' = ids + 1 /\ master' = [master EXCEPT ![s] = None]
      /\ UNCHANGED given
  BY DEF Promote, history
<1>3. master \in [Servers -> Servers \cup {None}] /\ None \notin Servers
  BY ConstantsAssumption DEF IInv, Typed
<1>4. conn'[s] = Closed /\ master'[s] = None
  BY <1>2, <1>3, KickIs
<1>5. \A t \in Servers : t # s => master'[t] = master[t] /\ conn'[t] = Kick(conn, s)[t]
  BY <1>2, <1>3, KickIs
<1>6. SameView(r, r)
  BY DEF SameView
<1>7. CASE r.mode = EnabledMode(r)
  <2>1. q = shiftReplicationId(r, ids + 1)
    BY <1>7
  <2> HIDE DEF q
  <2>2. CASE r.mode = "psync"
    BY <1>2, <1>4, <1>5, <2>1, <2>2, RenamedStep
  <2>3. CASE r.mode = "xsync"
    BY <1>2, <1>4, <1>5, <2>1, <2>3, RenamedXsyncStep
  <2> QED BY <1>1, <2>2, <2>3
<1>8. CASE r.mode # EnabledMode(r)
  <2>1. q = serverReplStreamSwitchIfNeeded(r, ids + 1)
    BY <1>8
  <2> HIDE DEF q
  <2> QED BY <1>1, <1>2, <1>4, <1>5, <1>6, <1>8, <2>1, SwitchStep
<1> QED BY <1>7, <1>8

\* Without a backlog a master gets a new replication id, of which nothing is known.
LEMMA DropBacklogData ==
  ASSUME IInv, NEW H, NEW X, Data(H, X), NEW s \in Servers, DropBacklog(s)
  PROVE  \E K, Z : Data(K, Z)'
<1> DEFINE r == srv[s]
           q == [SetReplId(r, ids + 1) EXCEPT !.backlog = FALSE, !.items = <<>>, !.idx = {}]
<1>1. /\ ids \in Nat /\ ids + 1 \in Nat /\ ServerData(H, X, ids, r)
      /\ r \in ServerState(given) /\ StreamOK(r) /\ r.offset \in Int
      /\ \A h \in H : h[1] \in 1..ids
      /\ master[s] = None => conn[s] = Closed
  BY DataIs
<1>2. /\ srv' = [srv EXCEPT ![s] = q] /\ master[s] = None /\ Slaves(s) = {} /\ ids' = ids + 1
      /\ UNCHANGED <<master, conn, given>>
  BY DEF DropBacklog, history
<1>3. ids' \in Nat /\ ids <= ids' /\ ids + 1 \in 1..ids' /\ ids + 1 \notin 1..ids
  BY <1>1, <1>2
<1>4. /\ q \in ServerState(given) /\ q.mode = r.mode /\ q.from = r.from /\ q.prev = r.prev
      /\ q.replid = ids + 1 /\ q.replid2 = NoId /\ q.offset = r.offset /\ ~q.backlog
      /\ q.items = << >> /\ q.idx = {} /\ q.executed = r.executed /\ q.data = r.data
      /\ q.stale = r.stale /\ q.delta = r.delta
  <2> DEFINE a == SetReplId(r, ids + 1)
  <2>1. a \in ServerState(given)
    BY <1>1, SetReplIdIs
  <2>2. /\ a.mode = r.mode /\ a.from = r.from /\ a.prev = r.prev /\ a.replid = ids + 1
        /\ a.offset = r.offset /\ a.delta = r.delta /\ a.stale = r.stale
        /\ a.executed = r.executed /\ a.data = r.data
    BY <1>1, SetReplIdIs
  <2>3. a.replid2 = NoId
    BY <1>1 DEF SetReplId, ServerState
  <2>4. << >> \in Seq(ItemsOf(given)) /\ {} \in SUBSET Entries
    OBVIOUS
  <2> HIDE DEF a
  <2>5. q = [a EXCEPT !.backlog = FALSE, !.items = <<>>, !.idx = {}]
    BY DEF a
  <2> QED BY <2>1, <2>2, <2>3, <2>4, <2>5 DEF ServerState
<1> HIDE DEF q
<1>5. StreamOK(q)
  <2>1. BacklogOK(q)
    BY <1>4, EmptyBacklog
  <2> QED BY <1>1, <1>4, <2>1 DEF StreamOK
<1>6. \A h \in H : h[1] # q.replid
  BY <1>1, <1>3, <1>4
<1>7. ServerData(H \cup {}, X \cup {}, ids', q)
  <2>1. PICK N \in Nat : N = ids
    BY <1>1
  <2>2. PICK M \in Nat : M = ids'
    BY <1>3
  <2>3. N <= M /\ ServerData(H, X, N, r) /\ q.replid \in 1..M
    BY <1>1, <1>2, <1>3, <1>4, <2>1, <2>2
  <2>4. ServerData(H, X, M, q)
    <3> HIDE DEF r
    <3> QED BY <1>1, <1>4, <1>5, <1>6, <2>3, DroppedData
  <2>5. X \cup {} = X /\ H \cup {} = H
    OBVIOUS
  <2> QED BY <2>2, <2>4, <2>5
<1>8. KeepsSolo(s, q, master'[s] = None \/ ~q.backlog)
  BY <1>4 DEF KeepsSolo
<1>9. KeepsSecond(s, q, master'[s] = None \/ ~q.backlog)
  <2>1. q.mode # "psync" => (HasPsync(q) => HasPsync(r)) /\ PsyncIds(q) = PsyncIds(r)
    BY <1>4 DEF HasPsync, PsyncIds
  <2>2. q.mode = "psync" => PsyncIds(q).replid2 = NoId
    BY <1>4 DEF PsyncIds
  <2> QED BY <2>1, <2>2 DEF KeepsSecond
<1>10. LinkData(H \cup {}, X \cup {}, ids', conn'[s], q, srv'[Up(s)'])
  BY <1>1, <1>2, ClosedIs DEF LinkData
<1>11. \A t \in Servers : t # s => Undisturbed(s, t, q) /\ Late({}, srv[t], Solo(t))
  BY <1>2, LateNone DEF Undisturbed
<1>12. q.offset \in Int /\ \A h \in H \cup {} : h[1] = q.replid => h[2] <= q.offset
  BY <1>1, <1>4, <1>6
<1>13. FactsOK(H \cup {}, X \cup {}, ids', given')
  BY <1>2, <1>3, FactsSame
<1>14. \A t \in Servers : t # s => master'[t] = master[t]
  BY <1>2
<1>15. Advances(H, X, {}, {}, s, q)
  BY <1>2, <1>3, <1>7, <1>8, <1>9, <1>10, <1>11, <1>12, <1>13, <1>14 DEF Advances
<1> QED BY <1>15, DataStep

----------------------------------------------------------------------------
(* What is fed to a stream.                                                *)

\* The item a server r feeds leads from what it has to what it then has, and
\* its gtids are then S.
FeedsData(H, X, r, item, S) ==
    /\ item.data = r.data
    /\ r.mode = "xsync" =>
          /\ item.executed = r.executed /\ XItem(item) /\ S = GtidsAfter(item)
          /\ Known(X, S, DataAfter(item))
    /\ r.mode = "psync" =>
          /\ S = r.executed /\ item.gtid = NoGtid
          /\ <<r.replid, r.offset + 1, DataAfter(item)>> \in H

\* What is fed to a replica of its own goes on where the replica's link ends.
LEMMA FedLink ==
  ASSUME IInv, NEW H, NEW X, Data(H, X), NEW s \in Servers, NEW r, r = srv[s],
         NEW t \in Slaves(s), NEW K, NEW Z, NEW M, LinkData(K, Z, M, conn[t], srv[t], r),
         NEW item, NEW S, FeedsData(K, Z, r, item, S),
         NEW p, p.data = DataAfter(item), p.executed = S,
         NEW d, d = [conn[t] EXCEPT !.chan = Append(@, Command(item))]
  PROVE  LinkData(K, Z, M, d, srv[t], p)
<1> DEFINE c == conn[t]
           z == Start(c, srv[t])
<1>1. t \in Servers /\ master[t] = s /\ c.attached
  BY DEF Slaves
<1>2. /\ c \in Connection(given) /\ ChanOK(c) /\ c.link # "down"
      /\ srv[t] \in ServerState(given) /\ StreamOK(srv[t]) /\ ShapeOK(srv[t])
  BY <1>1, DataIs DEF ServerData
<1>3. r \in ServerState(given) /\ StreamOK(r) /\ r.mode \in {"psync", "xsync"} /\ r.offset \in Int
  BY DataIs
<1>4. Linked(c, srv[t], r, MasterUuid(s))
  BY <1>1, ServerIs
<1>5. z.mode = r.mode /\ z.replid = r.replid
      /\ (r.mode = "psync" => z.offset + Len(Rest(c)) = r.offset)
  BY <1>1, <1>2, <1>3, <1>4, StartAligned
<1>6. Len(Rest(c)) \in Nat
  BY <1>2, RestIs
<1> HIDE DEF z, c
<1>7. r.mode = "psync" => z.offset + (Len(Rest(c)) + 1) = r.offset + 1
  <2>1. z.offset \in Int \/ r.mode # "psync"
    <3>1. CASE c.link = "wait"
      <4>1. Head(c.chan) \in Messages(given) /\ Head(c.chan).type \in Answer
        BY <1>2, <3>1, RestIs
      <4>2. Head(c.chan).reploff \in Int
        BY <4>1, MessageTypes DEF Answer
      <4>3. srv[t].offset \in Int
        BY <1>2, ServerTypes
      <4> QED BY <3>1, <4>2, <4>3 DEF z, Start, Becomes
    <3>2. CASE c.link # "wait"
      <4>1. srv[t].offset \in Int
        BY <1>2, ServerTypes
      <4> QED BY <3>2, <4>1 DEF z, Start, Standing
    <3> QED BY <3>1, <3>2
  <2> QED BY <1>3, <1>5, <1>6, <2>1
<1>8. FactOK(K, Z, z, Len(Rest(c)) + 1, item)
  <2>1. CASE r.mode = "xsync"
    BY <1>5, <2>1 DEF FactOK, FeedsData
  <2>2. CASE r.mode = "psync"
    BY <1>5, <1>7, <2>2 DEF FactOK, FeedsData
  <2> QED BY <1>3, <2>1, <2>2
<1>9. /\ item.data = r.data
      /\ z.mode = "xsync" => item.executed = r.executed /\ p.executed = GtidsAfter(item)
  BY <1>5 DEF FeedsData
<1>10. /\ c = conn[t] /\ z = Start(c, srv[t]) /\ LinkData(K, Z, M, c, srv[t], r)
       /\ d = [c EXCEPT !.chan = Append(@, Command(item))]
  BY DEF c, z
<1> QED BY <1>1, <1>2, <1>8, <1>9, <1>10, LinkFed

\* A server that feeds an item of its own or of its master's.
FedTo(H, X, F, Y, s, item, S, q) ==
    /\ given \subseteq given' /\ given' \in SUBSET Gtid
    /\ item \in ItemsOf(given') /\ S \in SUBSET given'
    /\ q = Feed(Ran(srv[s], DataAfter(item), S), item)
    /\ srv' = [srv EXCEPT ![s] = q]
    /\ srv[s].backlog
    /\ \A t \in Servers : t # s =>
          conn'[t] = IF t \in Slaves(s) THEN [conn[t] EXCEPT !.chan = Append(@, Command(item))]
                     ELSE conn[t]
    /\ ids' = ids /\ master' = master
    /\ FactsOK(H \cup F, X \cup Y, ids, given')
    /\ \A t \in Servers : t # s => Late(F, srv[t], Solo(t))
    /\ Late(F, srv[s], FALSE)
    /\ FeedsData(H \cup F, X \cup Y, srv[s], item, S)
    /\ master[s] = None /\ srv[s].mode = "psync" =>
          \A f \in F : f[1] = srv[s].replid => f[2] <= srv[s].offset + 1
    /\ LinkData(H \cup F, X \cup Y, ids, conn'[s], q, srv'[Up(s)])

\* An item fed to the stream and to the replicas preserves the invariant.
LEMMA FedStep ==
  ASSUME IInv, NEW H, NEW X, Data(H, X), NEW F, NEW Y, NEW s \in Servers, NEW item, NEW S, NEW q,
         FedTo(H, X, F, Y, s, item, S, q)
  PROVE  \E K, Z : Data(K, Z)'
<1> DEFINE r == srv[s]
<1>1. /\ given \subseteq given' /\ given' \in SUBSET Gtid
      /\ item \in ItemsOf(given') /\ S \in SUBSET given'
      /\ q = Feed(Ran(srv[s], DataAfter(item), S), item)
      /\ srv' = [srv EXCEPT ![s] = q] /\ r.backlog
      /\ ids' = ids /\ master' = master
      /\ FactsOK(H \cup F, X \cup Y, ids, given')
      /\ \A t \in Servers : t # s => Late(F, srv[t], Solo(t))
      /\ Late(F, r, FALSE)
      /\ FeedsData(H \cup F, X \cup Y, r, item, S)
      /\ LinkData(H \cup F, X \cup Y, ids, conn'[s], q, srv'[Up(s)])
  BY DEF FedTo
<1>2. /\ r \in ServerState(given) /\ StreamOK(r) /\ ServerData(H, X, ids, r) /\ ids \in Nat
      /\ r.offset \in Int /\ r.mode \in {"psync", "xsync"}
      /\ HasPsync(r) => PsyncIds(r).off2 \in Int
  BY DataIs
<1>3. r \in ServerState(given')
  BY <1>1, <1>2, Monotone
<1>4. \A f \in F : f[2] \in Int
  BY <1>1 DEF FactsOK
<1>5. ServerData(H \cup F, X \cup Y, ids, r)
  <2>1. PICK N \in Nat : N = ids
    BY <1>2
  <2>2. N <= N /\ ServerData(H, X, N, r)
    BY <1>2, <2>1
  <2> HIDE DEF r
  <2>3. ServerData(H \cup F, X \cup Y, N, r)
    BY <1>1, <1>2, <1>4, <2>2, ServerGrows
  <2> QED BY <2>1, <2>3
<1>6. PICK K : K = H \cup F
  OBVIOUS
<1>7. PICK Z : Z = X \cup Y
  OBVIOUS
<1> HIDE DEF r
<1>8. /\ ServerData(K, Z, ids, q) /\ q.data = DataAfter(item) /\ q.executed = S
      /\ q.off2 = r.off2 /\ q.replid2 = r.replid2
  <2>1. ServerData(K, Z, ids, r) /\ FeedsData(K, Z, r, item, S)
    BY <1>1, <1>5, <1>6, <1>7
  <2>2. q = Feed(Ran(r, DataAfter(item), S), item)
    BY <1>1 DEF r
  <2>3. /\ item.data = r.data
        /\ r.mode = "xsync" =>
            /\ item.executed = r.executed /\ XItem(item) /\ S = GtidsAfter(item)
            /\ Known(Z, S, DataAfter(item))
        /\ r.mode = "psync" =>
            /\ S = r.executed /\ item.gtid = NoGtid
            /\ <<r.replid, r.offset + 1, DataAfter(item)>> \in K
    BY <2>1 DEF FeedsData
  <2> QED BY <1>1, <1>2, <1>3, <2>1, <2>2, <2>3, FedData
<1>9. /\ q.mode = r.mode /\ q.replid = r.replid /\ q.backlog /\ q.prev = r.prev
      /\ q.offset = r.offset + 1
  <2> DEFINE u == Ran(r, DataAfter(item), S)
  <2>1. DataAfter(item) \in Seq(Nat)
    BY <1>1 DEF DataAfter, ItemsOf
  <2>2. u \in ServerState(given') /\ SameOffsets(r, u)
    BY <1>1, <1>3, <2>1, RanFields
  <2>3. q = Feed(u, item)
    BY <1>1 DEF r
  <2> HIDE DEF u
  <2>4. /\ q.mode = u.mode /\ q.replid = u.replid /\ q.backlog = u.backlog /\ q.prev = u.prev
        /\ q.offset = IF u.backlog THEN u.offset + 1 ELSE u.offset
    BY <1>1, <2>2, <2>3, FeedIs
  <2> QED BY <1>1, <2>2, <2>4 DEF SameOffsets
<1>10. \A t \in Servers : t # s => master'[t] = master[t]
  BY <1>1
<1>11. KeepsSolo(s, q, master'[s] = None \/ ~q.backlog)
  BY <1>1, <1>2, <1>9 DEF KeepsSolo, Solo, r
<1>12. KeepsSecond(s, q, master'[s] = None \/ ~q.backlog)
  <2>1. HasPsync(q) => HasPsync(r) /\ PsyncIds(q).replid2 = PsyncIds(r).replid2
                                   /\ PsyncIds(q).off2 = PsyncIds(r).off2
    BY <1>8, <1>9 DEF HasPsync, PsyncIds
  <2> QED BY <2>1 DEF KeepsSecond, r
<1>13. master'[s] = None /\ q.mode = "psync" => \A h \in K : h[1] = q.replid => h[2] <= q.offset
  <2> SUFFICES ASSUME master[s] = None, r.mode = "psync", NEW h \in K, h[1] = r.replid
               PROVE  h[2] <= r.offset + 1
    BY <1>1, <1>9
  <2>1. CASE h \in F
    BY <2>1 DEF FedTo, r
  <2>2. CASE h \in H
    <3>1. h[2] <= r.offset /\ h[2] \in Int
      BY <2>2, DataIs DEF Data, SoloOK, r
    <3> QED BY <1>2, <3>1
  <2> QED BY <1>6, <2>1, <2>2
<1>14. ASSUME NEW t \in Servers, t # s
       PROVE  \/ Undisturbed(s, t, q)
              \/ LinkData(K, Z, ids, conn'[t], srv'[t], srv'[Up(t)])
  <2>1. CASE t \notin Slaves(s)
    <3>1. conn'[t] = conn[t]
      BY <1>14, <2>1 DEF FedTo
    <3> QED BY <2>1, <3>1 DEF Undisturbed
  <2>2. CASE t \in Slaves(s)
    <3>1. conn'[t] = [conn[t] EXCEPT !.chan = Append(@, Command(item))]
      BY <1>14, <2>2 DEF FedTo
    <3>2. master[t] = s /\ conn[t].attached
      BY <2>2 DEF Slaves
    <3>3. Up(t) = s /\ srv'[t] = srv[t] /\ srv'[s] = q
      <4>1. s # None
        BY ConstantsAssumption
      <4>2. srv \in [Servers -> ServerState(given)]
        BY DEF IInv, Typed
      <4> QED BY <1>1, <1>14, <3>2, <4>1, <4>2 DEF Up
    <3>4. LinkData(H, X, ids, conn[t], srv[t], r)
      BY <1>14, <3>2, DataIs DEF r
    <3>5. LinkData(K, Z, ids, conn[t], srv[t], r)
      <4>1. PICK N \in Nat : N = ids
        BY <1>2
      <4>2. PICK p : p = srv[t]
        OBVIOUS
      <4>3. /\ N <= N /\ LinkData(H, X, N, conn[t], p, r) /\ SameView(p, p)
            /\ p.offset \in Int /\ Late(F, p, Solo(t)) /\ Solo(t) \in BOOLEAN
        BY <1>1, <1>14, <3>4, <4>1, <4>2, DataIs DEF SameView
      <4>4. LinkData(H \cup F, X \cup Y, N, conn[t], p, r)
        BY <1>4, <4>3, LinkGrows
      <4> QED BY <1>6, <1>7, <4>1, <4>2, <4>4
    <3>6. FeedsData(K, Z, r, item, S)
      BY <1>1, <1>6, <1>7
    <3>7. LinkData(K, Z, ids, conn'[t], srv[t], q)
      BY <1>8, <2>2, <3>1, <3>5, <3>6, FedLink DEF r
    <3> QED BY <3>3, <3>7
  <2> QED BY <2>1, <2>2
<1>15. Up(s)' = Up(s)
  BY <1>1 DEF Up
<1>16. q.offset \in Int
  BY <1>2, <1>9
<1>17. \A t \in Servers : t # s =>
           \/ Undisturbed(s, t, q)
           \/ LinkData(H \cup F, X \cup Y, ids', conn'[t], srv'[t], srv'[Up(t)])
  BY <1>1, <1>6, <1>7, <1>14
<1>18. LinkData(H \cup F, X \cup Y, ids', conn'[s], q, srv'[Up(s)'])
  BY <1>1, <1>15
<1>19. ServerData(H \cup F, X \cup Y, ids', q)
  BY <1>1, <1>6, <1>7, <1>8
<1>20. ids' \in Nat /\ ids <= ids' /\ FactsOK(H \cup F, X \cup Y, ids', given')
  BY <1>1, <1>2
<1>21. master'[s] = None /\ q.mode = "psync" =>
          \A h \in H \cup F : h[1] = q.replid => h[2] <= q.offset
  BY <1>6, <1>13
<1>22. srv' = [srv EXCEPT ![s] = q] /\ \A t \in Servers : t # s => Late(F, srv[t], Solo(t))
  BY <1>1
<1>23. Advances(H, X, F, Y, s, q)
  BY <1>10, <1>11, <1>12, <1>16, <1>17, <1>18, <1>19, <1>20, <1>21, <1>22 DEF Advances
<1> QED BY <1>23, DataStep

\* The facts F and Y a server s may add when it feeds an item.
News(H, X, F, Y, s) ==
    /\ FactsOK(H \cup F, X \cup Y, ids, given')
    /\ \A t \in Servers : t # s => Late(F, srv[t], Solo(t))
    /\ Late(F, srv[s], FALSE)
    /\ srv[s].mode = "psync" => \A f \in F : f[1] = srv[s].replid => f[2] <= srv[s].offset + 1

\* The fact of what a master in psync writes: nobody has gone that far.
LEMMA PsyncFact ==
  ASSUME IInv, NEW H, NEW X, Data(H, X), NEW s \in Servers, master[s] = None,
         srv[s].mode = "psync", srv[s].backlog, NEW d \in Seq(Nat), given' = given,
         NEW F, F = {<<srv[s].replid, srv[s].offset + 1, d>>}
  PROVE  News(H, X, F, {}, s)
<1> DEFINE r == srv[s]
<1>1. /\ r.offset \in Int /\ r.offset + 1 \in Int /\ ids \in Nat
      /\ r.replid \in 1..ids /\ FactsOK(H, X, ids, given)
      /\ HasPsync(r) /\ PsyncIds(r) = r /\ r.off2 \in Int /\ Solo(s)
  BY DataIs DEF ServerData, IdsOK, HasPsync, PsyncIds, Solo
<1>2. FactsOK(H \cup F, X \cup {}, ids, given')
  <2>1. F \in SUBSET ((1..ids) \X Int \X Seq(Nat)) /\ {} \in SUBSET ((SUBSET given') \X Seq(Nat))
    BY <1>1
  <2>2. \A h \in H : h[1] = r.replid => h[2] # r.offset + 1
    <3>1. \A h \in H : h[1] = r.replid => h[2] <= r.offset /\ h[2] \in Int
      BY DataIs DEF Data, SoloOK
    <3> QED BY <1>1, <3>1
  <2>3. \A f \in F : \A h \in H \cup F : f[1] = h[1] /\ f[2] = h[2] => f = h
    BY <2>2
  <2>4. ids <= ids /\ given \subseteq given'
    BY <1>1
  <2> QED BY <1>1, <2>1, <2>3, <2>4, FactsNew
<1>3. \A t \in Servers : t # s => Late(F, srv[t], Solo(t))
  BY <1>1, LateOwn
<1>4. Late(F, r, FALSE)
  <2>1. r.replid2 # NoId /\ r.replid = r.replid2 => r.off2 <= r.offset + 1
    <3>1. Settled(r, r, Solo(s))
      BY <1>1 DEF Data, SoloOK
    <3> QED BY <1>1, <3>1 DEF Settled
  <2>2. r.offset < r.offset + 1
    BY <1>1
  <2> QED BY <1>1, <2>1, <2>2 DEF Late
<1>5. \A f \in F : f[2] <= r.offset + 1
  BY <1>1
<1> QED BY <1>2, <1>3, <1>4, <1>5 DEF News

\* The fact of a gtid nobody had been given.
LEMMA XsyncFact ==
  ASSUME IInv, NEW H, NEW X, Data(H, X), NEW S \in SUBSET given', NEW d \in Seq(Nat),
         given \subseteq given', NEW x \in S, x \notin given, NEW Y, Y = {<<S, d>>}
  PROVE  FactsOK(H \cup {}, X \cup Y, ids, given')
<1>1. FactsOK(H, X, ids, given) /\ ids \in Nat /\ ids <= ids
  BY DEF Data, IInv, Typed
<1>2. {} \in SUBSET ((1..ids) \X Int \X Seq(Nat)) /\ Y \in SUBSET ((SUBSET given') \X Seq(Nat))
  OBVIOUS
<1>3. \A y \in X : y[1] # S
  BY <1>1 DEF FactsOK
<1>4. \A y \in Y : \A z \in X \cup Y : y[1] = z[1] => y = z
  BY <1>3
<1> QED BY <1>1, <1>2, <1>4, FactsNew

\* What a link says that nobody has touched, of a server without a master.
LEMMA NoLink ==
  ASSUME NEW c, c = Closed, NEW K, NEW Z, NEW M, NEW q, NEW p
  PROVE  LinkData(K, Z, M, c, q, p)
BY ClosedIs DEF LinkData

\* The PING of a master.
LEMMA PingData ==
  ASSUME IInv, NEW H, NEW X, Data(H, X), NEW s \in Servers, Ping(s)
  PROVE  \E K, Z : Data(K, Z)'
<1> DEFINE r == srv[s]
           item == Item(r, NoGtid, 0)
           S == r.executed
           q == Feed(r, item)
           F == IF r.mode = "psync" THEN {<<r.replid, r.offset + 1, r.data>>} ELSE {}
<1>1. /\ r \in ServerState(given) /\ given \in SUBSET Gtid /\ ids \in Nat
      /\ ServerData(H, X, ids, r) /\ r.mode \in {"psync", "xsync"} /\ StreamOK(r)
      /\ r.data \in Seq(Nat) /\ r.executed \in SUBSET given
      /\ master[s] = None => conn[s] = Closed
  BY DataIs, ServerTypes
<1>2. /\ master[s] = None /\ r.backlog /\ FeedAll(conn, s, r, item)
      /\ UNCHANGED <<master, ids, given>>
  BY DEF Ping, history
<1>3. /\ item \in ItemsOf(given) /\ item.gtid = NoGtid /\ item.write = 0 /\ item.data = r.data
      /\ item.executed = r.executed
  <2>1. NoGtid \in given \cup {NoGtid} /\ 0 \in Nat /\ r \in ServerState(given)
    BY <1>1
  <2> HIDE DEF r
  <2> QED BY <2>1, ItemIs
<1>4. DataAfter(item) = r.data /\ GtidsAfter(item) = S
  BY <1>3 DEF DataAfter, GtidsAfter
<1>5. r = Ran(r, r.data, S)
  BY <1>1 DEF Ran, ServerState
<1>6. NoGtid \notin S
  <2>1. NoGtid \notin Gtid
    BY DEF Gtid, NoGtid
  <2> QED BY <1>1, <2>1
<1>7. s \notin Slaves(s)
  BY KickIs
<1> HIDE DEF item
<1>8. News(H, X, F, {}, s)
  <2>1. CASE r.mode = "psync"
    <3>1. F = {<<srv[s].replid, srv[s].offset + 1, r.data>>}
      BY <2>1
    <3> HIDE DEF F
    <3> QED BY <1>1, <1>2, <2>1, <3>1, PsyncFact
  <2>2. CASE r.mode # "psync"
    <3>1. F = {}
      BY <2>2
    <3> HIDE DEF F
    <3>2. ids' \in Nat /\ ids <= ids' /\ given \subseteq given' /\ ids' = ids
      BY <1>1, <1>2
    <3>3. FactsOK(H \cup F, X \cup {}, ids, given')
      BY <3>1, <3>2, FactsSame
    <3> QED BY <2>2, <3>1, <3>3, LateNone DEF News
  <2> QED BY <2>1, <2>2
<1>9. FeedsData(H \cup F, X \cup {}, r, item, S)
  <2>1. CASE r.mode = "xsync"
    <3>1. Known(X, r.executed, r.data)
      <4>1. r.offset \in Window(r) /\ DataAt(r, r.offset) = r.data
            /\ GtidsAt(r, r.offset) = r.executed /\ InXsync(r, r.offset)
        BY <1>1, <2>1, OffsetIs
      <4> QED BY <1>1, <4>1 DEF ServerData, GtidFacts
    <3>2. X \cup {} = X
      OBVIOUS
    <3> QED BY <1>3, <1>4, <1>6, <2>1, <3>1, <3>2 DEF FeedsData, XItem
  <2>2. CASE r.mode = "psync"
    BY <1>3, <1>4, <2>2 DEF FeedsData
  <2> QED BY <1>1, <2>1, <2>2
<1> HIDE DEF F
<1>10. \A t \in Servers : t # s =>
          conn'[t] = IF t \in Slaves(s) THEN [conn[t] EXCEPT !.chan = Append(@, Command(item))]
                     ELSE conn[t]
  BY <1>2 DEF FeedAll
<1>11. conn'[s] = Closed
  BY <1>1, <1>2, <1>7 DEF FeedAll
<1>12. LinkData(H \cup F, X \cup {}, ids, conn'[s], q, srv'[Up(s)])
  BY <1>11, NoLink
<1>13. q = Feed(Ran(srv[s], DataAfter(item), S), item)
  BY <1>4, <1>5
<1>14. srv' = [srv EXCEPT ![s] = q]
  BY <1>2 DEF FeedAll
<1> HIDE DEF S, q
<1>15. S \in SUBSET given'
  BY <1>1, <1>2 DEF S
<1>16. FedTo(H, X, F, {}, s, item, S, q)
  BY <1>1, <1>2, <1>3, <1>8, <1>9, <1>10, <1>12, <1>13, <1>14, <1>15 DEF FedTo, News
<1> QED BY <1>16, FedStep

\* What a master's write is, and what it leaves.
Wrote(s, r, x, d, S, item) ==
    /\ d = Append(r.data, writes + 1) /\ d \in Seq(Nat)
    /\ given \subseteq given' /\ given' \in SUBSET Gtid /\ S \in SUBSET given'
    /\ item \in ItemsOf(given') /\ item.gtid = x /\ item.write = writes + 1
    /\ item.data = r.data /\ item.executed = r.executed
    /\ DataAfter(item) = d
    /\ r.mode = "xsync" => /\ XItem(item) /\ S = GtidsAfter(item)
                           /\ x \in S /\ x \notin given
    /\ r.mode = "psync" => S = r.executed /\ x = NoGtid /\ given' = given
    /\ master[s] = None /\ master' = master /\ ids' = ids
    /\ conn[s] = Closed
    /\ FeedAll(conn, s, Ran(r, d, S), item)

\* What a write of a client feeds.
LEMMA WriteIs ==
  ASSUME IInv, NEW s \in Servers, NEW r, r = srv[s], Write(s), reused' = {}
  PROVE  \E x, d, S, item : Wrote(s, r, x, d, S, item)
<1> DEFINE n == NextGno(r)
           x == IF r.enabled THEN <<r.uuid, n>> ELSE NoGtid
           d == Append(r.data, writes + 1)
           S == IF x = NoGtid THEN r.executed ELSE r.executed \cup {x}
           item == Item(r, x, writes + 1)
           G == given \cup ({x} \ {NoGtid})
<1>1. /\ r \in ServerState(given) /\ StreamOK(r) /\ given \in SUBSET Gtid /\ writes \in Nat
      /\ NamesOK(r, s, given, writes, dropped)
      /\ master[s] = None => r.mode = EnabledMode(r) /\ conn[s] = Closed
  BY ServerIs
<1>2. /\ master[s] = None /\ writes < MaxWrites
      /\ FeedAll(conn, s, [r EXCEPT !.data = Append(@, writes + 1),
                                    !.executed = IF x = NoGtid THEN @ ELSE @ \cup {x}], item)
      /\ given' = G /\ x \notin given
      /\ UNCHANGED <<master, ids>>
  <2>1. reused' = reused \cup ({x} \cap given)
    BY DEF Write
  <2>2. x \notin given
    BY <2>1
  <2> QED BY <2>2 DEF Write
<1>3. Ran(r, d, S) = [r EXCEPT !.data = Append(@, writes + 1),
                               !.executed = IF x = NoGtid THEN @ ELSE @ \cup {x}]
  BY <1>1 DEF ServerState, Ran
<1>4. n \in 1..(writes + 1) /\ n \in Nat /\ <<r.uuid, n>> \notin r.executed
  BY <1>1, <1>2, NextIsFresh
<1>5. /\ r.enabled => r.mode = "xsync"
      /\ ~r.enabled => r.mode = "psync"
      /\ r.uuid \in Uid /\ r.executed \in SUBSET given /\ r.data \in Seq(Nat)
      /\ r.enabled \in BOOLEAN
  BY <1>1, <1>2, ServerTypes DEF EnabledMode
<1> HIDE DEF n
<1>6. <<r.uuid, n>> \in Gtid /\ <<r.uuid, n>> # NoGtid
  BY <1>4, <1>5 DEF Gtid, NoGtid
<1>7. /\ r.enabled => x = <<r.uuid, n>> /\ S = r.executed \cup {<<r.uuid, n>>}
                      /\ G = given \cup {<<r.uuid, n>>}
      /\ ~r.enabled => x = NoGtid /\ S = r.executed /\ G = given
  BY <1>6
<1>8. G \in SUBSET Gtid /\ given \subseteq G /\ x \in G \cup {NoGtid} /\ S \in SUBSET G
  BY <1>1, <1>5, <1>6, <1>7
<1>9. d \in Seq(Nat) /\ writes + 1 \in Nat /\ writes + 1 # 0
  BY <1>1, <1>5
<1>10. r \in ServerState(G)
  <2>1. ServerState(given) \subseteq ServerState(G)
    <3> HIDE DEF G
    <3> QED BY <1>8, Monotone
  <2> QED BY <1>1, <2>1
<1>11. d = Append(r.data, writes + 1)
  OBVIOUS
<1> HIDE DEF x, S, G
<1>12. /\ item \in ItemsOf(G) /\ item.gtid = x /\ item.write = writes + 1
       /\ item.data = r.data /\ item.executed = r.executed
  <2>1. PICK w \in Nat : w = writes + 1
    BY <1>9
  <2>2. x \in G \cup {NoGtid}
    BY <1>8
  <2>3. /\ Item(r, x, w) \in ItemsOf(G)
        /\ Item(r, x, w).gtid = x /\ Item(r, x, w).write = w
        /\ Item(r, x, w).data = r.data /\ Item(r, x, w).executed = r.executed
    BY <1>10, <2>2, ItemIs
  <2> QED BY <2>1, <2>3
<1> HIDE DEF d, item
<1>13. DataAfter(item) = d
  BY <1>9, <1>11, <1>12 DEF DataAfter
<1>14. r.mode = "xsync" => XItem(item) /\ S = GtidsAfter(item) /\ x \in S
  <2> SUFFICES ASSUME r.enabled PROVE XItem(item) /\ S = GtidsAfter(item) /\ x \in S
    BY <1>5
  <2>1. x # NoGtid /\ x \notin r.executed /\ S = r.executed \cup {x}
    BY <1>4, <1>6, <1>7
  <2> QED BY <1>9, <1>12, <2>1 DEF XItem, GtidsAfter
<1>15. r.mode = "psync" => S = r.executed /\ x = NoGtid /\ G = given
  BY <1>5, <1>7
<1>16. FeedAll(conn, s, Ran(r, d, S), item)
  BY <1>2, <1>3 DEF d, S, item
<1>17. Wrote(s, r, x, d, S, item)
  BY <1>1, <1>2, <1>8, <1>9, <1>11, <1>12, <1>13, <1>14, <1>15, <1>16 DEF Wrote
<1> QED BY <1>17

\* A write to the backlog and the replicas.
LEMMA LoggedStep ==
  ASSUME IInv, NEW H, NEW X, Data(H, X), NEW s \in Servers, srv[s].backlog,
         NEW x, NEW d, NEW S, NEW item, Wrote(s, srv[s], x, d, S, item)
  PROVE  \E K, Z : Data(K, Z)'
<1> DEFINE r == srv[s]
           q == Feed(Ran(r, DataAfter(item), S), item)
           F == IF r.mode = "psync" THEN {<<r.replid, r.offset + 1, d>>} ELSE {}
           Y == IF r.mode = "psync" THEN {} ELSE {<<S, d>>}
<1>1. r.mode \in {"psync", "xsync"} /\ ids \in Nat
  BY DataIs
<1>2. /\ d \in Seq(Nat) /\ given \subseteq given' /\ given' \in SUBSET Gtid /\ S \in SUBSET given'
      /\ item \in ItemsOf(given') /\ item.gtid = x
      /\ item.data = r.data /\ item.executed = r.executed /\ DataAfter(item) = d
      /\ master[s] = None /\ master' = master /\ ids' = ids /\ conn[s] = Closed
      /\ FeedAll(conn, s, Ran(r, d, S), item)
  BY DEF Wrote
<1>3. News(H, X, F, Y, s)
  <2>1. CASE r.mode = "psync"
    <3>1. F = {<<srv[s].replid, srv[s].offset + 1, d>>} /\ Y = {} /\ given' = given
      BY <2>1 DEF Wrote
    <3> HIDE DEF F, Y
    <3> QED BY <1>2, <2>1, <3>1, PsyncFact
  <2>2. CASE r.mode = "xsync"
    <3>1. F = {} /\ Y = {<<S, d>>} /\ x \in S /\ x \notin given
      BY <2>2 DEF Wrote
    <3> HIDE DEF F, Y
    <3>2. FactsOK(H \cup {}, X \cup Y, ids, given')
      BY <1>2, <3>1, XsyncFact
    <3> QED BY <2>2, <3>1, <3>2, LateNone DEF News
  <2> QED BY <1>1, <2>1, <2>2
<1>4. FeedsData(H \cup F, X \cup Y, r, item, S)
  <2>1. CASE r.mode = "xsync"
    <3>1. Y = {<<S, d>>}
      BY <2>1
    <3>2. Known(X \cup Y, S, DataAfter(item))
      BY <1>2, <3>1 DEF Known
    <3> HIDE DEF F, Y
    <3> QED BY <1>2, <2>1, <3>2 DEF FeedsData, Wrote
  <2>2. CASE r.mode = "psync"
    <3>1. <<r.replid, r.offset + 1, DataAfter(item)>> \in H \cup F
      BY <1>2, <2>2
    <3> HIDE DEF F, Y
    <3> QED BY <1>2, <2>2, <3>1 DEF FeedsData, Wrote
  <2> QED BY <1>1, <2>1, <2>2
<1> HIDE DEF F, Y
<1>5. \A t \in Servers : t # s =>
          conn'[t] = IF t \in Slaves(s) THEN [conn[t] EXCEPT !.chan = Append(@, Command(item))]
                     ELSE conn[t]
  BY <1>2 DEF FeedAll
<1>6. conn'[s] = Closed
  <2>1. s \notin Slaves(s)
    BY KickIs
  <2> QED BY <1>2, <2>1 DEF FeedAll
<1>7. LinkData(H \cup F, X \cup Y, ids, conn'[s], q, srv'[Up(s)])
  BY <1>6, NoLink
<1>8. srv' = [srv EXCEPT ![s] = q]
  BY <1>2 DEF FeedAll
<1>9. q = Feed(Ran(srv[s], DataAfter(item), S), item)
  OBVIOUS
<1> HIDE DEF q
<1>10. FedTo(H, X, F, Y, s, item, S, q)
  BY <1>2, <1>3, <1>4, <1>5, <1>7, <1>8, <1>9 DEF FedTo, News
<1> QED BY <1>10, FedStep

\* A write without a backlog.
LEMMA UnloggedStep ==
  ASSUME IInv, NEW H, NEW X, Data(H, X), NEW s \in Servers, ~srv[s].backlog,
         srv[s].prev = Unset \/ srv[s].from # srv[s].offset + 1,
         NEW x, NEW d, NEW S, NEW item, Wrote(s, srv[s], x, d, S, item)
  PROVE  \E K, Z : Data(K, Z)'
<1> DEFINE r == srv[s]
           q == Ran(r, d, S)
           Y == IF r.mode = "psync" THEN {} ELSE {<<S, d>>}
<1>1. /\ r \in ServerState(given) /\ StreamOK(r) /\ ServerData(H, X, ids, r) /\ ids \in Nat
      /\ r.offset \in Int /\ r.mode \in {"psync", "xsync"} /\ given \in SUBSET Gtid
  BY DataIs
<1>2. /\ d \in Seq(Nat) /\ given \subseteq given' /\ given' \in SUBSET Gtid /\ S \in SUBSET given'
      /\ master[s] = None /\ master' = master /\ ids' = ids /\ conn[s] = Closed
      /\ FeedAll(conn, s, q, item)
  BY DEF Wrote
<1>3. Slaves(s) = {}
  <2> SUFFICES ASSUME NEW t \in Slaves(s) PROVE FALSE
    OBVIOUS
  <2>1. t \in Servers /\ master[t] = s /\ conn[t].attached
    BY DEF Slaves
  <2>2. Linked(conn[t], srv[t], srv[s], MasterUuid(s))
    BY <2>1, ServerIs
  <2> QED BY <2>1, <2>2 DEF Linked
<1>4. r \in ServerState(given')
  BY <1>1, <1>2, Monotone
<1>5. q = Ran(r, d, S)
  OBVIOUS
<1>6. /\ q \in ServerState(given') /\ q.data = d /\ q.executed = S /\ SameOffsets(r, q)
  <2> HIDE DEF q
  <2> QED BY <1>2, <1>4, <1>5, RanFields
<1>7. conn' = conn
  <2>1. conn \in [Servers -> Connection(given)]
    BY DEF IInv, Typed
  <2>2. conn' = [t \in Servers |-> conn[t]]
    BY <1>2, <1>3 DEF FeedAll
  <2> QED BY <2>1, <2>2
<1>8. srv' = [srv EXCEPT ![s] = q]
  <2> HIDE DEF q
  <2>1. ~q.backlog
    BY <1>6 DEF SameOffsets
  <2>2. Feed(q, item) = q
    BY <2>1 DEF Feed
  <2> QED BY <1>2, <2>2 DEF FeedAll
<1>9. r.mode = "xsync" => Known(X \cup Y, S, d)
  BY DEF Known
<1>10. FactsOK(H \cup {}, X \cup Y, ids', given')
  <2>1. CASE r.mode = "psync"
    <3>1. Y = {} /\ ids' \in Nat /\ ids <= ids'
      BY <1>1, <1>2, <2>1
    <3> HIDE DEF Y
    <3>2. FactsOK(H \cup {}, X \cup {}, ids', given')
      BY <1>2, <3>1, FactsSame
    <3> QED BY <3>1, <3>2
  <2>2. CASE r.mode = "xsync"
    <3>1. Y = {<<S, d>>} /\ x \in S /\ x \notin given
      BY <2>2 DEF Wrote
    <3> HIDE DEF Y
    <3>2. FactsOK(H \cup {}, X \cup Y, ids, given')
      BY <1>2, <3>1, XsyncFact
    <3> QED BY <1>2, <3>2
  <2> QED BY <1>1, <2>1, <2>2
<1> HIDE DEF Y
<1>11. ServerData(H \cup {}, X \cup Y, ids', q)
  <2>1. PICK N \in Nat : N = ids
    BY <1>1
  <2>2. ServerData(H, X, N, r)
    BY <1>1, <2>1
  <2> HIDE DEF r, q
  <2>3. ServerData(H, X \cup Y, N, q)
    BY <1>1, <1>2, <1>4, <1>5, <1>9, <2>2, UnloggedData DEF r
  <2>4. H \cup {} = H
    OBVIOUS
  <2> QED BY <1>2, <2>1, <2>3, <2>4
<1> HIDE DEF q
<1>12. /\ q.mode = r.mode /\ q.replid = r.replid /\ ~q.backlog /\ q.prev = r.prev
       /\ q.offset = r.offset /\ q.replid2 = r.replid2 /\ q.off2 = r.off2
  BY <1>6 DEF SameOffsets
<1>13. KeepsSolo(s, q, master'[s] = None \/ ~q.backlog)
  BY <1>1, <1>12 DEF KeepsSolo, Solo
<1>14. KeepsSecond(s, q, master'[s] = None \/ ~q.backlog)
  <2>1. HasPsync(q) => HasPsync(r) /\ PsyncIds(q).replid2 = PsyncIds(r).replid2
                                   /\ PsyncIds(q).off2 = PsyncIds(r).off2
    BY <1>12 DEF HasPsync, PsyncIds
  <2> QED BY <2>1 DEF KeepsSecond
<1>15. master'[s] = None /\ q.mode = "psync" =>
          \A h \in H \cup {} : h[1] = q.replid => h[2] <= q.offset
  BY <1>2, <1>12 DEF Data, SoloOK
<1>16. LinkData(H \cup {}, X \cup Y, ids', conn'[s], q, srv'[Up(s)'])
  BY <1>2, <1>7, NoLink
<1>17. \A t \in Servers : t # s => Undisturbed(s, t, q) /\ Late({}, srv[t], Solo(t))
  BY <1>3, <1>7, LateNone DEF Undisturbed
<1>18. /\ ids' \in Nat /\ ids <= ids' /\ q.offset \in Int
       /\ \A t \in Servers : t # s => master'[t] = master[t]
  BY <1>1, <1>2, <1>12
<1>19. Advances(H, X, {}, Y, s, q)
  BY <1>8, <1>10, <1>11, <1>13, <1>14, <1>15, <1>16, <1>17, <1>18 DEF Advances
<1> QED BY <1>19, DataStep

\* A write.
LEMMA WriteData ==
  ASSUME IInv, NEW H, NEW X, Data(H, X), NEW s \in Servers, Write(s), reused' = {}, ~hidden'
  PROVE  \E K, Z : Data(K, Z)'
<1>1. PICK x, d, S, item : Wrote(s, srv[s], x, d, S, item)
  BY WriteIs
<1>2. CASE srv[s].backlog
  BY <1>1, <1>2, LoggedStep
<1>3. CASE ~srv[s].backlog
  <2>1. hidden' = (hidden \/ (~srv[s].backlog /\ srv[s].prev # Unset
                              /\ srv[s].from = srv[s].offset + 1))
    BY DEF Write
  <2>2. srv[s].prev = Unset \/ srv[s].from # srv[s].offset + 1
    BY <1>3, <2>1
  <2> QED BY <1>1, <1>3, <2>2, UnloggedStep
<1> QED BY <1>2, <1>3

\* The server r is about to run the item, with the gtids S after it.
RunsNext(H, X, r, item, S) ==
    /\ item \in ItemsOf(given) /\ S \in SUBSET given
    /\ FeedsData(H, X, r, item, S)
    /\ Ran(r, DataAfter(item), S) =
         IF item.write = 0 \/ item.gtid \in r.executed THEN r
         ELSE [r EXCEPT !.data = Append(@, item.write),
                        !.executed = IF item.gtid = NoGtid THEN @ ELSE @ \cup {item.gtid}]

\* What a replica is about to run is what its master had next.
LEMMA RanIsNext ==
  ASSUME IInv, NEW H, NEW X, Data(H, X), NEW s \in Servers, NEW r, r = srv[s],
         conn[s].link = "up", Reads(s, "cmd"), NEW item, item = Head(conn[s].chan).item,
         NEW S, S = IF r.mode = "xsync" THEN GtidsAfter(item) ELSE r.executed
  PROVE  RunsNext(H, X, r, item, S)
<1> DEFINE c == conn[s]
           z == Standing(r)
<1>1. /\ r \in ServerState(given) /\ given \in SUBSET Gtid
      /\ c \in Connection(given) /\ r.mode \in {"psync", "xsync"}
      /\ LinkData(H, X, ids, c, r, srv[master[s]])
      /\ r.executed \in SUBSET given
  BY DataIs, ServerTypes
<1>2. c.chan # << >> /\ Head(c.chan).type = "cmd"
  BY DEF Reads
<1>3. Head(c.chan) \in Messages(given) /\ c.chan[1] = Head(c.chan) /\ 1 \in 1..Len(c.chan)
  <2>1. c.chan \in Seq(Messages(given))
    BY <1>1, ConnectionTypes
  <2> QED BY <1>2, <2>1
<1>4. /\ item \in ItemsOf(given) /\ item.gtid \in given \cup {NoGtid} /\ item.write \in Nat
      /\ item.executed \in SUBSET given
  <2>1. item \in ItemsOf(given)
    BY <1>2, <1>3, MessageTypes
  <2> QED BY <2>1 DEF ItemsOf
<1>5. S \in SUBSET given
  BY <1>1, <1>4 DEF GtidsAfter
<1>6. PendingOK(H, X, z, c.chan)
  BY <1>1 DEF LinkData, Start, Rest
<1>7. FirstOK(z, item) /\ FactOK(H, X, z, 1, item)
  <2> HIDE DEF c, z
  <2>1. c.chan[1].type = "cmd" /\ c.chan[1].item = item
    BY <1>2, <1>3 DEF c
  <2> QED BY <1>3, <1>6, <2>1 DEF PendingOK
<1>8. /\ z.mode = r.mode /\ z.data = r.data /\ z.executed = r.executed /\ z.replid = r.replid
      /\ z.offset = r.offset
  BY DEF Standing
<1> HIDE DEF z, c
<1>9. FeedsData(H, X, r, item, S)
  BY <1>1, <1>7, <1>8 DEF FeedsData, FirstOK, FactOK
<1>10. NoGtid \notin r.executed
  <2>1. NoGtid \notin Gtid
    BY DEF Gtid, NoGtid
  <2> QED BY <1>1, <2>1
<1>11. /\ item.data = r.data
       /\ item.gtid \notin r.executed
       /\ S = IF item.gtid = NoGtid THEN r.executed ELSE r.executed \cup {item.gtid}
       /\ item.write = 0 => S = r.executed
  <2>1. CASE r.mode = "xsync"
    BY <1>7, <1>8, <2>1 DEF FirstOK, FactOK, XItem, GtidsAfter
  <2>2. CASE r.mode = "psync"
    BY <1>7, <1>8, <1>10, <2>2 DEF FirstOK, FactOK
  <2> QED BY <1>1, <2>1, <2>2
<1>12. Ran(r, DataAfter(item), S) =
          IF item.write = 0 \/ item.gtid \in r.executed THEN r
          ELSE [r EXCEPT !.data = Append(@, item.write),
                         !.executed = IF item.gtid = NoGtid THEN @ ELSE @ \cup {item.gtid}]
  <2>1. CASE item.write = 0
    <3>1. DataAfter(item) = r.data /\ S = r.executed
      BY <1>11, <2>1 DEF DataAfter
    <3>2. Ran(r, r.data, r.executed) = r
      BY <1>1 DEF Ran, ServerState
    <3> QED BY <2>1, <3>1, <3>2
  <2>2. CASE item.write # 0
    <3> DEFINE T == IF item.gtid = NoGtid THEN r.executed ELSE r.executed \cup {item.gtid}
    <3>1. DataAfter(item) = Append(r.data, item.write) /\ S = T
      BY <1>11, <2>2 DEF DataAfter
    <3>2. Ran(r, Append(r.data, item.write), T) =
            [r EXCEPT !.data = Append(@, item.write),
                      !.executed = IF item.gtid = NoGtid THEN @ ELSE @ \cup {item.gtid}]
      BY <1>1 DEF Ran, ServerState
    <3> QED BY <1>11, <2>2, <3>1, <3>2
  <2> QED BY <2>1, <2>2
<1> QED BY <1>4, <1>5, <1>9, <1>12 DEF RunsNext

\* A command of the stream.
LEMMA ReadCommandData ==
  ASSUME IInv, NEW H, NEW X, Data(H, X), NEW s \in Servers, ReadCommand(s)
  PROVE  \E K, Z : Data(K, Z)'
<1> DEFINE r == srv[s]
           c == conn[s]
           item == Head(c.chan).item
           S == IF r.mode = "xsync" THEN GtidsAfter(item) ELSE r.executed
           q == Feed(Ran(r, DataAfter(item), S), item)
           m == srv[Up(s)]
           d == conn'[s]
<1>1. /\ r \in ServerState(given) /\ StreamOK(r) /\ given \in SUBSET Gtid /\ ids \in Nat
      /\ c \in Connection(given) /\ ChanOK(c) /\ r.offset \in Int
      /\ r.mode \in {"psync", "xsync"} /\ master[s] # s
      /\ c.link = "up" => r.backlog
      /\ c.link # "down" => master[s] \in Servers /\ LinkData(H, X, ids, c, r, srv[master[s]])
  BY DataIs
<1>2. Reads(s, "cmd") /\ c.chan # << >> /\ Head(c.chan).type = "cmd"
      /\ UNCHANGED <<master, ids, given>>
  BY DEF ReadCommand, Reads, history
<1>3. c.link = "up"
  BY <1>1, <1>2, WhoReads
<1>4. master[s] \in Servers /\ Up(s) = master[s] /\ Up(s) # s
  BY <1>1, <1>3, ConstantsAssumption DEF Up
<1>5. RunsNext(H, X, r, item, S)
  <2>1. /\ r = srv[s] /\ item = Head(conn[s].chan).item /\ conn[s].link = "up"
        /\ S = IF r.mode = "xsync" THEN GtidsAfter(item) ELSE r.executed
    BY <1>3 DEF r, item, S
  <2> HIDE DEF r, item, S
  <2> QED BY <1>2, <2>1, RanIsNext
<1>6. item \in ItemsOf(given) /\ S \in SUBSET given /\ FeedsData(H, X, r, item, S)
  BY <1>5 DEF RunsNext
<1>7. FeedAll([conn EXCEPT ![s].chan = Tail(@)], s, Ran(r, DataAfter(item), S), item)
  BY <1>5 DEF ReadCommand, RunsNext
<1>8. srv' = [srv EXCEPT ![s] = q]
  BY <1>7 DEF FeedAll
<1> HIDE DEF S, item
<1>9. conn \in [Servers -> Connection(given)] /\ s \notin Slaves(s)
  BY KickIs DEF IInv, Typed
<1>10. \A t \in Servers : t # s =>
           conn'[t] = IF t \in Slaves(s) THEN [conn[t] EXCEPT !.chan = Append(@, Command(item))]
                      ELSE conn[t]
  BY <1>7, <1>9 DEF FeedAll
<1>11. d = [c EXCEPT !.chan = Tail(@)]
  BY <1>7, <1>9 DEF FeedAll
<1>12. d.link = "up" /\ d.chan = Tail(c.chan) /\ d.attached = c.attached
  <2> HIDE DEF d, c
  <2> QED BY <1>1, <1>3, <1>11 DEF Connection
<1>13. DataAfter(item) \in Seq(Nat)
  BY <1>6 DEF DataAfter, ItemsOf
<1>14. /\ q.mode = r.mode /\ q.replid = r.replid /\ q.offset = r.offset + 1
       /\ q.data = DataAfter(item) /\ q.executed = S
  <2> DEFINE u == Ran(r, DataAfter(item), S)
  <2>1. u \in ServerState(given) /\ SameOffsets(r, u) /\ u.data = DataAfter(item) /\ u.executed = S
        /\ StreamOK(u)
    BY <1>1, <1>6, <1>13, RanFields
  <2>2. q = Feed(u, item)
    OBVIOUS
  <2>3. u.backlog /\ u.mode = r.mode /\ u.replid = r.replid /\ u.offset = r.offset
    BY <1>1, <1>3, <2>1 DEF SameOffsets
  <2> HIDE DEF u, q
  <2>4. /\ q.mode = u.mode /\ q.replid = u.replid /\ q.executed = u.executed
        /\ q.offset = IF u.backlog THEN u.offset + 1 ELSE u.offset
    BY <1>1, <1>6, <2>1, <2>2, FeedIs
  <2>5. q.data = u.data
    BY <1>1, <1>6, <2>1, <2>2, <2>3, FeedAdds
  <2> QED BY <2>1, <2>3, <2>4, <2>5
<1> HIDE DEF q
<1>15. r.mode = "xsync" => S = GtidsAfter(item)
  BY DEF S
<1>16. LinkData(H, X, ids, d, q, m)
  <2>1. LinkData(H, X, ids, c, r, m) /\ item = Head(c.chan).item
    BY <1>1, <1>3, <1>4 DEF item
  <2> HIDE DEF r, c, m, d
  <2> QED BY <1>1, <1>2, <1>3, <1>12, <1>14, <1>15, <2>1, LinkRan
<1>17. H \cup {} = H /\ X \cup {} = X
  OBVIOUS
<1>18. srv'[Up(s)] = m
  BY <1>4, <1>8
<1>19. FactsOK(H \cup {}, X \cup {}, ids, given')
  <2>1. ids' \in Nat /\ ids <= ids' /\ given \subseteq given' /\ ids' = ids
    BY <1>1, <1>2
  <2>2. FactsOK(H \cup {}, X \cup {}, ids', given')
    BY <2>1, FactsSame
  <2> QED BY <2>1, <2>2
<1>20. LinkData(H \cup {}, X \cup {}, ids, conn'[s], q, srv'[Up(s)])
       /\ FeedsData(H \cup {}, X \cup {}, srv[s], item, S)
  BY <1>6, <1>16, <1>17, <1>18
<1>21. q = Feed(Ran(srv[s], DataAfter(item), S), item)
  BY DEF q
<1>22. FedTo(H, X, {}, {}, s, item, S, q)
  BY <1>1, <1>2, <1>3, <1>6, <1>8, <1>10, <1>19, <1>20, <1>21, LateNone DEF FedTo
<1> QED BY <1>22, FedStep

----------------------------------------------------------------------------
(* Answers.                                                                *)

\* The connections of a replica that reads an answer.
LEMMA ReadConnections ==
  ASSUME IInv, NEW s \in Servers, NEW kick \in BOOLEAN,
         conn[s].chan # << >>, Message(s).type \in Answer, Read(s, kick)
  PROVE  /\ conn[s].link = "wait" /\ master[s] \in Servers
         /\ conn'[s].link = "up" /\ conn'[s].chan = Tail(conn[s].chan)
         /\ conn'[s].attached = conn[s].attached
         /\ \A t \in Servers : t # s => conn'[t] = IF kick THEN Kick(conn, s)[t] ELSE conn[t]
<1> DEFINE c == conn[s]
           d == [c EXCEPT !.link = "up", !.chan = Tail(@)]
           k == IF kick THEN Kick(conn, s) ELSE conn
<1>1. /\ c \in Connection(given) /\ ChanOK(c)
      /\ c.link # "down" => master[s] \in Servers
      /\ conn \in [Servers -> Connection(given)]
  BY ServerIs DEF Linked, IInv, Typed
<1>2. c.link = "wait" /\ master[s] \in Servers
  <2>1. c.chan # << >> /\ Head(c.chan).type \in Answer
    BY DEF Message
  <2> HIDE DEF c
  <2>2. c.link = "wait"
    BY <1>1, <2>1, WhoReads DEF Answer
  <2> QED BY <1>1, <2>2
<1>3. d.link = "up" /\ d.chan = Tail(c.chan) /\ d.attached = c.attached
  <2> HIDE DEF c
  <2> QED BY <1>1 DEF Connection
<1>4. k \in [Servers -> Connection(given)] /\ k[s] = c
  BY <1>1, KickIs
<1>5. conn' = [k EXCEPT ![s].link = "up", ![s].chan = Tail(@)]
  BY DEF Read
<1>6. \A t \in Servers : k[t] = IF kick THEN Kick(conn, s)[t] ELSE conn[t]
  OBVIOUS
<1> HIDE DEF k
<1>7. conn' = [k EXCEPT ![s] = [k[s] EXCEPT !.link = "up", !.chan = Tail(@)]]
  BY <1>4, <1>5 DEF Connection
<1>8. conn' = [k EXCEPT ![s] = d]
  BY <1>4, <1>7
<1> HIDE DEF d
<1>9. conn'[s] = d /\ \A t \in Servers : t # s => conn'[t] = k[t]
  BY <1>4, <1>8
<1> QED BY <1>2, <1>3, <1>6, <1>9

\* The server q that s becomes by what it reads.
Takes(H, X, s, q) ==
    /\ ServerData(H, X, ids, q) /\ q.backlog /\ q.offset \in Int
    /\ Standing(q) = Becomes(srv[s], Message(s))
    /\ KeepsSecond(s, q, FALSE)

\* Reading an answer preserves the invariant, if the replica becomes what it should.
LEMMA AnswerStep ==
  ASSUME IInv, NEW H, NEW X, Data(H, X), NEW s \in Servers, NEW q, Takes(H, X, s, q),
         srv' = [srv EXCEPT ![s] = q], NEW kick \in BOOLEAN,
         kick \/ (q.data = srv[s].data /\ q.executed = srv[s].executed),
         conn[s].chan # << >>, Message(s).type \in Answer, Read(s, kick),
         UNCHANGED <<master, ids, given>>
  PROVE  \E K, Z : Data(K, Z)'
<1>1. /\ conn[s].link = "wait" /\ master[s] \in Servers
      /\ conn'[s].link = "up" /\ conn'[s].chan = Tail(conn[s].chan)
      /\ conn'[s].attached = conn[s].attached
      /\ \A t \in Servers : t # s => conn'[t] = IF kick THEN Kick(conn, s)[t] ELSE conn[t]
  BY ReadConnections
<1>2. /\ ids \in Nat /\ master[s] # s /\ LinkData(H, X, ids, conn[s], srv[s], srv[master[s]])
  BY <1>1, DataIs
<1>3. master[s] # None /\ Up(s) = master[s] /\ Up(s) # s /\ Up(s)' = Up(s)
  BY <1>1, <1>2, ConstantsAssumption DEF Up
<1>4. srv'[Up(s)'] = srv[master[s]]
  BY <1>1, <1>3
<1>5. LinkData(H, X, ids, conn'[s], q, srv[master[s]])
  <2> DEFINE c == conn[s]
             d == conn'[s]
             m == srv[master[s]]
             r == srv[s]
  <2>1. /\ LinkData(H, X, ids, c, r, m) /\ c.link = "wait"
        /\ Standing(q) = Becomes(r, Head(c.chan))
        /\ d.link = "up" /\ d.chan = Tail(c.chan) /\ d.attached = c.attached
    BY <1>1, <1>2 DEF Takes, Message
  <2>2. LinkData(H, X, ids, d, q, m)
    <3> HIDE DEF c, d, m, r
    <3> QED BY <2>1, LinkAnswered
  <2> QED BY <2>2
<1>6. H \cup {} = H /\ X \cup {} = X
  OBVIOUS
<1>7. ids' \in Nat /\ ids <= ids' /\ ids' = ids /\ given' = given
  BY <1>2
<1>8. FactsOK(H \cup {}, X \cup {}, ids', given')
  BY <1>7, FactsSame
<1>9. /\ ServerData(H \cup {}, X \cup {}, ids', q)
      /\ LinkData(H \cup {}, X \cup {}, ids', conn'[s], q, srv'[Up(s)'])
  BY <1>4, <1>5, <1>6, <1>7 DEF Takes
<1>10. master'[s] # None /\ ((master'[s] = None \/ ~q.backlog) = FALSE)
  BY <1>3 DEF Takes
<1>11. /\ KeepsSolo(s, q, master'[s] = None \/ ~q.backlog)
       /\ KeepsSecond(s, q, master'[s] = None \/ ~q.backlog)
  BY <1>10 DEF KeepsSolo, Takes
<1>12. \A t \in Servers : t # s => Late({}, srv[t], Solo(t))
  BY LateNone
<1>13. ASSUME NEW t \in Servers, t # s PROVE Undisturbed(s, t, q)
  <2>1. CASE kick
    BY <1>1, <1>13, <2>1, KickUndisturbed
  <2>2. CASE ~kick
    BY <1>1, <1>13, <2>2 DEF Undisturbed
  <2> QED BY <2>1, <2>2
<1>14. q.offset \in Int /\ \A t \in Servers : t # s => master'[t] = master[t]
  BY DEF Takes
<1>15. Advances(H, X, {}, {}, s, q)
  BY <1>7, <1>8, <1>9, <1>10, <1>11, <1>12, <1>13, <1>14 DEF Advances
<1> QED BY <1>15, DataStep

\* What a replica that waits has been promised.
LEMMA AnswerData ==
  ASSUME IInv, NEW H, NEW X, Data(H, X), NEW s \in Servers, conn[s].chan # << >>,
         Message(s).type \in Answer
  PROVE  /\ conn[s].link = "wait" /\ AnswerOK(H, ids, srv[s], Message(s))
         /\ StartOK(H, X, Becomes(srv[s], Message(s)))
<1>1. conn[s] \in Connection(given) /\ ChanOK(conn[s])
  BY DataIs
<1>2. conn[s].link = "wait"
  <2> DEFINE c == conn[s]
  <2>1. c.chan # << >> /\ Head(c.chan).type \in Answer /\ c \in Connection(given) /\ ChanOK(c)
    BY <1>1 DEF Message
  <2>2. c.link = "wait"
    <3> HIDE DEF c
    <3> QED BY <2>1, WhoReads DEF Answer
  <2> QED BY <2>2
<1>3. LinkData(H, X, ids, conn[s], srv[s], srv[master[s]])
  BY <1>2, DataIs
<1> QED BY <1>2, <1>3 DEF LinkData, Start, Message

\* What stands is what the answer said.
LEMMA StandsAs ==
  ASSUME NEW q, NEW r, NEW a, NEW mode, NEW d, NEW S, NEW o, NEW id, NEW id2,
         Stands(q, mode, d, S, o, id, id2),
         Becomes(r, a) = [mode |-> mode, data |-> d, executed |-> S, offset |-> o, replid |-> id]
  PROVE  Standing(q) = Becomes(r, a)
BY DEF Stands, Standing

\* XSYNC => CONTINUE.
LEMMA ReadContinueXsyncData ==
  ASSUME IInv, NEW H, NEW X, Data(H, X), NEW s \in Servers, ReadContinueXsync(s)
  PROVE  \E K, Z : Data(K, Z)'
<1> DEFINE r == srv[s]
           a == Message(s)
           q == CreateBacklog(serverReplStreamSwitch2Psync(r, a.replid, a.reploff))
<1>1. /\ conn[s].chan # << >> /\ a.type = "continue" /\ a.type \in Answer /\ r.mode = "xsync"
      /\ srv' = [srv EXCEPT ![s] = q] /\ Read(s, TRUE) /\ UNCHANGED <<master, ids, given>>
  BY DEF ReadContinueXsync, Become, Reads, Message, bounds, history, Answer
<1>2. a.replid \in Nat /\ a.reploff \in Int
  BY <1>1, AnswerTypes
<1>3. r \in ServerState(given) /\ StreamOK(r) /\ ids \in Nat /\ ServerData(H, X, ids, r)
  BY DataIs
<1>4. AnswerOK(H, ids, r, a) /\ StartOK(H, X, Becomes(r, a))
  BY <1>1, AnswerData
<1> HIDE DEF a
<1>5. Becomes(r, a) = [mode |-> "psync", data |-> r.data, executed |-> r.executed,
                       offset |-> a.reploff, replid |-> a.replid]
  BY <1>1 DEF Becomes
<1>6. a.replid \in 1..ids /\ <<a.replid, a.reploff, r.data>> \in H
  BY <1>4, <1>5 DEF AnswerOK, StartOK
<1>7. ServerData(H, X, ids, q) /\ Stands(q, "psync", r.data, r.executed, a.reploff, a.replid, NoId)
  <2>1. PICK N \in Nat : N = ids
    BY <1>3
  <2>2. PICK id \in 1..N : id = a.replid
    BY <1>6, <2>1
  <2>3. PICK reploff \in Int : reploff = a.reploff
    BY <1>2
  <2>4. ServerData(H, X, N, r) /\ <<id, reploff, r.data>> \in H
    BY <1>3, <1>6, <2>1, <2>2, <2>3
  <2>5. q = CreateBacklog(serverReplStreamSwitch2Psync(r, id, reploff))
    BY <2>2, <2>3
  <2> HIDE DEF r, q
  <2>6. ServerData(H, X, N, q) /\ Stands(q, "psync", r.data, r.executed, reploff, id, NoId)
    BY <1>1, <1>3, <2>1, <2>2, <2>3, <2>4, <2>5, ToPsyncRead
  <2> QED BY <2>1, <2>2, <2>3, <2>6
<1> HIDE DEF r, q
<1>8. Standing(q) = Becomes(r, a)
  BY <1>5, <1>7, StandsAs
<1>9. KeepsSecond(s, q, FALSE)
  BY <1>7 DEF KeepsSecond, Stands, PsyncIds
<1>10. Takes(H, X, s, q)
  BY <1>2, <1>7, <1>8, <1>9 DEF Takes, Stands, r, a
<1> QED BY <1>1, <1>10, AnswerStep DEF a

\* PSYNC => XCONTINUE.
LEMMA ReadXcontinuePsyncData ==
  ASSUME IInv, NEW H, NEW X, Data(H, X), NEW s \in Servers, ReadXcontinuePsync(s)
  PROVE  \E K, Z : Data(K, Z)'
<1> DEFINE r == srv[s]
           a == Message(s)
           q == CreateBacklog(serverReplStreamSwitch2Xsync(r, a.replid, a.reploff, a.muuid, a.cont))
<1>1. /\ conn[s].chan # << >> /\ a.type = "xcontinue" /\ a.type \in Answer /\ r.mode = "psync"
      /\ srv' = [srv EXCEPT ![s] = q] /\ Read(s, TRUE) /\ UNCHANGED <<master, ids, given>>
  BY DEF ReadXcontinuePsync, Become, Reads, Message, bounds, history, Answer
<1>2. /\ a.replid \in Nat /\ a.reploff \in Int /\ a.muuid \in MasterUid
      /\ a.cont \in SUBSET given
  BY <1>1, AnswerTypes
<1>3. /\ r \in ServerState(given) /\ StreamOK(r) /\ ids \in Nat /\ ServerData(H, X, ids, r)
      /\ r.offset \in Int
  BY DataIs
<1>4. AnswerOK(H, ids, r, a) /\ StartOK(H, X, Becomes(r, a))
  BY <1>1, AnswerData
<1> HIDE DEF a
<1>5. Becomes(r, a) = [mode |-> "xsync", data |-> r.data, executed |-> a.cont,
                       offset |-> r.offset, replid |-> a.replid]
  BY <1>1 DEF Becomes
<1>6. a.replid \in 1..ids /\ r.backlog /\ Known(X, a.cont, r.data)
  BY <1>1, <1>4, <1>5 DEF AnswerOK, StartOK
<1>7. /\ ServerData(H, X, ids, q) /\ Stands(q, "xsync", r.data, a.cont, r.offset, a.replid, NoId)
      /\ q.prev.replid2 = r.replid2 /\ q.prev.off2 = r.off2
  <2>1. PICK N \in Nat : N = ids
    BY <1>3
  <2>2. PICK id \in 1..N : id = a.replid
    BY <1>6, <2>1
  <2>3. PICK reploff \in Int : reploff = a.reploff
    BY <1>2
  <2>4. PICK muuid \in MasterUid : muuid = a.muuid
    BY <1>2
  <2>5. PICK cont \in SUBSET given : cont = a.cont
    BY <1>2
  <2>6. ServerData(H, X, N, r) /\ Known(X, cont, r.data)
    BY <1>3, <1>6, <2>1, <2>5
  <2>7. q = CreateBacklog(serverReplStreamSwitch2Xsync(r, id, reploff, muuid, cont))
    BY <2>2, <2>3, <2>4, <2>5
  <2>8. r \in ServerState(given) /\ StreamOK(r) /\ r.mode = "psync" /\ r.backlog
    BY <1>1, <1>3, <1>6
  <2> HIDE DEF r, q
  <2>9. ReadsXsync(H, X, N, r, q, cont, id)
    BY <2>1, <2>2, <2>3, <2>4, <2>5, <2>6, <2>7, <2>8, ToXsyncRead
  <2> QED BY <2>1, <2>2, <2>5, <2>9 DEF ReadsXsync
<1>8. KeepsSecond(s, q, FALSE)
  <2> HIDE DEF q
  <2>1. PsyncIds(q) = q.prev /\ HasPsync(r) /\ PsyncIds(r) = r
    BY <1>1, <1>7 DEF Stands, PsyncIds, HasPsync
  <2> QED BY <1>7, <2>1 DEF KeepsSecond
<1> HIDE DEF r, q
<1>9. Standing(q) = Becomes(r, a)
  BY <1>5, <1>7, StandsAs
<1>10. Takes(H, X, s, q)
  BY <1>3, <1>7, <1>8, <1>9 DEF Takes, Stands, r, a
<1> QED BY <1>1, <1>10, AnswerStep DEF a

\* FULLRESYNC.
LEMMA ReadFullresyncData ==
  ASSUME IInv, NEW H, NEW X, Data(H, X), NEW s \in Servers, ReadFullresync(s)
  PROVE  \E K, Z : Data(K, Z)'
<1> DEFINE r == srv[s]
           a == Message(s)
           q == CreateBacklog([serverReplStreamReset2Psync(r, a.replid, a.reploff)
                                 EXCEPT !.data = a.data])
<1>1. /\ conn[s].chan # << >> /\ a.type = "fullresync" /\ a.type \in Answer
      /\ srv' = [srv EXCEPT ![s] = q] /\ Read(s, TRUE) /\ UNCHANGED <<master, ids, given>>
  BY DEF ReadFullresync, Become, Reads, Message, bounds, history, Answer
<1>2. a.replid \in Nat /\ a.reploff \in Int /\ a.data \in Seq(Nat)
  BY <1>1, AnswerTypes
<1>3. r \in ServerState(given) /\ ids \in Nat
  BY DataIs
<1>4. AnswerOK(H, ids, r, a) /\ StartOK(H, X, Becomes(r, a))
  BY <1>1, AnswerData
<1> HIDE DEF a
<1>5. Becomes(r, a) = [mode |-> "psync", data |-> a.data, executed |-> r.executed,
                       offset |-> a.reploff, replid |-> a.replid]
  BY <1>1 DEF Becomes
<1>6. a.replid \in 1..ids /\ <<a.replid, a.reploff, a.data>> \in H
  BY <1>4, <1>5 DEF AnswerOK, StartOK
<1>7. ServerData(H, X, ids, q) /\ Stands(q, "psync", a.data, r.executed, a.reploff, a.replid, NoId)
  <2>1. PICK N \in Nat : N = ids
    BY <1>3
  <2>2. PICK id \in 1..N : id = a.replid
    BY <1>6, <2>1
  <2>3. PICK reploff \in Int : reploff = a.reploff
    BY <1>2
  <2>4. PICK d \in Seq(Nat) : d = a.data
    BY <1>2
  <2>5. <<id, reploff, d>> \in H
    BY <1>6, <2>2, <2>3, <2>4
  <2>6. q = CreateBacklog([serverReplStreamReset2Psync(r, id, reploff) EXCEPT !.data = d])
    BY <2>2, <2>3, <2>4
  <2> HIDE DEF r, q
  <2>7. ServerData(H, X, N, q) /\ Stands(q, "psync", d, r.executed, reploff, id, NoId)
    BY <1>3, <2>1, <2>2, <2>3, <2>4, <2>5, <2>6, ResetPsyncRead
  <2> QED BY <2>1, <2>2, <2>3, <2>4, <2>7
<1> HIDE DEF r, q
<1>8. Standing(q) = Becomes(r, a)
  BY <1>5, <1>7, StandsAs
<1>9. KeepsSecond(s, q, FALSE)
  BY <1>7 DEF KeepsSecond, Stands, PsyncIds
<1>10. Takes(H, X, s, q)
  BY <1>2, <1>7, <1>8, <1>9 DEF Takes, Stands, r, a
<1> QED BY <1>1, <1>10, AnswerStep DEF a

\* XFULLRESYNC.
LEMMA ReadXfullresyncData ==
  ASSUME IInv, NEW H, NEW X, Data(H, X), NEW s \in Servers, ReadXfullresync(s)
  PROVE  \E K, Z : Data(K, Z)'
<1> DEFINE r == srv[s]
           a == Message(s)
           q == CreateBacklog([serverReplStreamReset2Xsync(r, a.replid, a.reploff, a.muuid, a.executed)
                                 EXCEPT !.data = a.data])
<1>1. /\ conn[s].chan # << >> /\ a.type = "xfullresync" /\ a.type \in Answer
      /\ srv' = [srv EXCEPT ![s] = q] /\ Read(s, TRUE) /\ UNCHANGED <<master, ids, given>>
  BY DEF ReadXfullresync, Become, Reads, Message, bounds, history, Answer
<1>2. /\ a.replid \in Nat /\ a.reploff \in Int /\ a.data \in Seq(Nat)
      /\ a.muuid \in MasterUid /\ a.executed \in SUBSET given
  BY <1>1, AnswerTypes
<1>3. r \in ServerState(given) /\ ids \in Nat
  BY DataIs
<1>4. AnswerOK(H, ids, r, a) /\ StartOK(H, X, Becomes(r, a))
  BY <1>1, AnswerData
<1> HIDE DEF a
<1>5. Becomes(r, a) = [mode |-> "xsync", data |-> a.data, executed |-> a.executed,
                       offset |-> a.reploff, replid |-> a.replid]
  BY <1>1 DEF Becomes
<1>6. a.replid \in 1..ids /\ Known(X, a.executed, a.data)
  BY <1>4, <1>5 DEF AnswerOK, StartOK
<1>7. /\ ServerData(H, X, ids, q)
      /\ Stands(q, "xsync", a.data, a.executed, a.reploff, a.replid, NoId) /\ ~HasPsync(q)
  <2>1. PICK N \in Nat : N = ids
    BY <1>3
  <2>2. PICK id \in 1..N : id = a.replid
    BY <1>6, <2>1
  <2>3. PICK reploff \in Int : reploff = a.reploff
    BY <1>2
  <2>4. PICK d \in Seq(Nat) : d = a.data
    BY <1>2
  <2>5. PICK muuid \in MasterUid : muuid = a.muuid
    BY <1>2
  <2>6. PICK S \in SUBSET given : S = a.executed
    BY <1>2
  <2>7. Known(X, S, d)
    BY <1>6, <2>4, <2>6
  <2>8. q = CreateBacklog([serverReplStreamReset2Xsync(r, id, reploff, muuid, S)
                             EXCEPT !.data = d])
    BY <2>2, <2>3, <2>4, <2>5, <2>6
  <2> HIDE DEF r, q
  <2>9. /\ ServerData(H, X, N, q) /\ Stands(q, "xsync", d, S, reploff, id, NoId)
        /\ ~HasPsync(q)
    BY <1>3, <2>1, <2>2, <2>3, <2>4, <2>5, <2>6, <2>7, <2>8, ResetXsyncRead
  <2> QED BY <2>1, <2>2, <2>3, <2>4, <2>6, <2>9
<1> HIDE DEF r, q
<1>8. Standing(q) = Becomes(r, a)
  BY <1>5, <1>7, StandsAs
<1>9. KeepsSecond(s, q, FALSE)
  BY <1>7 DEF KeepsSecond
<1>10. Takes(H, X, s, q)
  BY <1>2, <1>7, <1>8, <1>9 DEF Takes, Stands, r, a
<1> QED BY <1>1, <1>10, AnswerStep DEF a

\* A server that may extend the history of a psync server's id has gone as far.
LEMMA SoloAhead ==
  ASSUME IInv, NEW H, NEW X, Data(H, X), NEW s \in Servers, srv[s].mode = "psync", srv[s].backlog,
         NEW t \in Servers, Solo(t), srv[t].mode = "psync", srv[t].replid = srv[s].replid
  PROVE  srv[t].backlog /\ srv[s].offset <= srv[t].offset
<1> DEFINE r == srv[s]
<1>1. r \in ServerState(given) /\ StreamOK(r) /\ ServerData(H, X, ids, r)
  BY DataIs
<1>2. <<r.replid, r.offset, r.data>> \in H
  <2>1. r.offset \in Window(r) /\ DataAt(r, r.offset) = r.data /\ InPsync(r, r.offset)
    BY <1>1, OffsetIs
  <2>2. PsyncIds(r) = r
    BY DEF PsyncIds
  <2> QED BY <1>1, <2>1, <2>2 DEF ServerData, IdFacts
<1>3. srv[t].backlog
  <2>1. ServerData(H, X, ids, srv[t])
    BY DataIs
  <2> QED BY <1>2, <2>1 DEF ServerData
<1>4. master[t] = None
  BY <1>3 DEF Solo
<1>5. r.offset <= srv[t].offset
  BY <1>2, <1>4 DEF Data, SoloOK
<1> QED BY <1>3, <1>5

\* PSYNC => CONTINUE: what the new id names, the one before named.
LEMMA ReadContinuePsyncData ==
  ASSUME IInv, NEW H, NEW X, Data(H, X), NEW s \in Servers, ReadContinuePsync(s)
  PROVE  \E K, Z : Data(K, Z)'
<1> DEFINE r == srv[s]
           a == Message(s)
           id == a.replid
           p == IF id = r.replid THEN r ELSE shiftReplicationId(r, id)
           q == CreateBacklog(p)
           kick == (id # r.replid)
<1>1. /\ conn[s].chan # << >> /\ a.type = "continue" /\ a.type \in Answer /\ r.mode = "psync"
      /\ srv' = [srv EXCEPT ![s] = q] /\ Read(s, kick) /\ UNCHANGED <<master, ids, given>>
      /\ kick \in BOOLEAN
  BY DEF ReadContinuePsync, Become, Reads, Message, bounds, history, Answer, shiftReplicationId
<1>2. a.replid \in Nat
  BY <1>1, AnswerTypes
<1>3. /\ r \in ServerState(given) /\ StreamOK(r) /\ ids \in Nat /\ ServerData(H, X, ids, r)
      /\ r.offset \in Int /\ \A h \in H : h[2] \in Int
  BY DataIs
<1>4. AnswerOK(H, ids, r, a) /\ StartOK(H, X, Becomes(r, a))
  BY <1>1, AnswerData
<1> HIDE DEF a
<1>5. Becomes(r, a) = [mode |-> "psync", data |-> r.data, executed |-> r.executed,
                       offset |-> r.offset, replid |-> id]
  BY <1>1 DEF Becomes
<1>6. id \in 1..ids /\ r.backlog
  BY <1>1, <1>4 DEF AnswerOK
<1>7. id # r.replid => \A h \in H : h[1] = r.replid /\ h[2] <= r.offset => <<id, h[2], h[3]>> \in H
  BY <1>1, <1>4 DEF AnswerOK
<1>8. CASE id = r.replid
  <2>1. q = r
    BY <1>6, <1>8 DEF CreateBacklog
  <2> HIDE DEF q, id
  <2>2. Standing(q) = Becomes(r, a)
    BY <1>1, <1>5, <1>8, <2>1 DEF Standing
  <2>3. KeepsSecond(s, q, FALSE)
    BY <2>1 DEF KeepsSecond
  <2>4. Takes(H, X, s, q)
    BY <1>3, <1>6, <2>1, <2>2, <2>3 DEF Takes, a
  <2>5. q.data = srv[s].data /\ q.executed = srv[s].executed
    BY <2>1
  <2> HIDE DEF kick, r
  <2> QED BY <1>1, <2>4, <2>5, AnswerStep DEF a
<1>9. CASE id # r.replid
  <2>1. p = shiftReplicationId(r, id)
    BY <1>9
  <2>2. /\ p.mode = "psync" /\ p.replid = id /\ p.replid2 = r.replid /\ p.off2 = r.offset + 1
        /\ p.offset = r.offset /\ p.backlog = r.backlog /\ p.data = r.data
        /\ p.executed = r.executed
    <3> HIDE DEF p, id
    <3> QED BY <1>1, <1>3, <2>1, ZenonT(60) DEF shiftReplicationId, ServerState
  <2>3. q = p
    BY <1>6, <2>2 DEF CreateBacklog
  <2> HIDE DEF p, q
  <2>4. ServerData(H, X, ids, q)
    <3>1. PICK N \in Nat : N = ids
      BY <1>3
    <3>2. PICK i \in 1..N : i = id
      BY <1>6, <3>1
    <3>3. H \subseteq H /\ N <= N /\ ServerData(H, X, N, r)
      BY <1>3, <3>1
    <3>4. Renames(H, r, i)
      BY <1>1, <1>3, <1>6, <1>7, <1>9, <3>2 DEF Renames
    <3>5. q = shiftReplicationId(r, i)
      BY <2>1, <2>3, <3>2
    <3> HIDE DEF r, id
    <3>6. ServerData(H, X, N, q)
      BY <1>3, <3>1, <3>2, <3>3, <3>4, <3>5, RenamedData
    <3> QED BY <3>1, <3>6
  <2>5. Standing(q) = Becomes(r, a)
    BY <1>5, <2>2, <2>3 DEF Standing
  <2>6. ASSUME NEW t \in Servers, t # s PROVE Settled(q, srv[t], Solo(t))
    <3> SUFFICES ASSUME Solo(t), srv[t].mode = "psync", srv[t].replid = r.replid
                 PROVE  srv[t].backlog /\ q.off2 <= srv[t].offset + 1
      BY <2>2, <2>3 DEF Settled
    <3>1. srv[t].backlog /\ r.offset <= srv[t].offset /\ srv[t].offset \in Int
      BY <1>1, <1>6, SoloAhead, DataIs
    <3> QED BY <1>3, <2>2, <2>3, <3>1
  <2>7. KeepsSecond(s, q, FALSE)
    <3>1. PsyncIds(q) = q /\ Settled(q, q, FALSE)
      BY <2>2, <2>3 DEF PsyncIds, Settled
    <3> QED BY <2>6, <3>1 DEF KeepsSecond
  <2>8. Takes(H, X, s, q)
    BY <1>3, <1>6, <2>2, <2>3, <2>4, <2>5, <2>7 DEF Takes, a
  <2>9. kick
    BY <1>9
  <2> HIDE DEF kick, r
  <2> QED BY <1>1, <2>8, <2>9, AnswerStep DEF a
<1> QED BY <1>8, <1>9

\* XSYNC => XCONTINUE.
LEMMA ReadXcontinueXsyncData ==
  ASSUME IInv, NEW H, NEW X, Data(H, X), NEW s \in Servers, ReadXcontinueXsync(s)
  PROVE  \E K, Z : Data(K, Z)'
<1> DEFINE r == srv[s]
           a == Message(s)
           p == Updated(r, a)
           q == CreateBacklog(p)
           kick == (p # r)
<1>1. /\ conn[s].chan # << >> /\ a.type = "xcontinue" /\ a.type \in Answer /\ r.mode = "xsync"
      /\ srv' = [srv EXCEPT ![s] = q] /\ Read(s, kick) /\ UNCHANGED <<master, ids, given>>
      /\ kick \in BOOLEAN
  BY DEF ReadXcontinueXsync, Become, Reads, Message, bounds, history, Answer
<1>2. a.replid \in Nat /\ a.reploff \in Int /\ a.muuid \in MasterUid
  BY <1>1, AnswerTypes
<1>3. /\ r \in ServerState(given) /\ StreamOK(r) /\ ids \in Nat /\ ServerData(H, X, ids, r)
      /\ r.offset \in Int /\ (HasPsync(r) => PsyncIds(r).off2 \in Int) /\ r.backlog \in BOOLEAN
  BY DataIs, ServerTypes
<1>4. AnswerOK(H, ids, r, a) /\ StartOK(H, X, Becomes(r, a))
  BY <1>1, AnswerData
<1> HIDE DEF a
<1>5. Becomes(r, a) = [mode |-> "xsync", data |-> r.data, executed |-> a.cont,
                       offset |-> r.offset, replid |-> a.replid]
  BY <1>1 DEF Becomes
<1>6. a.replid \in 1..ids /\ a.cont = r.executed
  BY <1>1, <1>4 DEF AnswerOK
<1>7. /\ p \in ServerState(given) /\ StreamOK(p)
      /\ p.mode = r.mode /\ p.from = r.from /\ p.prev = r.prev /\ p.replid = a.replid
      /\ p.replid2 = r.replid2 /\ p.offset = r.offset /\ p.backlog = r.backlog /\ p.boff = r.boff
      /\ p.items = r.items /\ p.idx = r.idx /\ p.executed = r.executed /\ p.data = r.data
  <2> HIDE DEF r
  <2>1. p \in ServerState(given) /\ StreamOK(p)
    BY <1>1, <1>2, <1>3, UpdatedIs
  <2>2. /\ p.mode = r.mode /\ p.from = r.from /\ p.prev = r.prev /\ p.replid = a.replid
        /\ p.replid2 = r.replid2 /\ p.offset = r.offset /\ p.backlog = r.backlog /\ p.boff = r.boff
        /\ p.items = r.items /\ p.idx = r.idx /\ p.executed = r.executed /\ p.data = r.data
    BY <1>3, ZenonT(60) DEF Updated, ServerState
  <2> QED BY <2>1, <2>2
<1> HIDE DEF p
<1>8. ServerData(H, X, ids, p)
  <2>1. PICK N \in Nat : N = ids
    BY <1>3
  <2>2. r.replid2 \in 0..N /\ a.replid \in 1..N
    BY <1>3, <1>6, <2>1 DEF ServerData, IdsOK
  <2>3. Updates(r, p, N) /\ N <= N /\ ServerData(H, X, N, r)
    BY <1>1, <1>3, <1>7, <2>1, <2>2 DEF Updates
  <2>4. ServerData(H, X, N, p)
    <3> HIDE DEF r
    <3> QED BY <1>3, <2>1, <2>3, UpdatedData
  <2> QED BY <2>1, <2>4
<1>9. Backlogged(p, q)
  <2> HIDE DEF r
  <2>1. q = CreateBacklog(p)
    OBVIOUS
  <2> HIDE DEF q
  <2> QED BY <1>7, <2>1, BackloggedIs
<1>10. ServerData(H, X, ids, q)
  <2>1. CASE r.backlog
    BY <1>7, <1>8, <1>9, <2>1 DEF Backlogged
  <2>2. CASE ~r.backlog
    <3>1. PICK N \in Nat : N = ids
      BY <1>3
    <3>2. /\ H \subseteq H /\ X \subseteq X /\ N <= N /\ ServerData(H, X, N, p)
          /\ ~p.backlog /\ p.mode # "psync" /\ q = CreateBacklog(p)
          /\ HasPsync(p) => Joined(H, PsyncIds(p))
      BY <1>1, <1>7, <1>8, <2>2, <3>1 DEF ServerData
    <3>3. ServerData(H, X, N, q)
      <4> HIDE DEF r, q
      <4> QED BY <1>7, <3>1, <3>2, CreatedData
    <3> QED BY <3>1, <3>3
  <2> QED BY <1>3, <2>1, <2>2
<1> HIDE DEF q
<1>11. /\ q.mode = "xsync" /\ q.data = r.data /\ q.executed = r.executed /\ q.offset = r.offset
       /\ q.replid = a.replid /\ q.prev = r.prev /\ q.backlog
  BY <1>1, <1>7, <1>9 DEF Backlogged
<1>12. Standing(q) = Becomes(r, a)
  BY <1>5, <1>6, <1>11 DEF Standing
<1>13. KeepsSecond(s, q, FALSE)
  <2>1. HasPsync(q) => HasPsync(r) /\ PsyncIds(q) = PsyncIds(r)
    BY <1>1, <1>11 DEF HasPsync, PsyncIds
  <2> QED BY <2>1 DEF KeepsSecond
<1>14. Takes(H, X, s, q)
  BY <1>3, <1>10, <1>11, <1>12, <1>13 DEF Takes, a
<1>15. q.data = srv[s].data /\ q.executed = srv[s].executed
  BY <1>11
<1> HIDE DEF kick, r
<1> QED BY <1>1, <1>14, <1>15, AnswerStep DEF a
=============================================================================
