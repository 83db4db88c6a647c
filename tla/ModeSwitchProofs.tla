--------------------------- MODULE ModeSwitchProofs ---------------------------
(***************************************************************************)
(* Proofs about ModeSwitch, for any servers, writes, backlog and           *)
(* disruptions.                                                            *)
(***************************************************************************)
EXTENDS ModeSwitch, FiniteSetTheorems, FunctionTheorems, SequenceTheorems, WellFoundedInduction,
        TLAPS

----------------------------------------------------------------------------
(* Types.  G are the gtids given so far.                                   *)

Uid == Servers \X Nat
Gtid == Uid \X Nat
MasterUid == Uid \cup {NoUuid}
Modes == {"psync", "xsync"}
ItemsOf(G) == [gtid : G \cup {NoGtid}, write : Nat, data : Seq(Nat), executed : SUBSET G]
Entries == [uuid : Uid, gno : Nat, offset : Int]
Prevs == {Unset} \cup [mode : Modes, from : Int, replid : Nat, replid2 : Nat, off2 : Int,
                       delta : Int]

Answers(G) ==
    [type : {"continue"}, replid : Nat, reploff : Int]
    \cup [type : {"xcontinue"}, replid : Nat, reploff : Int, cont : SUBSET G, muuid : MasterUid]
    \cup [type : {"fullresync"}, replid : Nat, reploff : Int, data : Seq(Nat)]
    \cup [type : {"xfullresync"}, replid : Nat, reploff : Int, muuid : MasterUid,
          executed : SUBSET G, data : Seq(Nat)]

Messages(G) == [type : {"cmd"}, item : ItemsOf(G)] \cup {Eof} \cup Answers(G)

Connection(G) == [link : {"down", "wait", "up"}, attached : BOOLEAN, chan : Seq(Messages(G))]

ServerState(G) ==
    [enabled : BOOLEAN, uuid : Uid, muuid : MasterUid, executed : SUBSET G, mode : Modes,
     from : Int, prev : Prevs, replid : Nat, replid2 : Nat, off2 : Int, offset : Int,
     delta : Int, stale : BOOLEAN, backlog : BOOLEAN, boff : Int, items : Seq(ItemsOf(G)),
     idx : SUBSET Entries, wrong : BOOLEAN, force : BOOLEAN, data : Seq(Nat)]

\* The fields of a server.
LEMMA ServerTypes ==
  ASSUME NEW G, NEW r \in ServerState(G)
  PROVE  /\ r.enabled \in BOOLEAN /\ r.uuid \in Uid /\ r.muuid \in MasterUid
         /\ r.executed \in SUBSET G /\ r.mode \in Modes /\ r.from \in Int /\ r.prev \in Prevs
         /\ r.replid \in Nat /\ r.replid2 \in Nat /\ r.off2 \in Int /\ r.offset \in Int
         /\ r.delta \in Int /\ r.stale \in BOOLEAN /\ r.backlog \in BOOLEAN /\ r.boff \in Int
         /\ r.items \in Seq(ItemsOf(G)) /\ r.idx \in SUBSET Entries /\ r.wrong \in BOOLEAN
         /\ r.force \in BOOLEAN /\ r.data \in Seq(Nat)
BY DEF ServerState

----------------------------------------------------------------------------
(* The inductive invariant, part by part.                                  *)

\* The stream of a server r: its backlog ends where its offset is, nothing of
\* its index or its mode begins later, and psync counts without a delta.
BacklogOK(r) ==
    /\ r.backlog => r.boff + Len(r.items) = r.offset + 1
    /\ \A e \in r.idx : e.offset <= r.offset
    /\ \E b \in Int : \A e \in r.idx : b <= e.offset

StreamOK(r) ==
    /\ BacklogOK(r)
    /\ r.from <= r.offset + 1
    /\ r.mode = "psync" => r.delta = 0

\* The gtids of the server s, among those given, G, after w writes: their uuids
\* are as old as its own, and it has all of its own uuid unless the uuid has
\* outlived its gtid.set (D).  In psync, a server that was not in xsync before
\* has given none.
NamesOK(r, s, G, w, D) ==
    /\ r.uuid[1] = s
    /\ \A x \in G : x[2] \in 1..w
    /\ \A x \in G : x[1][1] = s => x[1][2] <= r.uuid[2]
    /\ \A x \in G : x[1] = r.uuid => x \in r.executed \/ x[1] \in D
    /\ r.mode = "psync" => r.prev.mode # "psync"
    /\ r.mode = "psync" /\ r.prev.mode = "unset" => \A x \in G : x[1] = r.uuid => x[1] \in D

\* Only the first message is an answer, and only for a replica that waits.  A
\* replica its master has got is sent nothing but commands.
ChanOK(c) ==
    /\ c.link = "down" => c = Closed
    /\ c.link = "wait" => c.chan # <<>>
    /\ \A i \in 1..Len(c.chan) :
          IF c.link = "wait" /\ i = 1
          THEN c.chan[i].type \in {"continue", "xcontinue", "fullresync", "xfullresync"}
          ELSE c.chan[i].type = "cmd" \/ (c.chan[i].type = "eof" /\ ~c.attached)

\* A replica r with n commands of its master q on their way, mu being what q
\* says of the uuid.
Following(r, q, mu, n) ==
    /\ r.mode = q.mode /\ r.replid = q.replid
    /\ r.stale \/ MasterReploff(r) + n = MasterReploff(q)
    /\ r.mode = "xsync" => r.muuid = mu

\* The answer a of q to r, with n commands after it.
Answered(a, r, q, mu, n) ==
    /\ a.replid = q.replid
    /\ IF a.type \in {"continue", "fullresync"} THEN q.mode = "psync"
       ELSE q.mode = "xsync" /\ a.muuid = mu
    /\ (IF a.type = "continue" /\ r.mode = "psync" THEN r.offset ELSE a.reploff) + n
         = MasterReploff(q)

\* The connection c of a replica r to its master q.
Linked(c, r, q, mu) ==
    /\ ChanOK(c)
    /\ c.link = "up" => r.backlog
    /\ c.attached => q.backlog
    /\ c.attached /\ c.link = "up" => Following(r, q, mu, Len(c.chan))
    /\ c.attached /\ c.link = "wait" => Answered(Head(c.chan), r, q, mu, Len(c.chan) - 1)

Typed ==
    /\ srv \in [Servers -> ServerState(given)]
    /\ conn \in [Servers -> Connection(given)]
    /\ master \in [Servers -> Servers \cup {None}]
    /\ ids \in Nat /\ writes \in Nat
    /\ given \subseteq Gtid

MasterUuid(m) == getMasterUuid(srv[m], master[m])

ServerOK(s) ==
    /\ StreamOK(srv[s])
    /\ NamesOK(srv[s], s, given, writes, dropped)
    /\ master[s] # s
    /\ master[s] = None => srv[s].mode = EnabledMode(srv[s]) /\ conn[s] = Closed
    /\ Linked(conn[s], srv[s], srv[master[s]], MasterUuid(master[s]))

IInv == Typed /\ (\A s \in Servers : ServerOK(s)) /\ GtidNamesOneWrite

----------------------------------------------------------------------------
(* What the operators on a server do.                                      *)

\* A new replication id changes nothing else.
LEMMA SetReplIdIs ==
  ASSUME NEW G, NEW r \in ServerState(G), NEW id \in Nat
  PROVE  LET q == SetReplId(r, id)
         IN  /\ q \in ServerState(G)
             /\ q.mode = r.mode /\ q.from = r.from /\ q.prev = r.prev
             /\ q.replid = id /\ q.offset = r.offset /\ q.delta = r.delta
             /\ q.stale = r.stale /\ q.muuid = r.muuid /\ q.uuid = r.uuid
             /\ q.executed = r.executed /\ q.enabled = r.enabled /\ q.backlog = r.backlog
             /\ q.boff = r.boff /\ q.items = r.items /\ q.idx = r.idx /\ q.data = r.data
<1>1. -1 \in Int /\ NoId \in Nat
  BY DEF NoId
<1> QED BY <1>1 DEF SetReplId, ServerState

\* shiftServerReplMode keeps the mode it leaves.
LEMMA ShiftIs ==
  ASSUME NEW G, NEW r \in ServerState(G), NEW mode \in Modes
  PROVE  LET q == shiftServerReplMode(r, mode)
         IN  /\ q \in ServerState(G)
             /\ q.mode = mode /\ q.from = r.offset + 1 /\ q.prev.mode = r.mode
             /\ q.replid = r.replid /\ q.offset = r.offset /\ q.delta = r.delta
             /\ q.stale = r.stale /\ q.muuid = r.muuid /\ q.uuid = r.uuid
             /\ q.executed = r.executed /\ q.enabled = r.enabled /\ q.backlog = r.backlog
             /\ q.boff = r.boff /\ q.items = r.items /\ q.idx = r.idx /\ q.data = r.data
<1> DEFINE p == [mode |-> r.mode, from |-> r.from, replid |-> r.replid,
                 replid2 |-> r.replid2, off2 |-> r.off2, delta |-> r.delta]
<1>1. p \in Prevs /\ p.mode = r.mode
  BY ServerTypes DEF Prevs, Modes
<1>2. r.offset + 1 \in Int
  BY ServerTypes
<1> HIDE DEF p
<1> QED BY <1>1, <1>2 DEF shiftServerReplMode, ServerState, p

\* resetServerReplMode forgets it.
LEMMA ResetIs ==
  ASSUME NEW G, NEW r \in ServerState(G), NEW mode \in Modes
  PROVE  LET q == resetServerReplMode(r, mode)
         IN  /\ q \in ServerState(G)
             /\ q.mode = mode /\ q.from = r.offset + 1 /\ q.prev.mode = "unset"
             /\ q.replid = r.replid /\ q.offset = r.offset /\ q.delta = r.delta
             /\ q.stale = r.stale /\ q.muuid = r.muuid /\ q.uuid = r.uuid
             /\ q.executed = r.executed /\ q.enabled = r.enabled /\ q.backlog = r.backlog
             /\ q.boff = r.boff /\ q.items = r.items /\ q.idx = r.idx /\ q.data = r.data
<1>1. Unset \in Prevs /\ Unset.mode = "unset"
  BY DEF Prevs, Unset
<1>2. r.offset + 1 \in Int
  BY ServerTypes
<1> QED BY <1>1, <1>2 DEF resetServerReplMode, ServerState

\* A backlog that begins after an offset.
LEMMA RestartAtIs ==
  ASSUME NEW G, NEW r \in ServerState(G), NEW reploff \in Int
  PROVE  LET q == RestartAt(r, reploff)
         IN  /\ q \in ServerState(G)
             /\ q.mode = r.mode /\ q.from = r.from /\ q.prev = r.prev
             /\ q.replid = r.replid /\ q.offset = reploff /\ q.delta = r.delta
             /\ q.stale = r.stale /\ q.muuid = r.muuid /\ q.uuid = r.uuid
             /\ q.executed = r.executed /\ q.enabled = r.enabled /\ q.backlog = r.backlog
             /\ q.backlog => q.boff = reploff + 1
             /\ q.items = << >> /\ q.idx = {} /\ q.data = r.data
<1>1. << >> \in Seq(ItemsOf(G)) /\ {} \in SUBSET Entries /\ reploff + 1 \in Int
  OBVIOUS
<1> QED BY <1>1 DEF RestartAt, ServerState

\* The stream of a new backlog.
LEMMA CreateBacklogIs ==
  ASSUME NEW G, NEW r \in ServerState(G)
  PROVE  LET q == CreateBacklog(r)
         IN  /\ q \in ServerState(G) /\ q.backlog
             /\ q.mode = r.mode /\ q.from = r.from /\ q.prev = r.prev
             /\ q.replid = r.replid /\ q.offset = r.offset /\ q.delta = r.delta
             /\ q.stale = r.stale /\ q.muuid = r.muuid /\ q.uuid = r.uuid
             /\ q.executed = r.executed /\ q.enabled = r.enabled
             /\ r.backlog => q = r
             /\ ~r.backlog => q.boff = r.offset + 1 /\ q.items = << >> /\ q.idx = {}
             /\ q.data = r.data
<1>1. << >> \in Seq(ItemsOf(G)) /\ {} \in SUBSET Entries /\ r.offset + 1 \in Int
  BY ServerTypes
<1> QED BY <1>1 DEF CreateBacklog, ServerState

\* A type with more gtids.
LEMMA Monotone ==
  ASSUME NEW G, NEW H, G \subseteq H
  PROVE  /\ ItemsOf(G) \subseteq ItemsOf(H) /\ Messages(G) \subseteq Messages(H)
         /\ Connection(G) \subseteq Connection(H) /\ ServerState(G) \subseteq ServerState(H)
<1>1. ItemsOf(G) \subseteq ItemsOf(H)
  BY DEF ItemsOf
<1>2. Answers(G) \subseteq Answers(H)
  BY DEF Answers
<1>3. Messages(G) \subseteq Messages(H)
  <2>1. ASSUME NEW m \in [type : {"cmd"}, item : ItemsOf(G)]
        PROVE  m \in [type : {"cmd"}, item : ItemsOf(H)]
    BY <1>1
  <2> QED BY <1>2, <2>1 DEF Messages
<1>4. Connection(G) \subseteq Connection(H)
  <2>1. ASSUME NEW q \in Seq(Messages(G)) PROVE q \in Seq(Messages(H))
    BY <1>3
  <2> QED BY <2>1 DEF Connection
<1>5. ASSUME NEW r \in ServerState(G) PROVE r \in ServerState(H)
  <2>1. r.items \in Seq(ItemsOf(H))
    <3>1. r.items \in Seq(ItemsOf(G))
      BY ServerTypes
    <3> QED BY <1>1, <3>1
  <2>2. r.executed \in SUBSET H
    BY ServerTypes
  <2> QED BY <2>1, <2>2 DEF ServerState
<1> QED BY <1>1, <1>3, <1>4, <1>5

\* An index with one entry more, and without some others, is within the stream.
LEMMA StreamTrim ==
  ASSUME NEW I \in SUBSET Entries, NEW n \in Int,
         \A f \in I : f.offset <= n, \E b \in Int : \A f \in I : b <= f.offset,
         NEW e \in Entries, e.offset = n + 1, NEW J \in SUBSET (I \cup {e})
  PROVE  /\ \A f \in J : f.offset <= n + 1
         /\ \E b \in Int : \A f \in J : b <= f.offset
<1>0. \A f \in Entries : f.offset \in Int
  BY DEF Entries
<1>1. \A f \in J : f.offset <= n + 1
  BY <1>0
<1>2. PICK b \in Int : \A f \in I : b <= f.offset
  OBVIOUS
<1>3. \E d \in Int : d <= b /\ d <= n + 1
  <2>1. CASE b <= n + 1
    BY <2>1
  <2>2. CASE ~(b <= n + 1)
    BY <2>2
  <2> QED BY <2>1, <2>2
<1>4. PICK d \in Int : d <= b /\ d <= n + 1
  BY <1>3
<1>5. ASSUME NEW f \in J PROVE d <= f.offset
  BY <1>0, <1>2, <1>4
<1> QED BY <1>1, <1>4, <1>5

\* A command on a stream.
LEMMA FeedIs ==
  ASSUME NEW G, G \subseteq Gtid, NEW r \in ServerState(G), NEW item \in ItemsOf(G)
  PROVE  LET q == Feed(r, item)
         IN  /\ q \in ServerState(G)
             /\ q.mode = r.mode /\ q.from = r.from /\ q.prev = r.prev
             /\ q.replid = r.replid /\ q.delta = r.delta
             /\ q.stale = r.stale /\ q.muuid = r.muuid /\ q.uuid = r.uuid
             /\ q.executed = r.executed /\ q.enabled = r.enabled /\ q.backlog = r.backlog
             /\ q.offset = IF r.backlog THEN r.offset + 1 ELSE r.offset
             /\ StreamOK(r) => StreamOK(q)
<1> DEFINE q == Feed(r, item)
<1>1. CASE ~r.backlog
  BY <1>1 DEF Feed
<1>2. CASE r.backlog
  <2> DEFINE full == Len(r.items) = BacklogSize
             boff == IF full THEN r.boff + 1 ELSE r.boff
             e == [uuid |-> item.gtid[1], gno |-> item.gtid[2], offset |-> r.offset + 1]
             items == Append(IF full THEN Tail(r.items) ELSE r.items, item)
             idx == IF item.gtid = NoGtid THEN r.idx ELSE TrimIndex(r.idx \cup {e}, boff)
             n == r.offset + 1
  <2>1. q = [r EXCEPT !.offset = n, !.boff = boff, !.items = items, !.idx = idx]
    BY <1>2 DEF Feed
  <2>2. n \in Int /\ boff \in Int /\ r.boff \in Int /\ r.offset \in Int
    BY ServerTypes
  <2>3. r.items \in Seq(ItemsOf(G)) /\ Len(r.items) \in Nat
    BY ServerTypes
  <2>4. full => Tail(r.items) \in Seq(ItemsOf(G)) /\ Len(Tail(r.items)) = Len(r.items) - 1
    BY <2>3, ConstantsAssumption
  <2>5. items \in Seq(ItemsOf(G)) /\ Len(items) = Len(r.items) + IF full THEN 0 ELSE 1
    <3>1. CASE full
      <4>1. items = Append(Tail(r.items), item)
        BY <3>1
      <4> HIDE DEF items, full
      <4> QED BY <2>3, <2>4, <3>1, <4>1
    <3>2. CASE ~full
      <4>1. items = Append(r.items, item)
        BY <3>2
      <4> HIDE DEF items, full
      <4> QED BY <2>3, <3>2, <4>1
    <3> QED BY <3>1, <3>2
  <2>6. item.gtid # NoGtid => e \in Entries /\ e.offset = n
    <3>1. item.gtid \in G \cup {NoGtid}
      BY DEF ItemsOf
    <3> QED BY <2>2, <3>1 DEF Gtid, Entries
  <2>7. idx \in SUBSET Entries
    <3>1. r.idx \in SUBSET Entries
      BY ServerTypes
    <3> HIDE DEF e
    <3> QED BY <2>6, <3>1 DEF TrimIndex
  <2> HIDE DEF n, boff, items, idx, e, full
  <2>8. /\ q \in ServerState(G)
        /\ q.mode = r.mode /\ q.from = r.from /\ q.prev = r.prev
        /\ q.replid = r.replid /\ q.delta = r.delta
        /\ q.stale = r.stale /\ q.muuid = r.muuid /\ q.uuid = r.uuid
        /\ q.executed = r.executed /\ q.enabled = r.enabled /\ q.backlog = r.backlog
        /\ q.offset = n /\ q.boff = boff /\ q.items = items /\ q.idx = idx
    BY <2>1, <2>2, <2>5, <2>7, ZenonT(60) DEF ServerState
  <2>9. ASSUME StreamOK(r) PROVE StreamOK(q)
    <3> HIDE DEF q
    <3>1. q.boff + Len(q.items) = q.offset + 1
      <4>1. r.boff + Len(r.items) = r.offset + 1
        BY <1>2, <2>9 DEF StreamOK, BacklogOK
      <4>2. n = r.offset + 1 /\ boff = (IF full THEN r.boff + 1 ELSE r.boff)
        BY DEF n, boff
      <4>3. boff + Len(items) = r.boff + Len(r.items) + 1
        <5>1. CASE full
          <6>1. boff = r.boff + 1 /\ Len(items) = Len(r.items)
            <7>1. Len(items) = Len(r.items) + 0
              BY <2>5, <5>1
            <7> QED BY <2>3, <4>2, <5>1, <7>1
          <6> QED BY <2>2, <2>3, <6>1
        <5>2. CASE ~full
          <6>1. boff = r.boff /\ Len(items) = Len(r.items) + 1
            BY <2>5, <4>2, <5>2
          <6> QED BY <2>2, <2>3, <6>1
        <5> QED BY <5>1, <5>2
      <4>4. q.boff = boff /\ q.items = items /\ q.offset = r.offset + 1
        BY <2>8, <4>2
      <4> QED BY <2>2, <2>3, <4>1, <4>3, <4>4
    <3>2. (\A f \in q.idx : f.offset <= q.offset) /\ \E b \in Int : \A f \in q.idx : b <= f.offset
      <4>1. /\ \A f \in r.idx : f.offset <= r.offset
            /\ \E b \in Int : \A f \in r.idx : b <= f.offset
        BY <2>9 DEF StreamOK, BacklogOK
      <4>2. r.idx \in SUBSET Entries /\ \A f \in Entries : f.offset \in Int
        BY ServerTypes DEF Entries
      <4>3. CASE item.gtid = NoGtid
        <5>1. q.idx = r.idx /\ q.offset = n
          BY <2>8, <4>3 DEF idx
        <5>2. n = r.offset + 1
          BY DEF n
        <5>3. ASSUME NEW f \in r.idx PROVE f.offset <= n
          BY <2>2, <4>1, <4>2, <5>2
        <5> QED BY <4>1, <5>1, <5>3
      <4>4. CASE item.gtid # NoGtid
        <5>1. q.idx \in SUBSET (r.idx \cup {e}) /\ q.offset = n
          BY <2>8, <4>4 DEF idx, TrimIndex
        <5>2. e \in Entries /\ e.offset = r.offset + 1 /\ n = r.offset + 1
          BY <2>6, <4>4 DEF n
        <5>3. /\ \A f \in q.idx : f.offset <= r.offset + 1
              /\ \E b \in Int : \A f \in q.idx : b <= f.offset
          BY <2>2, <4>1, <4>2, <5>1, <5>2, StreamTrim
        <5> QED BY <5>1, <5>2, <5>3
      <4> QED BY <4>3, <4>4
    <3>3. q.from <= q.offset + 1
      <4>1. r.from <= r.offset + 1 /\ r.from \in Int
        BY <2>9, ServerTypes DEF StreamOK, BacklogOK
      <4> QED BY <2>2, <2>8, <4>1 DEF n
    <3>4. q.mode = "psync" => q.delta = 0
      BY <2>8, <2>9 DEF StreamOK, BacklogOK
    <3> QED BY <3>1, <3>2, <3>3, <3>4 DEF StreamOK, BacklogOK
  <2>10. q.offset = IF r.backlog THEN r.offset + 1 ELSE r.offset
    BY <1>2, <2>8 DEF n
  <2> QED BY <2>8, <2>9, <2>10
<1> QED BY <1>1, <1>2

\* An empty backlog.
LEMMA EmptyBacklog ==
  ASSUME NEW G, NEW r \in ServerState(G), r.backlog => r.boff = r.offset + 1,
         r.items = << >>, r.idx = {}
  PROVE  BacklogOK(r)
<1>1. r.boff \in Int /\ r.offset \in Int
  BY ServerTypes
<1>2. \E b \in Int : \A e \in r.idx : b <= e.offset
  <2>1. 0 \in Int
    OBVIOUS
  <2> QED BY <2>1
<1>3. Len(r.items) = 0
  OBVIOUS
<1> QED BY <1>1, <1>2, <1>3 DEF BacklogOK

\* A new backlog is as good as none.
LEMMA CreateBacklogOK ==
  ASSUME NEW G, NEW r \in ServerState(G), StreamOK(r)
  PROVE  StreamOK(CreateBacklog(r))
<1> DEFINE q == CreateBacklog(r)
<1>1. CASE r.backlog
  BY <1>1, CreateBacklogIs
<1>2. CASE ~r.backlog
  <2>1. /\ q \in ServerState(G) /\ q.boff = q.offset + 1 /\ q.items = << >> /\ q.idx = {}
        /\ q.mode = r.mode /\ q.from = r.from /\ q.offset = r.offset /\ q.delta = r.delta
    BY <1>2, CreateBacklogIs
  <2> HIDE DEF q
  <2>2. BacklogOK(q)
    BY <2>1, EmptyBacklog
  <2>3. StreamOK(q)
    BY <2>1, <2>2 DEF StreamOK
  <2> QED BY <2>3 DEF q
<1> QED BY <1>1, <1>2

\* To psync, with the offset of the stream to follow.
LEMMA Switch2PsyncIs ==
  ASSUME NEW G, NEW r \in ServerState(G), StreamOK(r), NEW id \in Nat, NEW reploff \in Int
  PROVE  LET q == serverReplStreamSwitch2Psync(r, id, reploff)
         IN  /\ q \in ServerState(G)
             /\ q.mode = "psync" /\ q.prev.mode = r.mode /\ q.replid = id
             /\ q.offset = reploff /\ q.delta = 0 /\ q.uuid = r.uuid
             /\ q.executed = r.executed /\ q.enabled = r.enabled /\ q.backlog = r.backlog
             /\ StreamOK(q)
<1> DEFINE a == IF r.offset = reploff THEN r ELSE RestartAt(r, reploff)
           b == [a EXCEPT !.delta = 0, !.stale = FALSE]
           c == shiftServerReplMode(b, "psync")
           d == SetReplId(c, id)
           q == [d EXCEPT !.muuid = NoUuid, !.force = FALSE]
<1>1. /\ a \in ServerState(G) /\ a.mode = r.mode /\ a.offset = reploff /\ a.uuid = r.uuid
      /\ a.executed = r.executed /\ a.enabled = r.enabled /\ a.backlog = r.backlog
      /\ BacklogOK(a)
  <2>1. CASE r.offset = reploff
    BY <2>1 DEF StreamOK
  <2>2. CASE r.offset # reploff
    <3>1. a = RestartAt(r, reploff)
      BY <2>2
    <3>2. /\ a \in ServerState(G) /\ a.mode = r.mode /\ a.offset = reploff /\ a.uuid = r.uuid
          /\ a.executed = r.executed /\ a.enabled = r.enabled /\ a.backlog = r.backlog
          /\ a.items = << >> /\ a.idx = {} /\ (a.backlog => a.boff = a.offset + 1)
      <4> HIDE DEF a
      <4> QED BY <3>1, RestartAtIs, SMTT(60)
    <3> HIDE DEF a
    <3> QED BY <3>2, EmptyBacklog
  <2> QED BY <2>1, <2>2
<1>2. 0 \in Int /\ NoUuid \in MasterUid /\ "psync" \in Modes
  BY DEF MasterUid, Modes
<1>3. /\ b \in ServerState(G) /\ b.mode = r.mode /\ b.offset = reploff /\ b.uuid = r.uuid
      /\ b.executed = r.executed /\ b.enabled = r.enabled /\ b.backlog = r.backlog
      /\ b.delta = 0 /\ b.boff = a.boff /\ b.items = a.items /\ b.idx = a.idx
  <2> HIDE DEF a
  <2> QED BY <1>1, <1>2 DEF ServerState
<1>4. /\ c \in ServerState(G) /\ c.mode = "psync" /\ c.from = reploff + 1
      /\ c.prev.mode = r.mode /\ c.offset = reploff
      /\ c.delta = 0 /\ c.uuid = r.uuid /\ c.executed = r.executed /\ c.enabled = r.enabled
      /\ c.backlog = r.backlog /\ c.boff = a.boff /\ c.items = a.items /\ c.idx = a.idx
  <2> HIDE DEF a, b
  <2> QED BY <1>2, <1>3, ShiftIs
<1>5. /\ d \in ServerState(G) /\ d.mode = "psync" /\ d.from = reploff + 1
      /\ d.prev.mode = r.mode /\ d.replid = id /\ d.offset = reploff
      /\ d.delta = 0 /\ d.uuid = r.uuid /\ d.executed = r.executed /\ d.enabled = r.enabled
      /\ d.backlog = r.backlog /\ d.boff = a.boff /\ d.items = a.items /\ d.idx = a.idx
  <2> HIDE DEF a, c
  <2> QED BY <1>4, SetReplIdIs
<1>6. /\ q \in ServerState(G) /\ q.mode = "psync" /\ q.from = reploff + 1
      /\ q.prev.mode = r.mode /\ q.replid = id /\ q.offset = reploff
      /\ q.delta = 0 /\ q.uuid = r.uuid /\ q.executed = r.executed /\ q.enabled = r.enabled
      /\ q.backlog = r.backlog /\ q.boff = a.boff /\ q.items = a.items /\ q.idx = a.idx
  <2> HIDE DEF a, d
  <2> QED BY <1>2, <1>5 DEF ServerState
<1>7. q = serverReplStreamSwitch2Psync(r, id, reploff)
  BY DEF serverReplStreamSwitch2Psync
<1> HIDE DEF a, q
<1>8. StreamOK(q)
  BY <1>1, <1>6 DEF StreamOK, BacklogOK
<1> QED BY <1>6, <1>7, <1>8

\* To xsync, with the offset that the stream to follow counts.
LEMMA Switch2XsyncIs ==
  ASSUME NEW G, NEW r \in ServerState(G), StreamOK(r), NEW id \in Nat, NEW reploff \in Int,
         NEW muuid \in MasterUid, NEW executed \in SUBSET G
  PROVE  LET q == serverReplStreamSwitch2Xsync(r, id, reploff, muuid, executed)
         IN  /\ q \in ServerState(G)
             /\ q.mode = "xsync" /\ q.prev.mode = r.mode /\ q.replid = id
             /\ q.offset = r.offset /\ q.delta = reploff - r.offset /\ q.muuid = muuid
             /\ q.uuid = r.uuid
             /\ q.executed = executed /\ q.enabled = r.enabled /\ q.backlog = r.backlog
             /\ StreamOK(q)
<1> DEFINE c == shiftServerReplMode(r, "xsync")
           d == SetReplId(c, id)
           q == [d EXCEPT !.delta = reploff - r.offset, !.stale = FALSE, !.muuid = muuid,
                          !.force = FALSE, !.executed = executed, !.idx = {}]
<1>1. /\ r.offset \in Int /\ reploff - r.offset \in Int /\ {} \in SUBSET Entries
      /\ "xsync" \in Modes
  BY ServerTypes DEF Modes
<1>2. /\ c \in ServerState(G) /\ c.mode = "xsync" /\ c.from = r.offset + 1
      /\ c.prev.mode = r.mode /\ c.offset = r.offset
      /\ c.uuid = r.uuid /\ c.enabled = r.enabled
      /\ c.backlog = r.backlog /\ c.boff = r.boff /\ c.items = r.items
  BY <1>1, ShiftIs
<1>3. /\ d \in ServerState(G) /\ d.mode = "xsync" /\ d.from = r.offset + 1
      /\ d.prev.mode = r.mode /\ d.replid = id /\ d.offset = r.offset
      /\ d.uuid = r.uuid /\ d.enabled = r.enabled
      /\ d.backlog = r.backlog /\ d.boff = r.boff /\ d.items = r.items
  <2> HIDE DEF c
  <2> QED BY <1>2, SetReplIdIs
<1>4. /\ q \in ServerState(G) /\ q.mode = "xsync" /\ q.from = r.offset + 1
      /\ q.prev.mode = r.mode /\ q.replid = id /\ q.offset = r.offset
      /\ q.uuid = r.uuid /\ q.enabled = r.enabled /\ q.delta = reploff - r.offset
      /\ q.muuid = muuid /\ q.executed = executed
      /\ q.backlog = r.backlog /\ q.boff = r.boff /\ q.items = r.items /\ q.idx = {}
  <2> HIDE DEF d
  <2> QED BY <1>1, <1>3 DEF ServerState
<1>5. q = serverReplStreamSwitch2Xsync(r, id, reploff, muuid, executed)
  BY DEF serverReplStreamSwitch2Xsync
<1> HIDE DEF q
<1>6. StreamOK(q)
  <2>1. \E b \in Int : \A e \in q.idx : b <= e.offset
    BY <1>1, <1>4
  <2> QED BY <1>1, <1>4, <2>1 DEF StreamOK, BacklogOK
<1> QED BY <1>4, <1>5, <1>6

\* A psync full resync.
LEMMA Reset2PsyncIs ==
  ASSUME NEW G, NEW r \in ServerState(G), NEW id \in Nat, NEW reploff \in Int,
         NEW data \in Seq(Nat)
  PROVE  LET q == [serverReplStreamReset2Psync(r, id, reploff) EXCEPT !.data = data]
         IN  /\ q \in ServerState(G)
             /\ q.mode = "psync" /\ q.prev.mode = "unset" /\ q.replid = id
             /\ q.offset = reploff /\ q.delta = 0 /\ q.uuid = r.uuid
             /\ q.executed = r.executed /\ q.enabled = r.enabled /\ q.backlog = r.backlog
             /\ StreamOK(q)
<1> DEFINE a == RestartAt(r, reploff)
           c == resetServerReplMode(a, "psync")
           d == SetReplId(c, id)
           e == [d EXCEPT !.muuid = NoUuid, !.force = FALSE, !.delta = 0, !.stale = FALSE]
           q == [e EXCEPT !.data = data]
<1>1. /\ a \in ServerState(G) /\ a.offset = reploff /\ a.uuid = r.uuid
      /\ a.executed = r.executed /\ a.enabled = r.enabled /\ a.backlog = r.backlog
      /\ a.items = << >> /\ a.idx = {} /\ (r.backlog => a.boff = reploff + 1)
  <2>1. a = RestartAt(r, reploff)
    OBVIOUS
  <2> HIDE DEF a
  <2>2. a.backlog = r.backlog /\ (a.backlog => a.boff = reploff + 1)
    BY <2>1, RestartAtIs
  <2> QED BY <2>1, <2>2, RestartAtIs
<1>2. 0 \in Int /\ NoUuid \in MasterUid /\ "psync" \in Modes
  BY DEF MasterUid, Modes
<1>3. /\ c \in ServerState(G) /\ c.mode = "psync" /\ c.from = reploff + 1
      /\ c.prev.mode = "unset" /\ c.offset = reploff
      /\ c.uuid = r.uuid /\ c.executed = r.executed /\ c.enabled = r.enabled
      /\ c.backlog = r.backlog /\ c.items = << >> /\ c.idx = {}
      /\ (r.backlog => c.boff = reploff + 1)
  <2> HIDE DEF a
  <2> QED BY <1>1, <1>2, ResetIs
<1>4. /\ d \in ServerState(G) /\ d.mode = "psync" /\ d.from = reploff + 1
      /\ d.prev.mode = "unset" /\ d.offset = reploff /\ d.replid = id
      /\ d.uuid = r.uuid /\ d.executed = r.executed /\ d.enabled = r.enabled
      /\ d.backlog = r.backlog /\ d.items = << >> /\ d.idx = {}
      /\ (r.backlog => d.boff = reploff + 1)
  <2> HIDE DEF c
  <2>1. d = SetReplId(c, id)
    OBVIOUS
  <2> HIDE DEF d
  <2>2. d.boff = c.boff
    BY <1>3, <2>1, SetReplIdIs, SMTT(60)
  <2>3. r.backlog => d.boff = reploff + 1
    BY <1>3, <2>2
  <2>4. /\ d \in ServerState(G) /\ d.mode = c.mode /\ d.from = c.from /\ d.prev = c.prev
        /\ d.offset = c.offset /\ d.replid = id /\ d.delta = c.delta
        /\ d.uuid = c.uuid /\ d.executed = c.executed /\ d.enabled = c.enabled
        /\ d.backlog = c.backlog /\ d.items = c.items /\ d.idx = c.idx
    <3>1. c \in ServerState(G)
      BY <1>3
    <3> QED BY <2>1, <3>1, SetReplIdIs, SMTT(60)
  <2> QED BY <1>3, <2>3, <2>4
<1>5. /\ e \in ServerState(G) /\ e.mode = "psync" /\ e.from = reploff + 1
      /\ e.prev.mode = "unset" /\ e.offset = reploff /\ e.replid = id /\ e.delta = 0
      /\ e.uuid = r.uuid /\ e.executed = r.executed /\ e.enabled = r.enabled
      /\ e.backlog = r.backlog /\ e.items = << >> /\ e.idx = {}
      /\ (r.backlog => e.boff = reploff + 1)
  <2> HIDE DEF d
  <2> QED BY <1>2, <1>4 DEF ServerState
<1>6. /\ q \in ServerState(G) /\ q.mode = "psync" /\ q.from = reploff + 1
      /\ q.prev.mode = "unset" /\ q.offset = reploff /\ q.replid = id /\ q.delta = 0
      /\ q.uuid = r.uuid /\ q.executed = r.executed /\ q.enabled = r.enabled
      /\ q.backlog = r.backlog /\ q.items = << >> /\ q.idx = {}
      /\ (r.backlog => q.boff = reploff + 1)
  <2> HIDE DEF e
  <2> QED BY <1>5 DEF ServerState
<1>7. q = [serverReplStreamReset2Psync(r, id, reploff) EXCEPT !.data = data]
  BY DEF serverReplStreamReset2Psync
<1> HIDE DEF q
<1>8. BacklogOK(q)
  BY <1>6, EmptyBacklog
<1>9. StreamOK(q)
  BY <1>6, <1>8 DEF StreamOK
<1> QED BY <1>6, <1>7, <1>9

\* An xsync full resync.
LEMMA Reset2XsyncIs ==
  ASSUME NEW G, NEW r \in ServerState(G), NEW id \in Nat, NEW reploff \in Int,
         NEW muuid \in MasterUid, NEW executed \in SUBSET G, NEW data \in Seq(Nat)
  PROVE  LET q == [serverReplStreamReset2Xsync(r, id, reploff, muuid, executed)
                     EXCEPT !.data = data]
         IN  /\ q \in ServerState(G)
             /\ q.mode = "xsync" /\ q.prev.mode = "unset" /\ q.replid = id
             /\ q.offset = reploff /\ q.uuid = r.uuid /\ q.muuid = muuid
             /\ q.stale \/ q.delta = 0
             /\ q.executed = executed /\ q.enabled = r.enabled /\ q.backlog = r.backlog
             /\ StreamOK(q)
<1> DEFINE a == RestartAt(r, reploff)
           c == resetServerReplMode(a, "xsync")
           d == SetReplId(c, id)
           e == [d EXCEPT !.muuid = muuid, !.force = FALSE, !.executed = executed,
                          !.stale = r.delta # 0]
           q == [e EXCEPT !.data = data]
<1>1. /\ a \in ServerState(G) /\ a.offset = reploff /\ a.uuid = r.uuid /\ a.delta = r.delta
      /\ a.enabled = r.enabled /\ a.backlog = r.backlog
      /\ a.items = << >> /\ a.idx = {} /\ (r.backlog => a.boff = reploff + 1)
  <2>1. a = RestartAt(r, reploff)
    OBVIOUS
  <2> HIDE DEF a
  <2>2. a.backlog = r.backlog /\ (a.backlog => a.boff = reploff + 1)
    BY <2>1, RestartAtIs, SMTT(60)
  <2> QED BY <2>1, <2>2, RestartAtIs, SMTT(60)
<1>2. "xsync" \in Modes /\ (r.delta # 0) \in BOOLEAN
  BY DEF Modes
<1>3. /\ c \in ServerState(G) /\ c.mode = "xsync" /\ c.from = reploff + 1
      /\ c.prev.mode = "unset" /\ c.offset = reploff /\ c.delta = r.delta
      /\ c.uuid = r.uuid /\ c.enabled = r.enabled
      /\ c.backlog = r.backlog /\ c.items = << >> /\ c.idx = {}
      /\ (r.backlog => c.boff = reploff + 1)
  <2> HIDE DEF a
  <2> QED BY <1>1, <1>2, ResetIs
<1>4. /\ d \in ServerState(G) /\ d.mode = "xsync" /\ d.from = reploff + 1
      /\ d.prev.mode = "unset" /\ d.offset = reploff /\ d.replid = id /\ d.delta = r.delta
      /\ d.uuid = r.uuid /\ d.enabled = r.enabled
      /\ d.backlog = r.backlog /\ d.items = << >> /\ d.idx = {}
      /\ (r.backlog => d.boff = reploff + 1)
  <2> HIDE DEF c
  <2>1. d = SetReplId(c, id)
    OBVIOUS
  <2> HIDE DEF d
  <2>2. d.boff = c.boff
    BY <1>3, <2>1, SetReplIdIs, SMTT(60)
  <2>3. r.backlog => d.boff = reploff + 1
    BY <1>3, <2>2
  <2>4. /\ d \in ServerState(G) /\ d.mode = c.mode /\ d.from = c.from /\ d.prev = c.prev
        /\ d.offset = c.offset /\ d.replid = id /\ d.delta = c.delta
        /\ d.uuid = c.uuid /\ d.executed = c.executed /\ d.enabled = c.enabled
        /\ d.backlog = c.backlog /\ d.items = c.items /\ d.idx = c.idx
    <3>1. c \in ServerState(G)
      BY <1>3
    <3> QED BY <2>1, <3>1, SetReplIdIs, SMTT(60)
  <2> QED BY <1>3, <2>3, <2>4
<1>5. /\ e \in ServerState(G) /\ e.mode = "xsync" /\ e.from = reploff + 1
      /\ e.prev.mode = "unset" /\ e.offset = reploff /\ e.replid = id /\ e.delta = r.delta
      /\ e.uuid = r.uuid /\ e.executed = executed /\ e.enabled = r.enabled /\ e.muuid = muuid
      /\ e.stale = (r.delta # 0)
      /\ e.backlog = r.backlog /\ e.items = << >> /\ e.idx = {}
      /\ (r.backlog => e.boff = reploff + 1)
  <2> HIDE DEF d
  <2> QED BY <1>2, <1>4 DEF ServerState
<1>6. /\ q \in ServerState(G) /\ q.mode = "xsync" /\ q.from = reploff + 1
      /\ q.prev.mode = "unset" /\ q.offset = reploff /\ q.replid = id /\ q.delta = r.delta
      /\ q.uuid = r.uuid /\ q.executed = executed /\ q.enabled = r.enabled /\ q.muuid = muuid
      /\ q.stale = (r.delta # 0)
      /\ q.backlog = r.backlog /\ q.items = << >> /\ q.idx = {}
      /\ (r.backlog => q.boff = reploff + 1)
  <2> HIDE DEF e
  <2> QED BY <1>5 DEF ServerState
<1>7. q = [serverReplStreamReset2Xsync(r, id, reploff, muuid, executed) EXCEPT !.data = data]
  BY <1>1 DEF serverReplStreamReset2Xsync
<1> HIDE DEF q
<1>8. BacklogOK(q)
  BY <1>6, EmptyBacklog
<1>9. StreamOK(q)
  BY <1>6, <1>8 DEF StreamOK
<1> QED BY <1>6, <1>7, <1>9

----------------------------------------------------------------------------
(* The gtids of a server.                                                  *)

\* A server that only gets more gtids, or loses uuids, is right.
LEMMA NamesSame ==
  ASSUME NEW r, NEW s, NEW G, NEW w, NEW D, NamesOK(r, s, G, w, D), NEW q, NEW E,
         D \subseteq E, q.uuid = r.uuid, r.executed \subseteq q.executed,
         q.mode = r.mode, q.prev.mode = r.prev.mode
  PROVE  NamesOK(q, s, G, w, E)
BY DEF NamesOK

\* So is one that turns to psync with its gtids.
LEMMA NamesToPsync ==
  ASSUME NEW r, NEW s, NEW G, NEW w, NEW D, NamesOK(r, s, G, w, D), NEW q,
         q.uuid = r.uuid, q.executed = r.executed, q.prev.mode = "xsync"
  PROVE  NamesOK(q, s, G, w, D)
BY DEF NamesOK

\* Whatever gtids it is given, its uuid has outlived the ones it had.
LEMMA NamesDropped ==
  ASSUME NEW r, NEW s, NEW G, NEW w, NEW D, NamesOK(r, s, G, w, D), NEW q,
         q.uuid = r.uuid, q.mode = "psync" => q.prev.mode # "psync"
  PROVE  NamesOK(q, s, G, w, D \cup {r.uuid})
BY DEF NamesOK

\* A uuid and its number.
LEMMA UidIs ==
  ASSUME NEW u \in Uid
  PROVE  u[1] \in Servers /\ u[2] \in Nat /\ u = <<u[1], u[2]>>
BY DEF Uid

\* A gtid and its parts.
LEMMA GtidIs ==
  ASSUME NEW x \in Gtid
  PROVE  x[1] \in Uid /\ x[2] \in Nat /\ x = <<x[1], x[2]>>
BY DEF Gtid

\* A server that turns to xsync by itself has a uuid nothing was given yet, or
\* that has been dropped.
LEMMA NamesRenewed ==
  ASSUME NEW G \in SUBSET Gtid, NEW r \in ServerState(G), NEW s, NEW w, NEW D,
         NamesOK(r, s, G, w, D), r.mode = "psync", NEW q, q.uuid = RenewedUuid(r),
         q.mode = "xsync"
  PROVE  NamesOK(q, s, G, w, D)
<1>1. r.uuid \in Uid /\ r.uuid[2] \in Nat
  BY ServerTypes, UidIs
<1>2. r.uuid[1] = s /\ \A x \in G : x[2] \in 1..w
  BY DEF NamesOK
<1>3. CASE r.prev.mode = "xsync"
  <2>1. q.uuid[1] = s /\ q.uuid[2] = r.uuid[2] + 1
    BY <1>2, <1>3 DEF RenewedUuid
  <2>2. ASSUME NEW x \in G, x[1][1] = s PROVE x[1][2] <= r.uuid[2] /\ x[1][2] \in Nat
    <3>1. x[1] \in Uid
      BY GtidIs
    <3>2. x[1][2] <= r.uuid[2]
      BY <2>2 DEF NamesOK
    <3> QED BY <3>1, <3>2, UidIs
  <2>3. ASSUME NEW x \in G, x[1][1] = s PROVE x[1][2] <= q.uuid[2] /\ x[1] # q.uuid
    <3>1. x[1][2] <= r.uuid[2] /\ x[1][2] \in Nat
      BY <2>2, <2>3
    <3>2. x[1][2] # r.uuid[2] + 1 /\ x[1][2] <= r.uuid[2] + 1
      BY <1>1, <3>1
    <3> QED BY <2>1, <3>2
  <2>4. ASSUME NEW x \in G PROVE x[1] # q.uuid
    BY <2>1, <2>3
  <2> QED BY <1>2, <2>1, <2>3, <2>4 DEF NamesOK
<1>4. CASE r.prev.mode # "xsync"
  <2>1. q.uuid = r.uuid
    BY <1>4 DEF RenewedUuid
  <2>2. r.prev.mode = "unset"
    <3>1. r.prev.mode \in {"unset", "psync", "xsync"}
      <4>1. r.prev \in Prevs
        BY ServerTypes
      <4> QED BY <4>1 DEF Prevs, Unset, Modes
    <3>2. r.prev.mode # "psync"
      BY DEF NamesOK
    <3> QED BY <1>4, <3>1, <3>2
  <2> QED BY <2>1, <2>2 DEF NamesOK
<1> QED BY <1>3, <1>4

\* A write gives a gtid that the server's set has not, beyond no own one of
\* another server.
LEMMA NextIsFresh ==
  ASSUME NEW G \in SUBSET Gtid, NEW r \in ServerState(G), NEW s, NEW w \in Nat, NEW D,
         NamesOK(r, s, G, w, D), w < MaxWrites
  PROVE  NextGno(r) \in 1..(w + 1) /\ <<r.uuid, NextGno(r)>> \notin r.executed
<1> DEFINE A == {g \in 1..MaxWrites : \E h \in g..MaxWrites : <<r.uuid, h>> \in r.executed}
           n == NextGno(r)
<1>1. n = 1 + Cardinality(A)
  BY DEF NextGno
<1>2. A \in SUBSET (1..w)
  <2>1. ASSUME NEW g \in 1..MaxWrites, NEW h \in g..MaxWrites, <<r.uuid, h>> \in r.executed
        PROVE  g \in 1..w
    <3>1. <<r.uuid, h>> \in G
      BY <2>1, ServerTypes
    <3>2. <<r.uuid, h>>[2] \in 1..w
      BY <3>1 DEF NamesOK
    <3>3. h \in 1..w
      BY <3>2
    <3>4. MaxWrites \in Nat
      BY ConstantsAssumption
    <3> QED BY <3>3, <3>4
  <2> QED BY <2>1
<1>3. IsFiniteSet(A) /\ Cardinality(A) \in Nat /\ Cardinality(A) <= w
  <2>1. IsFiniteSet(1..w) /\ Cardinality(1..w) = w
    <3>1. IsFiniteSet(1..w) /\ Cardinality(1..w) = IF 1 > w THEN 0 ELSE w - 1 + 1
      BY FS_Interval
    <3> QED BY <3>1
  <2> HIDE DEF A
  <2>2. IsFiniteSet(A) /\ Cardinality(A) <= Cardinality(1..w)
    BY <1>2, <2>1, FS_Subset
  <2> QED BY <2>1, <2>2, FS_CardinalityType
<1>4. n \in 1..(w + 1)
  <2> HIDE DEF A, n
  <2> QED BY <1>1, <1>3
<1>5. ASSUME <<r.uuid, n>> \in r.executed PROVE FALSE
  <2>1. 1..n \in SUBSET A
    <3> HIDE DEF n
    <3>1. n \in 1..MaxWrites /\ MaxWrites \in Nat
      BY <1>4, ConstantsAssumption
    <3>2. ASSUME NEW g \in 1..n PROVE g \in 1..MaxWrites /\ n \in g..MaxWrites
      BY <3>1
    <3> QED BY <1>5, <3>2
  <2> HIDE DEF A
  <2>2. Cardinality(1..n) <= Cardinality(A)
    BY <1>3, <2>1, FS_Subset
  <2> HIDE DEF n
  <2>3. Cardinality(1..n) = n
    <3>1. Cardinality(1..n) = IF 1 > n THEN 0 ELSE n - 1 + 1
      BY <1>4, FS_Interval
    <3> QED BY <1>4, <3>1
  <2> QED BY <1>1, <1>3, <1>4, <2>2, <2>3
<1> QED BY <1>4, <1>5

\* The writer has its new gtid.
LEMMA NamesWritten ==
  ASSUME NEW G \in SUBSET Gtid, NEW r \in ServerState(G), NEW s, NEW w \in Nat, NEW D,
         NamesOK(r, s, G, w, D), NEW n \in 1..(w + 1), r.mode = "xsync", NEW q,
         q.uuid = r.uuid, q.mode = r.mode,
         q.executed = r.executed \cup {<<r.uuid, n>>}
  PROVE  NamesOK(q, s, G \cup {<<r.uuid, n>>}, w + 1, D)
<1> DEFINE x == <<r.uuid, n>>
<1>1. x[1] = r.uuid /\ x[2] \in 1..(w + 1) /\ r.uuid[2] \in Nat
  BY ServerTypes, UidIs
<1>2. \A y \in G : y[2] \in 1..(w + 1)
  BY DEF NamesOK
<1>3. r.uuid[2] <= r.uuid[2]
  BY <1>1
<1> HIDE DEF x
<1> QED BY <1>1, <1>2, <1>3 DEF NamesOK, x

\* Nobody else's uuid is concerned.
LEMMA NamesOfOther ==
  ASSUME NEW r, NEW s, NEW G, NEW w \in Nat, NEW D, NamesOK(r, s, G, w, D),
         NEW u, u[1] # s, NEW n \in 1..(w + 1)
  PROVE  NamesOK(r, s, G \cup {<<u, n>>}, w + 1, D)
<1>1. \A y \in G : y[2] \in 1..(w + 1)
  BY DEF NamesOK
<1>2. <<u, n>>[1] = u /\ <<u, n>>[2] = n /\ r.uuid[1] = s
  BY DEF NamesOK
<1> QED BY <1>1, <1>2 DEF NamesOK

\* A write without a gtid.
LEMMA NamesUnnamed ==
  ASSUME NEW r, NEW s, NEW G, NEW w \in Nat, NEW D, NamesOK(r, s, G, w, D)
  PROVE  NamesOK(r, s, G, w + 1, D)
<1>1. \A y \in G : y[2] \in 1..(w + 1)
  BY DEF NamesOK
<1> QED BY <1>1 DEF NamesOK

\* serverReplStreamSwitchIfNeeded.
LEMMA SwitchIfNeededIs ==
  ASSUME NEW G \in SUBSET Gtid, NEW r \in ServerState(G), StreamOK(r), NEW s, NEW w, NEW D,
         NamesOK(r, s, G, w, D), NEW id \in Nat
  PROVE  LET q == serverReplStreamSwitchIfNeeded(r, id)
         IN  /\ q \in ServerState(G) /\ StreamOK(q) /\ NamesOK(q, s, G, w, D)
             /\ q.mode = EnabledMode(q) /\ q.backlog = r.backlog
<1> DEFINE q == serverReplStreamSwitchIfNeeded(r, id)
<1>0. /\ r.mode \in {"psync", "xsync"} /\ r.offset \in Int /\ r.uuid \in Uid
      /\ EnabledMode(r) \in {"psync", "xsync"}
  BY ServerTypes DEF Modes, EnabledMode
<1>1. CASE r.mode = EnabledMode(r)
  BY <1>1 DEF serverReplStreamSwitchIfNeeded
<1>2. CASE r.mode # EnabledMode(r) /\ EnabledMode(r) = "psync"
  <2>1. q = serverReplStreamSwitch2Psync(r, id, r.offset)
    BY <1>2 DEF serverReplStreamSwitchIfNeeded
  <2>2. r.mode = "xsync"
    BY <1>0, <1>2
  <2> HIDE DEF q
  <2>3. /\ q \in ServerState(G) /\ StreamOK(q) /\ q.mode = "psync" /\ q.backlog = r.backlog
        /\ q.uuid = r.uuid /\ q.executed = r.executed /\ q.prev.mode = "xsync"
        /\ q.enabled = r.enabled
    BY <1>0, <2>1, <2>2, Switch2PsyncIs
  <2>4. NamesOK(q, s, G, w, D)
    BY <2>3, NamesToPsync
  <2>5. q.mode = EnabledMode(q)
    BY <1>2, <2>3 DEF EnabledMode
  <2> QED BY <2>3, <2>4, <2>5 DEF q
<1>3. CASE r.mode # EnabledMode(r) /\ EnabledMode(r) # "psync"
  <2> DEFINE uuid == RenewedUuid(r)
             a == [r EXCEPT !.uuid = uuid]
  <2>1. q = serverReplStreamSwitch2Xsync(a, id, r.offset, uuid, {})
    BY <1>3 DEF serverReplStreamSwitchIfNeeded
  <2>2. r.mode = "psync" /\ EnabledMode(r) = "xsync"
    BY <1>0, <1>3
  <2>3. uuid \in Uid
    BY <1>0, UidIs DEF RenewedUuid, Uid
  <2> HIDE DEF uuid
  <2>4. /\ a \in ServerState(G) /\ a.uuid = uuid /\ a.enabled = r.enabled
        /\ a.backlog = r.backlog /\ a.offset = r.offset /\ a.boff = r.boff
        /\ a.items = r.items /\ a.idx = r.idx /\ a.from = r.from /\ a.mode = r.mode
        /\ a.delta = r.delta
    BY <2>3 DEF ServerState
  <2> HIDE DEF a
  <2>5. StreamOK(a)
    BY <2>4 DEF StreamOK, BacklogOK
  <2>6. uuid \in MasterUid /\ {} \in SUBSET G
    BY <2>3 DEF MasterUid
  <2> HIDE DEF q
  <2>7. /\ q \in ServerState(G) /\ StreamOK(q) /\ q.mode = "xsync" /\ q.backlog = a.backlog
        /\ q.uuid = a.uuid /\ q.enabled = a.enabled
    BY <1>0, <2>1, <2>4, <2>5, <2>6, Switch2XsyncIs
  <2>8. NamesOK(q, s, G, w, D)
    BY <2>2, <2>4, <2>7, NamesRenewed DEF uuid
  <2>9. q.mode = EnabledMode(q)
    BY <2>2, <2>4, <2>7 DEF EnabledMode
  <2> QED BY <2>4, <2>7, <2>8, <2>9 DEF q
<1> QED BY <1>1, <1>2, <1>3

\* shiftReplicationId.
LEMMA ShiftReplIdIs ==
  ASSUME NEW G, NEW r \in ServerState(G), NEW id \in Nat
  PROVE  LET q == shiftReplicationId(r, id)
         IN  /\ q \in ServerState(G)
             /\ q.mode = r.mode /\ q.prev = r.prev /\ q.replid = id
             /\ q.offset = r.offset /\ q.delta = r.delta /\ q.stale = r.stale
             /\ q.muuid = r.muuid /\ q.uuid = r.uuid
             /\ q.executed = r.executed /\ q.enabled = r.enabled /\ q.backlog = r.backlog
             /\ StreamOK(r) => StreamOK(q)
<1> DEFINE q == shiftReplicationId(r, id)
<1>1. r.offset + 1 \in Int /\ r.replid \in Nat
  BY ServerTypes
<1>2. /\ q \in ServerState(G)
      /\ q.mode = r.mode /\ q.prev = r.prev /\ q.replid = id
      /\ q.offset = r.offset /\ q.delta = r.delta /\ q.stale = r.stale
      /\ q.muuid = r.muuid /\ q.uuid = r.uuid
      /\ q.executed = r.executed /\ q.enabled = r.enabled /\ q.backlog = r.backlog
      /\ q.boff = r.boff /\ q.items = r.items /\ q.idx = r.idx /\ q.from = r.from
  BY <1>1 DEF shiftReplicationId, ServerState
<1> HIDE DEF q
<1>3. StreamOK(r) => StreamOK(q)
  BY <1>2 DEF StreamOK, BacklogOK
<1> QED BY <1>2, <1>3 DEF q

\* serverReplStreamUpdateXsync.
LEMMA UpdatedIs ==
  ASSUME NEW G, NEW r \in ServerState(G), r.mode = "xsync", NEW msg, msg.muuid \in MasterUid,
         msg.replid \in Nat, msg.reploff \in Int
  PROVE  LET q == Updated(r, msg)
         IN  /\ q \in ServerState(G)
             /\ q.mode = r.mode /\ q.prev = r.prev /\ q.replid = msg.replid
             /\ q.offset = r.offset /\ q.delta = msg.reploff - r.offset
             /\ q.muuid = msg.muuid /\ q.uuid = r.uuid
             /\ q.executed = r.executed /\ q.enabled = r.enabled /\ q.backlog = r.backlog
             /\ StreamOK(r) => StreamOK(q)
<1> DEFINE q == Updated(r, msg)
<1>1. msg.reploff - r.offset \in Int
  BY ServerTypes
<1>2. /\ q \in ServerState(G)
      /\ q.mode = r.mode /\ q.prev = r.prev /\ q.replid = msg.replid
      /\ q.offset = r.offset /\ q.delta = msg.reploff - r.offset
      /\ q.muuid = msg.muuid /\ q.uuid = r.uuid
      /\ q.executed = r.executed /\ q.enabled = r.enabled /\ q.backlog = r.backlog
      /\ q.boff = r.boff /\ q.items = r.items /\ q.idx = r.idx /\ q.from = r.from
  BY <1>1 DEF Updated, ServerState
<1> HIDE DEF q
<1>3. StreamOK(r) => StreamOK(q)
  BY <1>2 DEF StreamOK, BacklogOK
<1> QED BY <1>2, <1>3 DEF q

----------------------------------------------------------------------------
(* Messages and connections.                                               *)

\* The fields of a message.
LEMMA MessageTypes ==
  ASSUME NEW G, NEW m \in Messages(G)
  PROVE  /\ m.type \in {"cmd", "eof", "continue", "xcontinue", "fullresync", "xfullresync"}
         /\ m.type = "cmd" => m.item \in ItemsOf(G)
         /\ m.type \in {"continue", "xcontinue", "fullresync", "xfullresync"}
              => m.replid \in Nat /\ m.reploff \in Int
         /\ m.type \in {"xcontinue", "xfullresync"} => m.muuid \in MasterUid
         /\ m.type = "xcontinue" => m.cont \in SUBSET G
         /\ m.type = "xfullresync" => m.executed \in SUBSET G
         /\ m.type \in {"fullresync", "xfullresync"} => m.data \in Seq(Nat)
BY DEF Messages, Answers, Eof

\* A command as a message.
LEMMA CommandIs ==
  ASSUME NEW G, NEW item \in ItemsOf(G)
  PROVE  Command(item) \in Messages(G) /\ Command(item).type = "cmd"
BY DEF Command, Messages

\* The end of a connection as a message.
LEMMA EofIs == Eof.type = "eof" /\ \A G : Eof \in Messages(G)
BY DEF Eof, Messages

\* The fields of a connection.
LEMMA ConnectionTypes ==
  ASSUME NEW G, NEW c \in Connection(G)
  PROVE  /\ c.link \in {"down", "wait", "up"} /\ c.attached \in BOOLEAN
         /\ c.chan \in Seq(Messages(G)) /\ Len(c.chan) \in Nat
         /\ \A i \in 1..Len(c.chan) : c.chan[i] \in Messages(G)
         /\ c.chan # << >> => Head(c.chan) = c.chan[1] /\ Len(c.chan) >= 1
         /\ Len(c.chan) >= 1 => c.chan # << >>
BY DEF Connection

\* A closed connection has nothing in it, and is right whatever the servers are.
LEMMA ClosedIs ==
  /\ \A G : Closed \in Connection(G)
  /\ Closed.link = "down" /\ ~Closed.attached /\ Closed.chan = << >>
  /\ \A r, q, mu : Linked(Closed, r, q, mu)
<1>1. \A G : Closed \in Connection(G)
  BY DEF Closed, Connection
<1>2. Closed.link = "down" /\ ~Closed.attached /\ Closed.chan = << >>
  BY DEF Closed
<1>3. ChanOK(Closed)
  BY <1>2 DEF ChanOK
<1> QED BY <1>1, <1>2, <1>3 DEF Linked

\* What a server counts for those it is connected to.
SameStream(r, q) ==
    /\ q.mode = r.mode /\ q.replid = r.replid /\ q.offset = r.offset /\ q.delta = r.delta
    /\ r.backlog => q.backlog

\* A connection between servers that count the same.
LEMMA LinkedKept ==
  ASSUME NEW c, NEW r, NEW q, NEW mu, Linked(c, r, q, mu), NEW r2, NEW q2, NEW mu2,
         SameStream(r, r2), r2.stale = r.stale, r2.muuid = r.muuid,
         c.attached => SameStream(q, q2) /\ mu2 = mu
  PROVE  Linked(c, r2, q2, mu2)
<1>1. CASE ~c.attached
  BY <1>1 DEF Linked, SameStream
<1>2. CASE c.attached
  <2>1. ASSUME NEW n, Following(r, q, mu, n) PROVE Following(r2, q2, mu2, n)
    BY <1>2, <2>1 DEF Following, SameStream, MasterReploff
  <2>2. ASSUME NEW a, NEW n, Answered(a, r, q, mu, n) PROVE Answered(a, r2, q2, mu2, n)
    BY <1>2, <2>2 DEF Answered, SameStream, MasterReploff
  <2> QED BY <1>2, <2>1, <2>2 DEF Linked, SameStream
<1> QED BY <1>1, <1>2

\* A connection its master closes.
Kicked(c) == [c EXCEPT !.attached = FALSE, !.chan = Append(@, Eof)]

\* A message more, that is no answer.
LEMMA ChanAppend ==
  ASSUME NEW G, NEW c \in Connection(G), NEW d \in Connection(G), ChanOK(c), NEW m,
         c.link # "down", d.link = c.link, d.chan = Append(c.chan, m),
         m.type = "cmd" \/ (m.type = "eof" /\ ~d.attached), d.attached => c.attached
  PROVE  ChanOK(d) /\ Len(d.chan) = Len(c.chan) + 1 /\ d.chan # << >>
         /\ (c.chan # << >> => Head(d.chan) = Head(c.chan))
<1> DEFINE n == Len(c.chan)
<1>1. c.chan \in Seq(Messages(G)) /\ n \in Nat
  BY ConnectionTypes
<1>2. /\ Len(d.chan) = n + 1 /\ d.chan[n + 1] = m /\ \A i \in 1..n : d.chan[i] = c.chan[i]
      /\ d.chan # << >>
  BY <1>1
<1>3. c.link = "wait" => n >= 1
  BY ConnectionTypes DEF ChanOK
<1> HIDE DEF n
<1>4. ASSUME NEW i \in 1..(n + 1)
      PROVE  IF d.link = "wait" /\ i = 1
             THEN d.chan[i].type \in {"continue", "xcontinue", "fullresync", "xfullresync"}
             ELSE d.chan[i].type = "cmd" \/ (d.chan[i].type = "eof" /\ ~d.attached)
  <2>1. CASE i = n + 1
    <3>1. ~(d.link = "wait" /\ i = 1)
      BY <1>1, <1>3, <2>1
    <3> QED BY <1>2, <2>1, <3>1
  <2>2. CASE i # n + 1
    <3>1. i \in 1..n /\ d.chan[i] = c.chan[i]
      BY <1>1, <1>2, <2>2
    <3>2. IF c.link = "wait" /\ i = 1
          THEN c.chan[i].type \in {"continue", "xcontinue", "fullresync", "xfullresync"}
          ELSE c.chan[i].type = "cmd" \/ (c.chan[i].type = "eof" /\ ~c.attached)
      BY <3>1 DEF ChanOK, n
    <3> QED BY <3>1, <3>2
  <2> QED BY <2>1, <2>2
<1>5. ChanOK(d)
  BY <1>2, <1>4 DEF ChanOK
<1>6. c.chan # << >> => Head(d.chan) = Head(c.chan)
  <2>1. ASSUME c.chan # << >> PROVE Head(d.chan) = Head(c.chan)
    <3>1. n >= 1
      BY <1>1, <2>1 DEF n
    <3>2. Head(c.chan) = c.chan[1] /\ d.chan[1] = c.chan[1]
      BY <1>1, <1>2, <3>1
    <3>3. Head(d.chan) = d.chan[1]
      BY <1>2
    <3> QED BY <3>2, <3>3
  <2> QED BY <2>1
<1> QED BY <1>2, <1>5, <1>6 DEF n

\* Nothing is asked of a connection that the master has closed.
LEMMA LinkedKicked ==
  ASSUME NEW G, NEW c \in Connection(G), NEW r, NEW q, NEW mu, Linked(c, r, q, mu),
         c.attached, NEW r2, NEW q2, NEW mu2, r.backlog => r2.backlog
  PROVE  Kicked(c) \in Connection(G) /\ Linked(Kicked(c), r2, q2, mu2)
<1> DEFINE d == Kicked(c)
<1>1. c.chan \in Seq(Messages(G)) /\ Eof \in Messages(G)
  BY ConnectionTypes, EofIs
<1>2. /\ d \in Connection(G) /\ d.link = c.link /\ ~d.attached
      /\ d.chan = Append(c.chan, Eof)
  <2>1. Append(c.chan, Eof) \in Seq(Messages(G))
    BY <1>1
  <2> QED BY <2>1 DEF Kicked, Connection
<1>3. c.link # "down"
  BY ClosedIs DEF Linked, ChanOK
<1> HIDE DEF d
<1>4. ChanOK(d)
  BY <1>2, <1>3, EofIs, ChanAppend DEF Linked
<1>5. Linked(d, r2, q2, mu2)
  BY <1>2, <1>4 DEF Linked
<1> QED BY <1>2, <1>5 DEF d

\* A command for a replica.
LEMMA LinkedFed ==
  ASSUME NEW G, NEW c \in Connection(G), NEW r, NEW q, NEW mu, Linked(c, r, q, mu),
         c.attached, NEW item \in ItemsOf(G), NEW q2,
         r.offset \in Int, r.delta \in Int, q.offset \in Int, q.delta \in Int,
         q2.mode = q.mode, q2.replid = q.replid, q2.delta = q.delta, q2.backlog,
         q2.offset = q.offset + 1
  PROVE  LET d == [c EXCEPT !.chan = Append(@, Command(item))]
         IN  d \in Connection(G) /\ Linked(d, r, q2, mu)
<1> DEFINE d == [c EXCEPT !.chan = Append(@, Command(item))]
           n == Len(c.chan)
<1>1. c.chan \in Seq(Messages(G)) /\ Command(item) \in Messages(G) /\ n \in Nat
  BY ConnectionTypes, CommandIs
<1>2. /\ d \in Connection(G) /\ d.link = c.link /\ d.attached
      /\ d.chan = Append(c.chan, Command(item))
  <2>1. Append(c.chan, Command(item)) \in Seq(Messages(G))
    BY <1>1
  <2> QED BY <2>1 DEF Connection
<1>3. c.link # "down" /\ ChanOK(c)
  BY ClosedIs DEF Linked, ChanOK
<1> HIDE DEF d
<1>4. ChanOK(d) /\ Len(d.chan) = n + 1 /\ (c.chan # << >> => Head(d.chan) = Head(c.chan))
  BY <1>2, <1>3, CommandIs, ChanAppend
<1>5. ASSUME Following(r, q, mu, n) PROVE Following(r, q2, mu, n + 1)
  <2>0. n \in Nat
    BY <1>1
  <2> HIDE DEF n
  <2>1. CASE r.stale
    BY <1>5, <2>1 DEF Following
  <2>2. CASE ~r.stale
    <3>1. r.offset + r.delta + n = q.offset + q.delta
      BY <1>5, <2>2 DEF Following, MasterReploff
    <3>2. r.offset + r.delta + (n + 1) = q.offset + 1 + q.delta
      BY <2>0, <3>1
    <3> QED BY <1>5, <3>2 DEF Following, MasterReploff
  <2> QED BY <2>1, <2>2
<1>6. ASSUME NEW a, a.reploff \in Int, Answered(a, r, q, mu, n - 1)
      PROVE  Answered(a, r, q2, mu, n + 1 - 1)
  <2> DEFINE o == IF a.type = "continue" /\ r.mode = "psync" THEN r.offset ELSE a.reploff
  <2>1. o \in Int
    BY <1>6
  <2> HIDE DEF o
  <2>2. o + (n - 1) = q.offset + q.delta
    BY <1>6 DEF Answered, MasterReploff, o
  <2> HIDE DEF n
  <2>3. o + (n + 1 - 1) = q.offset + 1 + q.delta
    BY <1>1, <2>1, <2>2
  <2> QED BY <1>6, <2>3 DEF Answered, MasterReploff, o
<1>7. ASSUME d.link = "up" PROVE Following(r, q2, mu, Len(d.chan)) /\ r.backlog
  BY <1>2, <1>4, <1>5, <1>7 DEF Linked
<1>8. ASSUME d.link = "wait" PROVE Answered(Head(d.chan), r, q2, mu, Len(d.chan) - 1)
  <2>1. c.link = "wait" /\ c.chan # << >>
    BY <1>2, <1>3, <1>8 DEF ChanOK
  <2>2. Head(c.chan).reploff \in Int
    <3>1. Head(c.chan) \in Messages(G) /\ Head(c.chan) = c.chan[1] /\ 1 \in 1..n
      BY <1>1, <2>1, ConnectionTypes
    <3>2. Head(c.chan).type \in {"continue", "xcontinue", "fullresync", "xfullresync"}
      BY <1>3, <2>1, <3>1 DEF ChanOK
    <3> QED BY <3>1, <3>2, MessageTypes
  <2>3. Answered(Head(c.chan), r, q, mu, n - 1)
    BY <2>1 DEF Linked
  <2> DEFINE a == Head(c.chan)
  <2>4. Answered(a, r, q2, mu, n + 1 - 1)
    <3> HIDE DEF n, a
    <3>1. a.reploff \in Int /\ Answered(a, r, q, mu, n - 1)
      BY <2>2, <2>3 DEF a
    <3> QED BY <1>6, <3>1
  <2> QED BY <1>4, <2>1, <2>4
<1>9. Linked(d, r, q2, mu)
  BY <1>2, <1>4, <1>7, <1>8 DEF Linked
<1> QED BY <1>2, <1>9 DEF d

\* A channel without its first message.
LEMMA ChanTail ==
  ASSUME NEW G, NEW c \in Connection(G), c.chan # << >>
  PROVE  /\ Tail(c.chan) \in Seq(Messages(G)) /\ Len(Tail(c.chan)) = Len(c.chan) - 1
         /\ \A i \in 1..(Len(c.chan) - 1) : Tail(c.chan)[i] = c.chan[i + 1]
         /\ Head(c.chan) \in Messages(G)
<1>1. c.chan \in Seq(Messages(G))
  BY ConnectionTypes
<1> QED BY <1>1

\* Who is answered waits, and who is sent a command or an end does not.
LEMMA WhoReads ==
  ASSUME NEW G, NEW c \in Connection(G), ChanOK(c), c.chan # << >>
  PROVE  /\ Head(c.chan).type \in {"continue", "xcontinue", "fullresync", "xfullresync"}
              => c.link = "wait"
         /\ Head(c.chan).type \in {"cmd", "eof"} => c.link = "up"
<1>1. Head(c.chan) = c.chan[1] /\ 1 \in 1..Len(c.chan)
  BY ConnectionTypes
<1>2. c.link # "down"
  BY ClosedIs DEF ChanOK
<1>3. c.link = "wait" =>
        Head(c.chan).type \in {"continue", "xcontinue", "fullresync", "xfullresync"}
  BY <1>1 DEF ChanOK
<1>4. c.link # "wait" => Head(c.chan).type \in {"cmd", "eof"}
  BY <1>1 DEF ChanOK
<1> QED BY <1>2, <1>3, <1>4, ConnectionTypes

\* Reading keeps a channel right.
LEMMA ChanRead ==
  ASSUME NEW G, NEW c \in Connection(G), ChanOK(c), c.chan # << >>,
         NEW d, d = [c EXCEPT !.link = "up", !.chan = Tail(@)]
  PROVE  /\ d \in Connection(G) /\ d.link = "up" /\ d.attached = c.attached
         /\ d.chan = Tail(c.chan) /\ Len(d.chan) = Len(c.chan) - 1 /\ ChanOK(d)
<1> DEFINE n == Len(c.chan)
<1>1. /\ Tail(c.chan) \in Seq(Messages(G)) /\ Len(Tail(c.chan)) = n - 1
      /\ \A i \in 1..(n - 1) : Tail(c.chan)[i] = c.chan[i + 1]
  BY ChanTail
<1>2. d \in Connection(G) /\ d.link = "up" /\ d.attached = c.attached /\ d.chan = Tail(c.chan)
  BY <1>1 DEF Connection
<1>3. n \in Nat
  BY ConnectionTypes
<1> HIDE DEF n
<1>4. ASSUME NEW i \in 1..(n - 1)
      PROVE  d.chan[i].type = "cmd" \/ (d.chan[i].type = "eof" /\ ~d.attached)
  <2>1. i + 1 \in 1..n /\ i + 1 # 1 /\ d.chan[i] = c.chan[i + 1]
    BY <1>1, <1>2, <1>3
  <2> QED BY <1>2, <2>1 DEF ChanOK, n
<1>5. ChanOK(d)
  BY <1>1, <1>2, <1>4 DEF ChanOK
<1> QED BY <1>1, <1>2, <1>5 DEF n

\* A replica that reads an answer.
LEMMA LinkedRead ==
  ASSUME NEW G, NEW c \in Connection(G), NEW r, NEW q, NEW mu, Linked(c, r, q, mu),
         c.chan # << >>,
         Head(c.chan).type \in {"continue", "xcontinue", "fullresync", "xfullresync"},
         NEW d, d = [c EXCEPT !.link = "up", !.chan = Tail(@)],
         NEW r2, r2.backlog,
         Answered(Head(c.chan), r, q, mu, Len(c.chan) - 1)
            => Following(r2, q, mu, Len(c.chan) - 1)
  PROVE  d \in Connection(G) /\ Linked(d, r2, q, mu)
<1>1. /\ d \in Connection(G) /\ d.link = "up" /\ d.attached = c.attached
      /\ Len(d.chan) = Len(c.chan) - 1 /\ ChanOK(d)
  BY ChanRead, ZenonT(60) DEF Linked
<1>2. c.link = "wait"
  BY WhoReads DEF Linked
<1> QED BY <1>1, <1>2 DEF Linked

----------------------------------------------------------------------------
(* The master's answers.                                                   *)

\* An index that is bounded below has a first entry.
LEMMA FirstEntry ==
  ASSUME NEW I \in SUBSET Entries, I # {}, NEW b \in Int, \A e \in I : b <= e.offset
  PROVE  \E e \in I : \A f \in I : e.offset <= f.offset
<1> DEFINE T == {e.offset - b : e \in I}
           R == OpToRel(<, Nat)
<1>0. \A e \in I : e.offset \in Int
  BY DEF Entries
<1>1. T \subseteq Nat /\ T # {}
  <2>1. ASSUME NEW e \in I PROVE e.offset - b \in Nat
    BY <1>0
  <2> QED BY <2>1
<1>2. \E x \in T : \A y \in T : ~(<<y, x>> \in R)
  <2> HIDE DEF T, R
  <2>1. IsWellFoundedOn(R, Nat)
    BY NatLessThanWellFounded DEF R
  <2> QED BY <1>1, <2>1, WFMin
<1>3. PICK x \in T : \A y \in T : ~(<<y, x>> \in R)
  BY <1>2
<1>4. PICK e \in I : x = e.offset - b
  OBVIOUS
<1>5. ASSUME NEW f \in I PROVE e.offset <= f.offset
  <2> DEFINE y == f.offset - b
  <2>1. y \in T /\ y \in Nat /\ x \in Nat
    BY <1>1
  <2>2. ~(<<y, x>> \in R)
    BY <1>3, <2>1
  <2>3. ~(y < x)
    <3> HIDE DEF y
    <3> QED BY <2>1, <2>2 DEF OpToRel
  <2>4. f.offset \in Int /\ e.offset \in Int
    BY <1>0
  <2> QED BY <1>4, <2>3, <2>4
<1> QED BY <1>5

\* What locateServerReplMode says of an offset.
LEMMA LocateIs ==
  ASSUME NEW G, NEW q \in ServerState(G), NEW mode, NEW offset \in Int
  PROVE  LET type == locateServerReplMode(q, mode, offset)
         IN  /\ type \in {"invalid", "cur", "prev", "switch"}
             /\ type = "cur" => mode = q.mode
             /\ type = "switch" => mode # q.mode /\ q.prev # Unset
             /\ type = "prev" => q.prev # Unset /\ q.prev.mode = mode /\ offset < q.from
<1>0. q.from \in Int
  BY ServerTypes
<1>1. CASE offset > q.from
  <2>1. locateServerReplMode(q, mode, offset) = IF mode = q.mode THEN "cur" ELSE "invalid"
    BY <1>0, <1>1 DEF locateServerReplMode
  <2> QED BY <2>1
<1>2. CASE offset = q.from
  <2>1. locateServerReplMode(q, mode, offset) =
          IF mode = q.mode THEN "cur" ELSE IF q.prev = Unset THEN "invalid" ELSE "switch"
    BY <1>0, <1>2 DEF locateServerReplMode
  <2> QED BY <2>1
<1>3. CASE offset < q.from
  <2>1. locateServerReplMode(q, mode, offset) =
          IF q.prev = Unset \/ q.prev.mode # mode \/ offset < q.prev.from
          THEN "invalid" ELSE "prev"
    BY <1>0, <1>3 DEF locateServerReplMode
  <2> QED BY <1>3, <2>1
<1> QED BY <1>0, <1>1, <1>2, <1>3

\* What a master q says to a replica r when it does not send everything: it
\* begins no later than the end of its stream, an answer without a limit counts
\* as the master does, and one with a limit stops where the mode begins.
Partial(a, G, q, r) ==
    /\ a # Full
    /\ a.replid \in Nat /\ a.reploff \in Int /\ a.offset \in Int /\ a.limit \in Int
    /\ a.offset <= q.offset + 1
    /\ \/ a.type = "continue"
       \/ a.type = "xcontinue" /\ a.cont \in SUBSET G
    /\ a.limit = NoLimit =>
         /\ a.replid = q.replid
         /\ IF a.type = "continue"
            THEN q.mode = "psync"
                 /\ a.offset = (IF r.mode = "psync" THEN r.offset ELSE a.reploff) + 1
            ELSE q.mode = "xsync" /\ a.reploff = q.delta + a.offset - 1
    /\ a.limit # NoLimit => a.limit = q.from - a.offset

\* The form of a +CONTINUE.
LEMMA ContinueIs ==
  ASSUME NEW id, NEW reploff, NEW offset, NEW limit
  PROVE  LET a == Continue(id, reploff, offset, limit)
         IN  /\ a # Full /\ a.type = "continue" /\ a.replid = id /\ a.reploff = reploff
             /\ a.offset = offset /\ a.limit = limit
<1>1. Continue(id, reploff, offset, limit).type # Full.type
  BY DEF Continue, Full
<1> QED BY <1>1 DEF Continue

\* The form of an +XCONTINUE.
LEMMA XcontinueIs ==
  ASSUME NEW id, NEW reploff, NEW offset, NEW limit, NEW cont
  PROVE  LET a == Xcontinue(id, reploff, offset, limit, cont)
         IN  /\ a # Full /\ a.type = "xcontinue" /\ a.replid = id /\ a.reploff = reploff
             /\ a.offset = offset /\ a.limit = limit /\ a.cont = cont
<1>1. Xcontinue(id, reploff, offset, limit, cont).type # Full.type
  BY DEF Xcontinue, Full
<1> QED BY <1>1 DEF Xcontinue

\* The previous mode of a server that has one.
LEMMA PrevIs ==
  ASSUME NEW p \in Prevs, p # Unset
  PROVE  /\ p.mode \in Modes /\ p.from \in Int /\ p.replid \in Nat /\ p.replid2 \in Nat
         /\ p.off2 \in Int /\ p.delta \in Int
BY DEF Prevs

\* The answer to a PSYNC.
LEMMA PsyncAnswer ==
  ASSUME NEW G, NEW q \in ServerState(G), StreamOK(q), NEW r \in ServerState(G),
         r.mode = "psync",
         NEW a, a = masterAnaPsyncRequest(q, r.replid, r.offset + 1)
  PROVE  a = Full \/ Partial(a, G, q, r)
<1> DEFINE offset == r.offset + 1
           id == r.replid
           type == locateServerReplMode(q, "psync", offset)
           xsync == Gtids(Index!From(q.idx, offset))
           end == q.boff + Len(q.items)
<1>1. /\ offset \in Int /\ r.offset \in Int /\ q.offset \in Int /\ q.replid \in Nat
      /\ q.delta \in Int /\ q.from \in Int /\ q.prev \in Prevs /\ end \in Int
      /\ q.executed \ xsync \in SUBSET G
  <2>1. q.items \in Seq(ItemsOf(G)) /\ q.boff \in Int
    BY ServerTypes
  <2>2. Len(q.items) \in Nat
    BY <2>1
  <2>3. q.executed \in SUBSET G
    BY ServerTypes
  <2> HIDE DEF xsync
  <2> QED BY <2>1, <2>2, <2>3, ServerTypes
<1>2. /\ type \in {"invalid", "cur", "prev", "switch"}
      /\ type = "cur" => q.mode = "psync"
      /\ type = "switch" => q.mode # "psync" /\ q.prev # Unset
      /\ type = "prev" => q.prev # Unset /\ offset < q.from
  <2> HIDE DEF offset
  <2> QED BY <1>1, LocateIs
<1>3. CASE \/ ~q.backlog \/ offset < q.boff \/ offset > end \/ type = "invalid"
           \/ type # "cur" /\ ~AcceptsPrev(q, id, offset)
  <2>1. a = Full
    BY <1>3 DEF masterAnaPsyncRequest
  <2> QED BY <2>1
<1>4. CASE ~(\/ ~q.backlog \/ offset < q.boff \/ offset > end \/ type = "invalid"
             \/ type # "cur" /\ ~AcceptsPrev(q, id, offset))
  <2>1. offset <= q.offset + 1
    <3>1. end = q.offset + 1
      BY <1>4 DEF StreamOK, BacklogOK
    <3> HIDE DEF offset, end
    <3> QED BY <1>1, <1>4, <3>1
  <2>2. CASE type = "cur"
    <3>1. a = masterTryPartialResynchronization(q, id, offset)
      BY <1>4, <2>2 DEF masterAnaPsyncRequest
    <3>2. CASE a = Full
      BY <3>2
    <3>3. CASE a # Full
      <4>1. a = Continue(q.replid, -1, offset, NoLimit)
        BY <3>1, <3>3 DEF masterTryPartialResynchronization
      <4>2. -1 \in Int /\ NoLimit \in Int
        BY DEF NoLimit
      <4>3. /\ a # Full /\ a.type = "continue" /\ a.replid = q.replid /\ a.reploff = -1
            /\ a.offset = r.offset + 1 /\ a.limit = NoLimit
        BY <4>1, ContinueIs
      <4> QED BY <1>1, <1>2, <2>1, <2>2, <4>2, <4>3 DEF Partial
    <3> QED BY <3>2, <3>3
  <2>3. CASE type = "prev"
    <3> DEFINE limit == PrevLimit(q, offset)
    <3>1. a = Continue(q.prev.replid, -1, offset, limit)
      BY <1>4, <2>3 DEF masterAnaPsyncRequest
    <3>2. q.prev.replid \in Nat
      BY <1>1, <1>2, <2>3, PrevIs
    <3>3. limit = q.from - offset /\ limit # NoLimit /\ limit \in Int
      <4> HIDE DEF offset
      <4> QED BY <1>1, <1>2, <2>3 DEF PrevLimit, NoLimit
    <3> HIDE DEF limit
    <3>4. /\ a # Full /\ a.type = "continue" /\ a.replid = q.prev.replid /\ a.reploff = -1
          /\ a.offset = offset /\ a.limit = limit
      BY <3>1, ContinueIs
    <3>5. -1 \in Int
      OBVIOUS
    <3> HIDE DEF offset
    <3> QED BY <1>1, <2>1, <3>2, <3>3, <3>4, <3>5 DEF Partial
  <2>4. CASE type = "switch"
    <3> DEFINE cont == q.executed \ xsync
               reploff == q.delta + offset - 1
    <3>1. a = Xcontinue(q.replid, reploff, offset, NoLimit, cont)
      BY <1>4, <2>4 DEF masterAnaPsyncRequest
    <3>2. reploff \in Int /\ NoLimit \in Int /\ cont \in SUBSET G
      BY <1>1 DEF NoLimit
    <3>3. q.mode = "xsync"
      BY <1>2, <2>4, ServerTypes DEF Modes
    <3>4. reploff = q.delta + offset - 1
      OBVIOUS
    <3> HIDE DEF reploff, cont, offset
    <3>5. /\ a # Full /\ a.type = "xcontinue" /\ a.replid = q.replid /\ a.reploff = reploff
          /\ a.offset = offset /\ a.limit = NoLimit /\ a.cont = cont
      BY <3>1, XcontinueIs
    <3> QED BY <1>1, <2>1, <3>2, <3>3, <3>4, <3>5 DEF Partial
  <2> QED BY <1>2, <1>4, <2>2, <2>3, <2>4
<1> QED BY <1>3, <1>4

\* Where a replica goes on is no later than the end of the stream.
LEMMA ContinuePointIs ==
  ASSUME NEW G, NEW q \in ServerState(G), StreamOK(q), NEW L \in SUBSET q.idx
  PROVE  ContinuePoint(q, L) \in Int /\ ContinuePoint(q, L) <= q.offset + 1
<1>1. q.offset \in Int /\ q.from \in Int /\ q.from <= q.offset + 1 /\ q.idx \in SUBSET Entries
  BY ServerTypes DEF StreamOK
<1>2. CASE L # {}
  <2>1. PICK b \in Int : \A e \in q.idx : b <= e.offset
    BY DEF StreamOK, BacklogOK
  <2>2. \E e \in L : \A f \in L : e.offset <= f.offset
    <3>1. L \in SUBSET Entries /\ \A e \in L : b <= e.offset
      BY <1>1, <2>1
    <3> QED BY <1>2, <3>1, FirstEntry
  <2> DEFINE e == CHOOSE e \in L : \A f \in L : e.offset <= f.offset
  <2>3. e \in L
    BY <2>2
  <2>4. ContinuePoint(q, L) = e.offset
    BY <1>2 DEF ContinuePoint
  <2> HIDE DEF e
  <2>5. e.offset <= q.offset /\ e.offset \in Int
    BY <1>1, <2>3 DEF StreamOK, BacklogOK, Entries
  <2> QED BY <1>1, <2>4, <2>5
<1>3. CASE L = {}
  BY <1>1, <1>3 DEF ContinuePoint
<1> QED BY <1>2, <1>3

\* The answer to an XSYNC.
LEMMA XsyncAnswer ==
  ASSUME NEW G, NEW q \in ServerState(G), StreamOK(q), NEW r \in ServerState(G),
         r.mode # "psync",
         NEW a, a = masterAnaXsyncRequest(q, r.executed, r.force)
  PROVE  a = Full \/ Partial(a, G, q, r)
<1> DEFINE lacking == Index!Lacking(q.idx, Need(r.executed))
           offset == ContinuePoint(q, lacking)
           type == locateServerReplMode(q, "xsync", offset)
           cont == q.executed \ Gtids(lacking)
           no == \/ r.force \/ ~gtidSetRelated(q, r.executed)
                 \/ q.mode = "psync" /\ offset < q.boff
                 \/ type = "invalid"
                 \/ cont # r.executed
<1>1. lacking \in SUBSET q.idx
  BY DEF Index!Lacking
<1>2. offset \in Int /\ offset <= q.offset + 1
  <2> HIDE DEF lacking
  <2> QED BY <1>1, ContinuePointIs
<1>3. /\ q.offset \in Int /\ q.replid \in Nat
      /\ q.delta \in Int /\ q.from \in Int /\ q.prev \in Prevs /\ cont \in SUBSET G
  <2>1. q.executed \in SUBSET G
    BY ServerTypes
  <2> HIDE DEF lacking
  <2> QED BY <2>1, ServerTypes
<1> DEFINE ans == CASE type = "prev" -> Xcontinue(q.prev.replid, q.prev.delta + offset - 1, offset,
                                                  PrevLimit(q, offset), cont)
                    [] type = "switch" -> Continue(q.replid, offset - 1, offset, NoLimit)
                    [] type = "cur" -> Xcontinue(q.replid, q.delta + offset - 1, offset, NoLimit,
                                                 cont)
<1>4. a = IF no THEN Full ELSE ans
  BY DEF masterAnaXsyncRequest
<1>5. no \/ type # "invalid"
  OBVIOUS
<1> HIDE DEF lacking, no, cont, offset
<1>6. /\ type \in {"invalid", "cur", "prev", "switch"}
      /\ type = "cur" => q.mode = "xsync"
      /\ type = "switch" => q.mode # "xsync" /\ q.prev # Unset
      /\ type = "prev" => q.prev # Unset /\ offset < q.from
  BY <1>2, LocateIs
<1> HIDE DEF type
<1>7. CASE no
  BY <1>4, <1>7
<1>8. CASE ~no
  <2>0. a = ans /\ type # "invalid"
    BY <1>4, <1>5, <1>8
  <2>1. CASE type = "cur"
    <3> DEFINE reploff == q.delta + offset - 1
    <3>1. a = Xcontinue(q.replid, reploff, offset, NoLimit, cont)
      BY <2>0, <2>1
    <3>2. reploff \in Int /\ NoLimit \in Int /\ reploff = q.delta + offset - 1
      BY <1>2, <1>3 DEF NoLimit
    <3> HIDE DEF reploff
    <3>3. /\ a # Full /\ a.type = "xcontinue" /\ a.replid = q.replid /\ a.reploff = reploff
          /\ a.offset = offset /\ a.limit = NoLimit /\ a.cont = cont
      BY <3>1, XcontinueIs
    <3> QED BY <1>2, <1>3, <1>6, <2>1, <3>2, <3>3 DEF Partial
  <2>2. CASE type = "prev"
    <3> DEFINE reploff == q.prev.delta + offset - 1
               limit == PrevLimit(q, offset)
    <3>1. a = Xcontinue(q.prev.replid, reploff, offset, limit, cont)
      BY <2>0, <2>2
    <3>2. q.prev.replid \in Nat /\ reploff \in Int
      BY <1>2, <1>3, <1>6, <2>2, PrevIs
    <3>3. limit = q.from - offset /\ limit # NoLimit /\ limit \in Int
      BY <1>2, <1>3, <1>6, <2>2 DEF PrevLimit, NoLimit
    <3> HIDE DEF limit, reploff
    <3>4. /\ a # Full /\ a.type = "xcontinue" /\ a.replid = q.prev.replid /\ a.reploff = reploff
          /\ a.offset = offset /\ a.limit = limit /\ a.cont = cont
      BY <3>1, XcontinueIs
    <3> QED BY <1>2, <1>3, <3>2, <3>3, <3>4 DEF Partial
  <2>3. CASE type = "switch"
    <3> DEFINE reploff == offset - 1
    <3>1. a = Continue(q.replid, reploff, offset, NoLimit)
      BY <2>0, <2>3
    <3>2. reploff \in Int /\ NoLimit \in Int /\ offset = reploff + 1
      BY <1>2 DEF NoLimit
    <3>3. q.mode = "psync"
      BY <1>6, <2>3, ServerTypes DEF Modes
    <3> HIDE DEF reploff
    <3>4. /\ a # Full /\ a.type = "continue" /\ a.replid = q.replid /\ a.reploff = reploff
          /\ a.offset = offset /\ a.limit = NoLimit
      BY <3>1, ContinueIs
    <3> QED BY <1>2, <1>3, <3>2, <3>3, <3>4 DEF Partial
  <2> QED BY <1>6, <2>0, <2>1, <2>2, <2>3
<1> QED BY <1>7, <1>8

\* The answer to any request.
LEMMA AnswerIs ==
  ASSUME NEW G, NEW q \in ServerState(G), StreamOK(q), NEW r \in ServerState(G)
  PROVE  LET a == masterAnaSyncRequest(q, r) IN a = Full \/ Partial(a, G, q, r)
<1>1. CASE r.mode = "psync"
  BY <1>1, PsyncAnswer DEF masterAnaSyncRequest
<1>2. CASE r.mode # "psync"
  BY <1>2, XsyncAnswer DEF masterAnaSyncRequest
<1> QED BY <1>1, <1>2

\* What is sent of a backlog: what is left of the stream, or of the mode before
\* the present one, and then the end.
LEMMA BacklogIs ==
  ASSUME NEW G, NEW q \in ServerState(G), StreamOK(q), q.backlog, NEW a, NEW r, Partial(a, G, q, r),
         a.offset >= q.boff
  PROVE  LET ch == Backlog(q, a)
         IN  /\ ch \in Seq(Messages(G))
             /\ \A i \in 1..Len(ch) :
                   ch[i].type = "cmd" \/ (ch[i].type = "eof" /\ a.limit # NoLimit)
             /\ a.limit = NoLimit => Len(ch) = q.offset + 1 - a.offset
<1> DEFINE first == a.offset - q.boff + 1
           last == IF a.limit = NoLimit THEN Len(q.items) ELSE first + a.limit - 1
           items == SubSeq(q.items, first, last)
           cmds == [i \in DOMAIN items |-> Command(items[i])]
           rest == IF a.limit = NoLimit THEN << >> ELSE <<Eof>>
           n == Len(q.items)
<1>1. /\ q.items \in Seq(ItemsOf(G)) /\ n \in Nat /\ q.boff \in Int /\ q.offset \in Int
      /\ q.from \in Int /\ q.from <= q.offset + 1 /\ q.boff + n = q.offset + 1
      /\ \A i \in 1..n : q.items[i] \in ItemsOf(G)
  <2>1. q.items \in Seq(ItemsOf(G))
    BY ServerTypes
  <2>2. n \in Nat /\ \A i \in 1..n : q.items[i] \in ItemsOf(G)
    BY <2>1
  <2> QED BY <2>1, <2>2, ServerTypes DEF StreamOK, BacklogOK
<1>2. a.offset \in Int /\ a.limit \in Int /\ (a.limit # NoLimit => a.limit = q.from - a.offset)
      /\ a.offset <= q.offset + 1
  BY DEF Partial
<1>3. first \in Int /\ first >= 1 /\ last \in Int /\ last <= n
      /\ (a.limit = NoLimit => last = n)
  <2>1. first \in Int /\ first >= 1
    BY <1>1, <1>2
  <2>2. CASE a.limit = NoLimit
    BY <1>1, <2>1, <2>2
  <2>3. CASE a.limit # NoLimit
    <3>1. last = first + (q.from - a.offset) - 1
      BY <1>2, <2>3
    <3>2. last = q.from - q.boff
      <4> HIDE DEF last
      <4> QED BY <1>1, <1>2, <3>1
    <3> HIDE DEF last, n
    <3> QED BY <1>1, <2>1, <2>3, <3>2
  <2> QED BY <2>1, <2>2, <2>3
<1>4. first = a.offset - q.boff + 1
  OBVIOUS
<1> HIDE DEF first, last
<1>5. /\ items \in Seq(ItemsOf(G))
      /\ Len(items) = IF first <= last THEN last - first + 1 ELSE 0
  <2>1. \A i \in first..last : q.items[i] \in ItemsOf(G)
    BY <1>1, <1>3
  <2> QED BY <1>3, <2>1, SubSeqProperties
<1> HIDE DEF items
<1>6. /\ cmds \in Seq(Messages(G)) /\ Len(cmds) = Len(items) /\ Len(items) \in Nat
      /\ \A i \in 1..Len(items) : cmds[i].type = "cmd"
  <2>1. DOMAIN items = 1..Len(items) /\ Len(items) \in Nat
        /\ \A i \in 1..Len(items) : items[i] \in ItemsOf(G)
    BY <1>5
  <2>2. ASSUME NEW i \in 1..Len(items) PROVE cmds[i] \in Messages(G) /\ cmds[i].type = "cmd"
    BY <2>1, CommandIs
  <2> QED BY <2>1, <2>2
<1> HIDE DEF cmds
<1>7. /\ rest \in Seq(Messages(G)) /\ (a.limit = NoLimit => Len(rest) = 0)
      /\ \A i \in 1..Len(rest) : rest[i].type = "eof" /\ a.limit # NoLimit
  <2>1. CASE a.limit = NoLimit
    BY <2>1
  <2>2. CASE a.limit # NoLimit
    BY <2>2, EofIs
  <2> QED BY <2>1, <2>2
<1> HIDE DEF rest
<1> DEFINE ch == cmds \o rest
<1>8. /\ ch \in Seq(Messages(G)) /\ Len(ch) = Len(cmds) + Len(rest)
      /\ \A i \in 1..Len(cmds) + Len(rest) :
            ch[i] = IF i <= Len(cmds) THEN cmds[i] ELSE rest[i - Len(cmds)]
  BY <1>6, <1>7, ConcatProperties, ZenonT(60)
<1>9. ch = Backlog(q, a)
  BY DEF Backlog, items, cmds, rest, first, last
<1>10. Len(cmds) \in Nat /\ Len(rest) \in Nat
  BY <1>6, <1>7
<1> HIDE DEF ch
<1>11. ASSUME NEW i \in 1..Len(ch)
       PROVE  ch[i].type = "cmd" \/ (ch[i].type = "eof" /\ a.limit # NoLimit)
  <2>1. CASE i <= Len(cmds)
    <3>1. i \in 1..Len(items) /\ ch[i] = cmds[i]
      BY <1>6, <1>8, <2>1
    <3> QED BY <1>6, <3>1
  <2>2. CASE ~(i <= Len(cmds))
    <3>1. i - Len(cmds) \in 1..Len(rest) /\ ch[i] = rest[i - Len(cmds)]
      BY <1>8, <1>10, <2>2
    <3> QED BY <1>7, <3>1
  <2> QED BY <2>1, <2>2
<1>12. ASSUME a.limit = NoLimit PROVE Len(ch) = q.offset + 1 - a.offset
  <2>1. Len(ch) = Len(items) /\ last = n
    BY <1>3, <1>6, <1>7, <1>8, <1>12
  <2>2. Len(items) = IF first <= n THEN n - first + 1 ELSE 0
    BY <1>5, <2>1
  <2>3. n - first + 1 = q.offset + 1 - a.offset
    <3> HIDE DEF n
    <3>1. a.offset \in Int /\ n \in Int /\ q.boff \in Int /\ q.offset \in Int
      BY <1>1, <1>2
    <3>2. q.boff + n = q.offset + 1
      BY <1>1
    <3> QED BY <1>4, <3>1, <3>2
  <2>4. n - first + 1 >= 0
    <3> HIDE DEF n
    <3> QED BY <1>1, <1>2, <2>3
  <2>5. Len(items) = n - first + 1
    <3> HIDE DEF n
    <3>1. CASE first <= n
      BY <2>2, <3>1
    <3>2. CASE ~(first <= n)
      BY <1>1, <1>3, <2>2, <2>4, <3>2
    <3> QED BY <3>1, <3>2
  <2> QED BY <2>1, <2>3, <2>5
<1> QED BY <1>8, <1>9, <1>11, <1>12

\* The uuid a server answers with.
LEMMA MasterUuidIs ==
  ASSUME NEW G, NEW q \in ServerState(G), NEW m
  PROVE  getMasterUuid(q, m) \in MasterUid
BY ServerTypes DEF getMasterUuid, MasterUid

\* +CONTINUE or +XCONTINUE.
LEMMA ReplyIs ==
  ASSUME NEW G, NEW q \in ServerState(G), NEW m, NEW a, NEW r, Partial(a, G, q, r)
  PROVE  /\ Reply(q, m, a) \in Messages(G)
         /\ Reply(q, m, a).type \in {"continue", "xcontinue"}
         /\ Reply(q, m, a).type = a.type
         /\ Reply(q, m, a).replid = a.replid /\ Reply(q, m, a).reploff = a.reploff
         /\ a.type = "xcontinue" => Reply(q, m, a).muuid = getMasterUuid(q, master[m])
<1>1. a.replid \in Nat /\ a.reploff \in Int
  BY DEF Partial
<1>2. CASE a.type = "continue"
  <2>1. Reply(q, m, a) = [type |-> "continue", replid |-> a.replid, reploff |-> a.reploff]
    BY <1>2 DEF Reply
  <2> HIDE DEF Reply
  <2> QED BY <1>1, <1>2, <2>1 DEF Messages, Answers
<1>3. CASE a.type # "continue"
  <2>1. a.type = "xcontinue" /\ a.cont \in SUBSET G
    BY <1>3 DEF Partial
  <2> DEFINE mu == getMasterUuid(q, master[m])
  <2>2. mu \in MasterUid
    BY MasterUuidIs
  <2>3. Reply(q, m, a) = [type |-> "xcontinue", replid |-> a.replid, reploff |-> a.reploff,
                          cont |-> a.cont, muuid |-> mu]
    BY <1>3 DEF Reply
  <2> HIDE DEF mu
  <2>4. /\ Reply(q, m, a) \in Messages(G) /\ Reply(q, m, a).type = "xcontinue"
        /\ Reply(q, m, a).replid = a.replid /\ Reply(q, m, a).reploff = a.reploff
        /\ Reply(q, m, a).muuid = mu
    BY <1>1, <2>1, <2>2, <2>3 DEF Messages, Answers
  <2> QED BY <2>1, <2>4 DEF mu
<1> QED BY <1>2, <1>3

\* +FULLRESYNC or +XFULLRESYNC counts as the master does.
LEMMA FullResyncIs ==
  ASSUME NEW G, NEW q \in ServerState(G), StreamOK(q), NEW m, NEW r
  PROVE  LET a == FullResync(q, m)
         IN  /\ a \in Messages(G) /\ a.type \in {"fullresync", "xfullresync"}
             /\ Answered(a, r, q, getMasterUuid(q, master[m]), 0)
<1> DEFINE mu == getMasterUuid(q, master[m])
<1>1. /\ q.replid \in Nat /\ q.offset \in Int /\ q.delta \in Int /\ q.mode \in Modes
      /\ q.executed \in SUBSET G /\ q.data \in Seq(Nat) /\ mu \in MasterUid
  BY ServerTypes, MasterUuidIs
<1> HIDE DEF mu
<1>2. CASE q.mode = "psync"
  <2> DEFINE a == [type |-> "fullresync", replid |-> q.replid, reploff |-> q.offset,
                   data |-> q.data]
  <2>1. FullResync(q, m) = a
    BY <1>2 DEF FullResync
  <2>2. a \in Messages(G)
    BY <1>1 DEF Messages, Answers
  <2>3. a.type = "fullresync" /\ a.replid = q.replid /\ a.reploff = q.offset
    OBVIOUS
  <2> HIDE DEF a
  <2>4. q.delta = 0
    BY <1>2 DEF StreamOK
  <2>5. a.reploff + 0 = MasterReploff(q)
    BY <1>1, <2>3, <2>4 DEF MasterReploff
  <2>6. Answered(a, r, q, mu, 0)
    BY <1>2, <2>3, <2>5 DEF Answered
  <2> QED BY <2>1, <2>2, <2>3, <2>6 DEF mu
<1>3. CASE q.mode # "psync"
  <2> DEFINE a == [type |-> "xfullresync", replid |-> q.replid, reploff |-> MasterReploff(q),
                   muuid |-> mu, executed |-> q.executed, data |-> q.data]
  <2>1. FullResync(q, m) = a
    BY <1>3 DEF FullResync, mu
  <2>2. MasterReploff(q) \in Int
    BY <1>1 DEF MasterReploff
  <2>3. a \in Messages(G)
    <3> HIDE DEF MasterReploff
    <3> QED BY <1>1, <2>2 DEF Messages, Answers
  <2>4. a.type = "xfullresync" /\ a.replid = q.replid /\ a.reploff = MasterReploff(q)
        /\ a.muuid = mu
    OBVIOUS
  <2> HIDE DEF a
  <2>5. a.reploff + 0 = MasterReploff(q)
    BY <2>2, <2>4
  <2>6. Answered(a, r, q, mu, 0)
    BY <1>1, <1>3, <2>4, <2>5 DEF Answered, Modes
  <2> QED BY <2>1, <2>3, <2>4, <2>6 DEF mu
<1> QED BY <1>2, <1>3

\* A message before a channel.
LEMMA ChanCons ==
  ASSUME NEW S, NEW m \in S, NEW ch \in Seq(S)
  PROVE  /\ <<m>> \o ch \in Seq(S) /\ Len(<<m>> \o ch) = Len(ch) + 1
         /\ Head(<<m>> \o ch) = m /\ (<<m>> \o ch)[1] = m /\ <<m>> \o ch # << >>
         /\ \A i \in 1..Len(ch) + 1 : i # 1 => (<<m>> \o ch)[i] = ch[i - 1]
<1> DEFINE d == <<m>> \o ch
<1>1. <<m>> \in Seq(S) /\ Len(<<m>>) = 1 /\ <<m>>[1] = m /\ Len(ch) \in Nat
  OBVIOUS
<1>2. /\ d \in Seq(S) /\ Len(d) = 1 + Len(ch)
      /\ \A i \in 1..(1 + Len(ch)) : d[i] = IF i <= 1 THEN <<m>>[i] ELSE ch[i - 1]
  <2>1. /\ d \in Seq(S) /\ Len(d) = Len(<<m>>) + Len(ch)
        /\ \A i \in 1..Len(<<m>>) + Len(ch) :
              d[i] = IF i <= Len(<<m>>) THEN <<m>>[i] ELSE ch[i - Len(<<m>>)]
    BY <1>1, ConcatProperties
  <2> HIDE DEF d
  <2> QED BY <1>1, <2>1
<1> HIDE DEF d
<1>3. d[1] = m
  <2>1. 1 \in 1..(1 + Len(ch))
    BY <1>1
  <2> QED BY <1>1, <1>2, <2>1
<1>4. \A i \in 1..Len(ch) + 1 : i # 1 => d[i] = ch[i - 1]
  BY <1>1, <1>2
<1>5. d # << >> /\ Head(d) = d[1]
  BY <1>1, <1>2
<1> QED BY <1>1, <1>2, <1>3, <1>4, <1>5 DEF d

\* A replica that waits.
LEMMA WaitingIs ==
  ASSUME NEW G, NEW t \in BOOLEAN, NEW k \in Seq(Messages(G))
  PROVE  [link |-> "wait", attached |-> t, chan |-> k] \in Connection(G)
BY DEF Connection

\* A replica that has got a full resync.
LEMMA LinkedFull ==
  ASSUME NEW G, NEW q \in ServerState(G), StreamOK(q), q.backlog, NEW m, NEW r,
         NEW c, c = [link |-> "wait", attached |-> TRUE, chan |-> <<FullResync(q, m)>>]
  PROVE  c \in Connection(G) /\ Linked(c, r, q, getMasterUuid(q, master[m]))
<1> DEFINE a == FullResync(q, m)
<1>1. /\ a \in Messages(G) /\ a.type \in {"fullresync", "xfullresync"}
      /\ Answered(a, r, q, getMasterUuid(q, master[m]), 0)
  BY FullResyncIs
<1> HIDE DEF a
<1>2. c.link = "wait" /\ c.attached /\ c.chan = <<a>>
  BY DEF a
<1>3. c \in Connection(G)
  BY <1>1 DEF Connection, a
<1>4. /\ Len(c.chan) = 1 /\ c.chan # << >> /\ c.chan[1] = a /\ Head(c.chan) = a
      /\ Len(c.chan) - 1 = 0
  BY <1>2
<1>5. \A i \in 1..Len(c.chan) : i = 1
  BY <1>4
<1>6. ChanOK(c)
  BY <1>1, <1>2, <1>4, <1>5 DEF ChanOK
<1> QED BY <1>1, <1>2, <1>3, <1>4, <1>6 DEF Linked

\* A replica that has got the rest of the stream, or of the mode before.
LEMMA LinkedPartial ==
  ASSUME NEW G, NEW q \in ServerState(G), StreamOK(q), q.backlog, NEW m, NEW r \in ServerState(G),
         NEW a, Partial(a, G, q, r), a.offset >= q.boff,
         NEW c, c = [link |-> "wait", attached |-> (a.limit = NoLimit),
                     chan |-> <<Reply(q, m, a)>> \o Backlog(q, a)]
  PROVE  c \in Connection(G) /\ Linked(c, r, q, getMasterUuid(q, master[m]))
<1> DEFINE p == Reply(q, m, a)
           ch == Backlog(q, a)
           mu == getMasterUuid(q, master[m])
<1>1. /\ p \in Messages(G) /\ p.type \in {"continue", "xcontinue"} /\ p.type = a.type
      /\ p.replid = a.replid /\ p.reploff = a.reploff
      /\ a.type = "xcontinue" => p.muuid = mu
  BY ReplyIs
<1>2. /\ ch \in Seq(Messages(G))
      /\ \A i \in 1..Len(ch) : ch[i].type = "cmd" \/ (ch[i].type = "eof" /\ a.limit # NoLimit)
      /\ a.limit = NoLimit => Len(ch) = q.offset + 1 - a.offset
  BY BacklogIs
<1>3. c.link = "wait" /\ c.attached = (a.limit = NoLimit) /\ c.chan = <<p>> \o ch
  OBVIOUS
<1> HIDE DEF p, ch, mu
<1>4. /\ c.chan \in Seq(Messages(G)) /\ Len(c.chan) = Len(ch) + 1
      /\ Head(c.chan) = p /\ c.chan[1] = p /\ c.chan # << >>
      /\ \A i \in 1..Len(ch) + 1 : i # 1 => c.chan[i] = ch[i - 1]
  <2> DEFINE k == <<p>> \o ch
  <2>1. /\ k \in Seq(Messages(G)) /\ Len(k) = Len(ch) + 1
        /\ Head(k) = p /\ k[1] = p /\ k # << >>
        /\ \A i \in 1..Len(ch) + 1 : i # 1 => k[i] = ch[i - 1]
    BY <1>1, <1>2, ChanCons
  <2>2. c.chan = k
    BY <1>3
  <2> HIDE DEF k
  <2> QED BY <2>1, <2>2
<1>5. c \in Connection(G)
  <2> DEFINE k == c.chan
             t == (a.limit = NoLimit)
  <2>1. c = [link |-> "wait", attached |-> t, chan |-> k]
    BY <1>3 DEF p, ch
  <2>2. t \in BOOLEAN /\ k \in Seq(Messages(G))
    BY <1>4
  <2> HIDE DEF k, t
  <2> QED BY <2>1, <2>2, WaitingIs
<1>6. Len(ch) \in Nat
  BY <1>2
<1>7. ASSUME NEW i \in 1..Len(c.chan), i # 1
      PROVE  c.chan[i].type = "cmd" \/ (c.chan[i].type = "eof" /\ ~c.attached)
  <2>1. i - 1 \in 1..Len(ch) /\ c.chan[i] = ch[i - 1]
    BY <1>4, <1>6, <1>7
  <2> QED BY <1>2, <1>3, <2>1
<1>8. ChanOK(c)
  BY <1>1, <1>3, <1>4, <1>7 DEF ChanOK
<1>9. ASSUME c.attached PROVE Answered(p, r, q, mu, Len(c.chan) - 1)
  <2>1. a.limit = NoLimit
    BY <1>3, <1>9
  <2>2. /\ q.offset \in Int /\ q.delta \in Int /\ a.offset \in Int /\ a.reploff \in Int
        /\ r.offset \in Int /\ q.mode \in Modes /\ r.mode \in Modes
    BY ServerTypes DEF Partial
  <2>3. Len(c.chan) - 1 = q.offset + 1 - a.offset
    BY <1>2, <1>4, <1>6, <2>1, <2>2
  <2>4. a.replid = q.replid
    BY <2>1 DEF Partial
  <2>5. CASE a.type = "continue"
    <3> DEFINE o == IF r.mode = "psync" THEN r.offset ELSE a.reploff
    <3>1. q.mode = "psync" /\ a.offset = o + 1
      BY <2>1, <2>5 DEF Partial
    <3>2. q.delta = 0 /\ o \in Int
      BY <2>2, <3>1 DEF StreamOK
    <3>3. (IF p.type = "continue" /\ r.mode = "psync" THEN r.offset ELSE p.reploff) = o
      BY <1>1, <2>5
    <3> HIDE DEF o
    <3>4. o + (q.offset + 1 - a.offset) = MasterReploff(q)
      BY <2>2, <3>1, <3>2 DEF MasterReploff
    <3> QED BY <1>1, <2>3, <2>4, <2>5, <3>1, <3>3, <3>4 DEF Answered
  <2>6. CASE a.type # "continue"
    <3>1. q.mode = "xsync" /\ a.reploff = q.delta + a.offset - 1 /\ a.type = "xcontinue"
      BY <2>1, <2>6 DEF Partial
    <3>2. a.reploff + (q.offset + 1 - a.offset) = MasterReploff(q)
      BY <2>2, <3>1, SMTT(60) DEF MasterReploff
    <3> QED BY <1>1, <2>3, <2>4, <3>1, <3>2 DEF Answered
  <2> QED BY <2>5, <2>6
<1> QED BY <1>3, <1>4, <1>5, <1>8, <1>9 DEF Linked, mu

----------------------------------------------------------------------------
(* Steps that change one server.                                           *)

\* What the invariant says of a server.
LEMMA ServerIs ==
  ASSUME IInv, NEW s \in Servers
  PROVE  /\ srv[s] \in ServerState(given) /\ conn[s] \in Connection(given)
         /\ master[s] \in Servers \cup {None} /\ master[s] # s
         /\ StreamOK(srv[s]) /\ NamesOK(srv[s], s, given, writes, dropped)
         /\ master[s] = None => srv[s].mode = EnabledMode(srv[s]) /\ conn[s] = Closed
         /\ conn[s].link # "down" => master[s] \in Servers
         /\ conn[s].attached => master[s] \in Servers
         /\ Linked(conn[s], srv[s], srv[master[s]], MasterUuid(master[s]))
         /\ given \in SUBSET Gtid /\ ids \in Nat /\ writes \in Nat /\ ids + 1 \in Nat
<1>1. Typed /\ ServerOK(s)
  BY DEF IInv
<1>2. srv[s] \in ServerState(given) /\ conn[s] \in Connection(given)
  BY <1>1 DEF Typed
<1>3. master[s] \in Servers \cup {None}
  BY <1>1 DEF Typed
<1>4. ids \in Nat /\ writes \in Nat /\ given \in SUBSET Gtid
  BY <1>1 DEF Typed
<1> QED BY <1>1, <1>2, <1>3, <1>4, ClosedIs DEF ServerOK

\* The replicas of s once it has closed their connections.
LEMMA KickIs ==
  ASSUME IInv, NEW s \in Servers
  PROVE  /\ Kick(conn, s) \in [Servers -> Connection(given)]
         /\ \A t \in Servers : Kick(conn, s)[t] = IF t \in Slaves(s) THEN Kicked(conn[t])
                                                  ELSE conn[t]
         /\ s \notin Slaves(s) /\ Kick(conn, s)[s] = conn[s]
<1>1. \A t \in Servers : Kick(conn, s)[t] = IF t \in Slaves(s) THEN Kicked(conn[t]) ELSE conn[t]
  BY DEF Kick, Kicked
<1>2. ASSUME NEW t \in Servers PROVE Kick(conn, s)[t] \in Connection(given)
  <2>1. CASE t \in Slaves(s)
    <3>1. /\ conn[t] \in Connection(given) /\ conn[t].attached
          /\ Linked(conn[t], srv[t], srv[master[t]], MasterUuid(master[t]))
      BY <2>1, ServerIs DEF Slaves
    <3>2. Kicked(conn[t]) \in Connection(given)
      BY <3>1, LinkedKicked
    <3> QED BY <1>1, <2>1, <3>2
  <2>2. CASE t \notin Slaves(s)
    BY <1>1, <2>2, ServerIs
  <2> QED BY <2>1, <2>2
<1>3. Kick(conn, s) \in [Servers -> Connection(given)]
  <2>1. Kick(conn, s) = [t \in Servers |-> Kick(conn, s)[t]]
    BY DEF Kick
  <2> QED BY <1>2, <2>1
<1>4. s \notin Slaves(s)
  BY ServerIs DEF Slaves
<1> QED BY <1>1, <1>3, <1>4

\* The server s becomes r, and its replicas do not notice or are disconnected.
Replaces(s, r) ==
    /\ srv' = [srv EXCEPT ![s] = r]
    /\ r \in ServerState(given) /\ StreamOK(r) /\ NamesOK(r, s, given, writes, dropped')
    /\ dropped \subseteq dropped'
    /\ given' = given /\ writes' = writes /\ reused' = reused /\ ids' \in Nat
    /\ master' \in [Servers -> Servers \cup {None}] /\ master'[s] # s
    /\ \A t \in Servers : t # s => master'[t] = master[t]
    /\ conn' \in [Servers -> Connection(given)]
    /\ master'[s] = None => r.mode = EnabledMode(r) /\ conn'[s] = Closed
    /\ master'[s] # None => Linked(conn'[s], r, srv[master'[s]], MasterUuid(master'[s]))
    /\ \A t \in Servers : t # s =>
          \/ /\ conn'[t] = conn[t]
             /\ t \in Slaves(s) => /\ SameStream(srv[s], r)
                                   /\ getMasterUuid(r, master'[s]) = MasterUuid(s)
          \/ conn'[t] = Kicked(conn[t]) /\ t \in Slaves(s)

\* Such a step is right.
LEMMA ReplacesOK ==
  ASSUME IInv, NEW s \in Servers, NEW r, Replaces(s, r)
  PROVE  IInv'
<1>0. /\ srv \in [Servers -> ServerState(given)] /\ srv' = [srv EXCEPT ![s] = r]
      /\ r \in ServerState(given) /\ given' = given /\ writes' = writes
      /\ master' \in [Servers -> Servers \cup {None}] /\ None \notin Servers
  BY ConstantsAssumption DEF IInv, Typed, Replaces
<1>1. srv'[s] = r /\ \A t \in Servers : t # s => srv'[t] = srv[t]
  BY <1>0
<1>2. Typed'
  <2>1. srv' \in [Servers -> ServerState(given)]
    BY <1>0
  <2>2. conn' \in [Servers -> Connection(given)] /\ ids' \in Nat
    BY DEF Replaces
  <2>3. writes \in Nat /\ given \subseteq Gtid
    BY DEF IInv, Typed
  <2> QED BY <1>0, <2>1, <2>2, <2>3 DEF Typed
<1>3. ServerOK(s)'
  <2>1. StreamOK(r) /\ NamesOK(r, s, given, writes, dropped') /\ master'[s] # s
    BY DEF Replaces
  <2>2. Linked(conn'[s], r, srv'[master'[s]],
               getMasterUuid(srv'[master'[s]], master'[master'[s]]))
    <3>1. CASE master'[s] = None
      BY <3>1, ClosedIs DEF Replaces
    <3>2. CASE master'[s] # None
      <4> DEFINE m == master'[s]
      <4>1. m \in Servers /\ m # s
        BY <1>0, <3>2 DEF Replaces
      <4>2. srv'[m] = srv[m] /\ master'[m] = master[m]
        BY <1>1, <4>1 DEF Replaces
      <4>3. Linked(conn'[s], r, srv[m], MasterUuid(m))
        BY <3>2 DEF Replaces
      <4> QED BY <4>2, <4>3 DEF MasterUuid
    <3> QED BY <3>1, <3>2
  <2>3. master'[s] = None => r.mode = EnabledMode(r) /\ conn'[s] = Closed
    BY DEF Replaces
  <2> QED BY <1>0, <1>1, <2>1, <2>2, <2>3 DEF ServerOK, MasterUuid
<1>4. ASSUME NEW t \in Servers, t # s PROVE ServerOK(t)'
  <2>1. /\ srv[t] \in ServerState(given) /\ conn[t] \in Connection(given)
        /\ master[t] \in Servers \cup {None} /\ master[t] # t
        /\ StreamOK(srv[t]) /\ NamesOK(srv[t], t, given, writes, dropped)
        /\ master[t] = None => srv[t].mode = EnabledMode(srv[t]) /\ conn[t] = Closed
        /\ conn[t].attached => master[t] \in Servers
        /\ Linked(conn[t], srv[t], srv[master[t]], MasterUuid(master[t]))
    BY ServerIs
  <2>2. srv'[t] = srv[t] /\ master'[t] = master[t]
    BY <1>1, <1>4 DEF Replaces
  <2>3. NamesOK(srv[t], t, given, writes, dropped')
    <3>1. dropped \subseteq dropped'
      BY DEF Replaces
    <3> QED BY <2>1, <3>1, NamesSame
  <2>4. \/ /\ conn'[t] = conn[t]
           /\ t \in Slaves(s) => SameStream(srv[s], r)
                                 /\ getMasterUuid(r, master'[s]) = MasterUuid(s)
        \/ conn'[t] = Kicked(conn[t]) /\ t \in Slaves(s)
    BY <1>4 DEF Replaces
  <2>5. SameStream(srv[t], srv[t])
    BY DEF SameStream
  <2> DEFINE q == srv'[master[t]]
             mu == getMasterUuid(srv'[master[t]], master'[master[t]])
  <2>6. CASE conn'[t] = Kicked(conn[t]) /\ t \in Slaves(s)
    <3>1. conn[t].attached /\ master[t] = s
      BY <2>6 DEF Slaves
    <3>2. Linked(conn'[t], srv[t], q, mu)
      <4> HIDE DEF q, mu
      <4> QED BY <2>1, <2>6, <3>1, LinkedKicked
    <3>3. master[t] # None
      BY <1>0, <3>1
    <3> QED BY <1>0, <2>1, <2>2, <2>3, <3>2, <3>3 DEF ServerOK, MasterUuid
  <2>7. CASE ~(conn'[t] = Kicked(conn[t]) /\ t \in Slaves(s))
    <3>1. /\ conn'[t] = conn[t]
          /\ t \in Slaves(s) => SameStream(srv[s], r)
                                /\ getMasterUuid(r, master'[s]) = MasterUuid(s)
      BY <2>4, <2>7
    <3>2. conn[t].attached => SameStream(srv[master[t]], q) /\ mu = MasterUuid(master[t])
      <4> SUFFICES ASSUME conn[t].attached
                   PROVE  SameStream(srv[master[t]], q) /\ mu = MasterUuid(master[t])
        OBVIOUS
      <4>1. CASE master[t] = s
        <5>1. t \in Slaves(s)
          BY <4>1 DEF Slaves
        <5> QED BY <1>1, <3>1, <4>1, <5>1 DEF MasterUuid
      <4>2. CASE master[t] # s
        <5>1. srv'[master[t]] = srv[master[t]] /\ master'[master[t]] = master[master[t]]
          BY <1>1, <2>1, <4>2 DEF Replaces
        <5> QED BY <5>1 DEF MasterUuid, SameStream
      <4> QED BY <4>1, <4>2
    <3>3. Linked(conn[t], srv[t], q, mu)
      <4> HIDE DEF q, mu
      <4> QED BY <2>1, <2>5, <3>2, LinkedKept
    <3> QED BY <1>0, <2>1, <2>2, <2>3, <3>1, <3>3 DEF ServerOK, MasterUuid
  <2> QED BY <2>6, <2>7
<1>5. GtidNamesOneWrite'
  BY DEF IInv, GtidNamesOneWrite, Replaces
<1> QED BY <1>2, <1>3, <1>4, <1>5 DEF IInv

\* A server with another flag.
Flags(r, b) == {[r EXCEPT !.enabled = b], [r EXCEPT !.wrong = b],
                [r EXCEPT !.wrong = FALSE, !.force = TRUE]}

\* A flag of a server tells the stream nothing.
LEMMA FlagIs ==
  ASSUME NEW G, NEW r \in ServerState(G), StreamOK(r), NEW s, NEW w, NEW D,
         NamesOK(r, s, G, w, D), NEW b \in BOOLEAN,
         NEW q \in Flags(r, b)
  PROVE  /\ q \in ServerState(G) /\ StreamOK(q) /\ NamesOK(q, s, G, w, D) /\ SameStream(r, q)
         /\ q.stale = r.stale /\ q.muuid = r.muuid /\ q.uuid = r.uuid /\ q.backlog = r.backlog
         /\ q.mode = r.mode /\ q.prev = r.prev
<1>1. /\ q \in ServerState(G) /\ q.mode = r.mode /\ q.from = r.from /\ q.prev = r.prev
      /\ q.replid = r.replid /\ q.offset = r.offset /\ q.delta = r.delta
      /\ q.stale = r.stale /\ q.muuid = r.muuid /\ q.uuid = r.uuid
      /\ q.executed = r.executed /\ q.backlog = r.backlog
      /\ q.boff = r.boff /\ q.items = r.items /\ q.idx = r.idx
  <2>1. CASE q = [r EXCEPT !.enabled = b]
    BY <2>1 DEF ServerState
  <2>2. CASE q = [r EXCEPT !.wrong = b]
    BY <2>2 DEF ServerState
  <2>3. CASE q = [r EXCEPT !.wrong = FALSE, !.force = TRUE]
    BY <2>3 DEF ServerState
  <2> QED BY <2>1, <2>2, <2>3 DEF Flags
<1>2. StreamOK(q)
  BY <1>1 DEF StreamOK, BacklogOK
<1>3. NamesOK(q, s, G, w, D)
  BY <1>1, NamesSame
<1>4. SameStream(r, q)
  BY <1>1 DEF SameStream
<1> QED BY <1>1, <1>2, <1>3, <1>4

\* Nobody notices if the uuid a server has got is its master's still.
LEMMA SameMasterUuid ==
  ASSUME NEW s, NEW r, r.uuid = srv[s].uuid, r.muuid = srv[s].muuid
  PROVE  getMasterUuid(r, master[s]) = MasterUuid(s)
BY DEF MasterUuid, getMasterUuid

\* A change of a flag of s, with its connection as it was or closed.
LEMMA FlagStep ==
  ASSUME IInv, NEW s \in Servers, NEW b \in BOOLEAN,
         NEW r \in Flags(srv[s], b),
         srv' = [srv EXCEPT ![s] = r], master[s] = None => r.enabled = srv[s].enabled,
         conn' = conn \/ conn' = [conn EXCEPT ![s] = Closed],
         UNCHANGED <<master, ids, writes, given, reused, dropped>>
  PROVE  IInv'
<1>1. /\ srv[s] \in ServerState(given) /\ conn[s] \in Connection(given) /\ StreamOK(srv[s])
      /\ NamesOK(srv[s], s, given, writes, dropped) /\ master[s] # s
      /\ master[s] = None => srv[s].mode = EnabledMode(srv[s]) /\ conn[s] = Closed
      /\ Linked(conn[s], srv[s], srv[master[s]], MasterUuid(master[s]))
      /\ ids' \in Nat
  BY ServerIs
<1>2. /\ r \in ServerState(given) /\ StreamOK(r) /\ NamesOK(r, s, given, writes, dropped)
      /\ SameStream(srv[s], r) /\ r.stale = srv[s].stale /\ r.muuid = srv[s].muuid
      /\ r.uuid = srv[s].uuid /\ r.mode = srv[s].mode
  BY <1>1, FlagIs
<1>3. getMasterUuid(r, master[s]) = MasterUuid(s)
  BY <1>2, SameMasterUuid
<1>4. master[s] = None => r.mode = EnabledMode(r)
  BY <1>1, <1>2 DEF EnabledMode
<1>5. /\ conn' \in [Servers -> Connection(given)] /\ conn'[s] \in {conn[s], Closed}
      /\ \A t \in Servers : t # s => conn'[t] = conn[t]
  BY ClosedIs DEF IInv, Typed
<1>6. Linked(conn'[s], r, srv[master[s]], MasterUuid(master[s]))
  <2>1. CASE conn'[s] = Closed
    BY <2>1, ClosedIs
  <2>2. CASE conn'[s] = conn[s]
    <3> DEFINE q == srv[master[s]]
               mu == MasterUuid(master[s])
    <3>1. SameStream(q, q)
      BY DEF SameStream
    <3>2. Linked(conn[s], srv[s], q, mu)
      BY <1>1
    <3> HIDE DEF q, mu
    <3>3. Linked(conn[s], r, q, mu)
      BY <1>2, <3>1, <3>2, LinkedKept
    <3> QED BY <2>2, <3>3 DEF q, mu
  <2> QED BY <1>5, <2>1, <2>2
<1>7. master' \in [Servers -> Servers \cup {None}]
  BY DEF IInv, Typed
<1>8. Replaces(s, r)
  BY <1>1, <1>2, <1>3, <1>4, <1>5, <1>6, <1>7 DEF Replaces
<1> QED BY <1>8, ReplacesOK

\* CONFIG SET gtid-enabled.
LEMMA SetEnabledStep ==
  ASSUME IInv, NEW s \in Servers, SetEnabled(s)
  PROVE  IInv'
<1> DEFINE r == [srv[s] EXCEPT !.enabled = ~@]
           q == serverReplStreamSwitchIfNeeded(r, ids + 1)
<1>1. /\ srv[s] \in ServerState(given) /\ StreamOK(srv[s]) /\ master[s] # s
      /\ NamesOK(srv[s], s, given, writes, dropped)
      /\ master[s] = None => conn[s] = Closed
      /\ given \in SUBSET Gtid /\ ids + 1 \in Nat
  BY ServerIs
<1>2. /\ r \in {[srv[s] EXCEPT !.enabled = b] : b \in BOOLEAN}
  BY <1>1, ServerTypes
<1>3. PICK b \in BOOLEAN : r = [srv[s] EXCEPT !.enabled = b]
  BY <1>2
<1> HIDE DEF r
<1>4. CASE master[s] = None
  <2>1. r \in ServerState(given) /\ StreamOK(r) /\ NamesOK(r, s, given, writes, dropped)
    BY <1>1, <1>3, FlagIs DEF Flags
  <2>2. /\ q \in ServerState(given) /\ StreamOK(q) /\ NamesOK(q, s, given, writes, dropped)
        /\ q.mode = EnabledMode(q)
    BY <1>1, <2>1, SwitchIfNeededIs
  <2>3. /\ srv' = [srv EXCEPT ![s] = q] /\ conn' = Kick(conn, s) /\ ids' = ids + 1
        /\ UNCHANGED <<master, writes, given, reused, dropped>>
    BY <1>4 DEF SetEnabled, history, r
  <2> HIDE DEF q
  <2>4. /\ conn' \in [Servers -> Connection(given)] /\ conn'[s] = Closed
        /\ \A t \in Servers : \/ conn'[t] = conn[t] /\ t \notin Slaves(s)
                              \/ conn'[t] = Kicked(conn[t]) /\ t \in Slaves(s)
    BY <1>1, <1>4, <2>3, KickIs
  <2>5. master' \in [Servers -> Servers \cup {None}]
    BY <2>3 DEF IInv, Typed
  <2>6. Replaces(s, q)
    BY <1>1, <1>4, <2>2, <2>3, <2>4, <2>5 DEF Replaces
  <2> QED BY <2>6, ReplacesOK
<1>5. CASE master[s] # None
  <2>1. srv' = [srv EXCEPT ![s] = r] /\ conn' = conn
        /\ UNCHANGED <<master, ids, writes, given, reused, dropped>>
    BY <1>5 DEF SetEnabled, history, r
  <2> QED BY <1>3, <1>5, <2>1, FlagStep DEF Flags
<1> QED BY <1>4, <1>5

\* REPLICAOF NO ONE.
LEMMA PromoteStep ==
  ASSUME IInv, NEW s \in Servers, Promote(s)
  PROVE  IInv'
<1> DEFINE r == srv[s]
           q == IF r.mode = EnabledMode(r) THEN shiftReplicationId(r, ids + 1)
                ELSE serverReplStreamSwitchIfNeeded(r, ids + 1)
<1>1. /\ srv[s] \in ServerState(given) /\ StreamOK(srv[s]) /\ master[s] # s
      /\ NamesOK(srv[s], s, given, writes, dropped)
      /\ given \in SUBSET Gtid /\ ids + 1 \in Nat
  BY ServerIs
<1>2. /\ q \in ServerState(given) /\ StreamOK(q) /\ NamesOK(q, s, given, writes, dropped)
      /\ q.mode = EnabledMode(q)
  <2>1. CASE r.mode = EnabledMode(r)
    <3>1. q = shiftReplicationId(r, ids + 1)
      BY <2>1
    <3> HIDE DEF q, r
    <3>2. r \in ServerState(given) /\ StreamOK(r) /\ NamesOK(r, s, given, writes, dropped)
      BY <1>1 DEF r
    <3>3. /\ q \in ServerState(given) /\ StreamOK(q) /\ q.mode = r.mode /\ q.prev = r.prev
          /\ q.uuid = r.uuid /\ q.executed = r.executed /\ q.enabled = r.enabled
      BY <1>1, <3>1, <3>2, ShiftReplIdIs
    <3>4. NamesOK(q, s, given, writes, dropped)
      BY <3>2, <3>3, NamesSame
    <3> QED BY <2>1, <3>3, <3>4 DEF EnabledMode
  <2>2. CASE r.mode # EnabledMode(r)
    <3>1. q = serverReplStreamSwitchIfNeeded(r, ids + 1)
      BY <2>2
    <3> HIDE DEF q
    <3> QED BY <1>1, <3>1, SwitchIfNeededIs
  <2> QED BY <2>1, <2>2
<1>3. /\ srv' = [srv EXCEPT ![s] = q] /\ conn' = [Kick(conn, s) EXCEPT ![s] = Closed]
      /\ ids' = ids + 1 /\ master' = [master EXCEPT ![s] = None]
      /\ UNCHANGED <<writes, given, reused, dropped>>
  BY DEF Promote, history
<1> HIDE DEF q
<1>4. master \in [Servers -> Servers \cup {None}] /\ None \notin Servers
  BY ConstantsAssumption DEF IInv, Typed
<1>5. /\ master' \in [Servers -> Servers \cup {None}] /\ master'[s] = None /\ master'[s] # s
      /\ \A t \in Servers : t # s => master'[t] = master[t]
  BY <1>3, <1>4
<1>6. /\ conn' \in [Servers -> Connection(given)] /\ conn'[s] = Closed
      /\ \A t \in Servers : t # s => \/ conn'[t] = conn[t] /\ t \notin Slaves(s)
                                     \/ conn'[t] = Kicked(conn[t]) /\ t \in Slaves(s)
  BY <1>3, KickIs, ClosedIs
<1>7. Replaces(s, q)
  BY <1>1, <1>2, <1>3, <1>5, <1>6 DEF Replaces
<1> QED BY <1>7, ReplacesOK

\* A server that stays what it is.
LEMMA SameIs ==
  ASSUME IInv, NEW s \in Servers
  PROVE  /\ srv = [srv EXCEPT ![s] = srv[s]] /\ SameStream(srv[s], srv[s])
         /\ getMasterUuid(srv[s], master[s]) = MasterUuid(s)
<1>1. srv \in [Servers -> ServerState(given)]
  BY DEF IInv, Typed
<1> QED BY <1>1 DEF SameStream, MasterUuid

\* REPLICAOF host port.
LEMMA ReplicaOfStep ==
  ASSUME IInv, NEW s \in Servers, NEW m \in Servers, ReplicaOf(s, m)
  PROVE  IInv'
<1>1. /\ srv[s] \in ServerState(given) /\ StreamOK(srv[s])
      /\ NamesOK(srv[s], s, given, writes, dropped) /\ ids \in Nat
  BY ServerIs
<1>2. /\ srv' = srv /\ conn' = [Kick(conn, s) EXCEPT ![s] = Closed] /\ m # s
      /\ ids' = ids /\ master' = [master EXCEPT ![s] = m]
      /\ UNCHANGED <<writes, given, reused, dropped>>
  BY DEF ReplicaOf, history
<1>3. master \in [Servers -> Servers \cup {None}] /\ None \notin Servers
  BY ConstantsAssumption DEF IInv, Typed
<1>4. /\ master' \in [Servers -> Servers \cup {None}] /\ master'[s] = m /\ m # None
      /\ \A t \in Servers : t # s => master'[t] = master[t]
  BY <1>2, <1>3
<1>5. /\ conn' \in [Servers -> Connection(given)] /\ conn'[s] = Closed
      /\ \A t \in Servers : t # s => \/ conn'[t] = conn[t] /\ t \notin Slaves(s)
                                     \/ conn'[t] = Kicked(conn[t]) /\ t \in Slaves(s)
  BY <1>2, KickIs, ClosedIs
<1>6. Linked(conn'[s], srv[s], srv[m], MasterUuid(m))
  BY <1>5, ClosedIs
<1>7. Replaces(s, srv[s])
  BY <1>1, <1>2, <1>4, <1>5, <1>6, SameIs DEF Replaces
<1> QED BY <1>7, ReplacesOK

\* A broken link, or one the master has closed.
LEMMA CloseStep ==
  ASSUME IInv, NEW s \in Servers, BreakLink(s) \/ ReadEof(s)
  PROVE  IInv'
<1>1. /\ srv[s] \in ServerState(given) /\ StreamOK(srv[s]) /\ master[s] # s
      /\ NamesOK(srv[s], s, given, writes, dropped) /\ ids \in Nat
      /\ master[s] = None => srv[s].mode = EnabledMode(srv[s])
  BY ServerIs
<1>2. /\ srv' = srv /\ conn' = [conn EXCEPT ![s] = Closed]
      /\ UNCHANGED <<master, ids, writes, given, reused, dropped>>
  BY DEF BreakLink, ReadEof, history, bounds
<1>3. master \in [Servers -> Servers \cup {None}] /\ conn \in [Servers -> Connection(given)]
  BY DEF IInv, Typed
<1>4. /\ conn' \in [Servers -> Connection(given)] /\ conn'[s] = Closed
      /\ \A t \in Servers : t # s => conn'[t] = conn[t]
  BY <1>2, <1>3, ClosedIs
<1>5. Linked(conn'[s], srv[s], srv[master[s]], MasterUuid(master[s]))
  BY <1>4, ClosedIs
<1>6. Replaces(s, srv[s])
  BY <1>1, <1>2, <1>3, <1>4, <1>5, SameIs DEF Replaces
<1> QED BY <1>6, ReplacesOK

\* A master frees its backlog.
LEMMA DropBacklogStep ==
  ASSUME IInv, NEW s \in Servers, DropBacklog(s)
  PROVE  IInv'
<1> DEFINE a == SetReplId(srv[s], ids + 1)
           r == [a EXCEPT !.backlog = FALSE, !.items = <<>>, !.idx = {}]
<1>1. /\ srv[s] \in ServerState(given) /\ StreamOK(srv[s]) /\ master[s] # s
      /\ NamesOK(srv[s], s, given, writes, dropped) /\ ids + 1 \in Nat
      /\ master[s] = None => srv[s].mode = EnabledMode(srv[s]) /\ conn[s] = Closed
  BY ServerIs
<1>2. /\ srv' = [srv EXCEPT ![s] = r] /\ master[s] = None /\ Slaves(s) = {} /\ ids' = ids + 1
      /\ UNCHANGED <<master, conn, writes, given, reused, dropped>>
  BY DEF DropBacklog, history
<1>3. /\ a \in ServerState(given) /\ a.mode = srv[s].mode /\ a.from = srv[s].from
      /\ a.prev = srv[s].prev /\ a.offset = srv[s].offset /\ a.delta = srv[s].delta
      /\ a.uuid = srv[s].uuid /\ a.executed = srv[s].executed /\ a.enabled = srv[s].enabled
  BY <1>1, SetReplIdIs
<1> HIDE DEF a
<1>4. << >> \in Seq(ItemsOf(given)) /\ {} \in SUBSET Entries
  OBVIOUS
<1>5. /\ r \in ServerState(given) /\ r.mode = a.mode /\ r.from = a.from
      /\ r.prev = a.prev /\ r.offset = a.offset /\ r.delta = a.delta
      /\ r.uuid = a.uuid /\ r.executed = a.executed /\ r.enabled = a.enabled
      /\ ~r.backlog /\ r.items = << >> /\ r.idx = {}
  BY <1>3, <1>4 DEF ServerState
<1> HIDE DEF r
<1>6. StreamOK(r)
  <2>1. BacklogOK(r)
    BY <1>5, EmptyBacklog
  <2> QED BY <1>1, <1>3, <1>5, <2>1 DEF StreamOK
<1>7. NamesOK(r, s, given, writes, dropped)
  BY <1>1, <1>3, <1>5, NamesSame
<1>8. master \in [Servers -> Servers \cup {None}] /\ conn \in [Servers -> Connection(given)]
  BY DEF IInv, Typed
<1>9. r.mode = EnabledMode(r)
  BY <1>1, <1>2, <1>3, <1>5 DEF EnabledMode
<1>10. Replaces(s, r)
  BY <1>1, <1>2, <1>5, <1>6, <1>7, <1>8, <1>9 DEF Replaces
<1> QED BY <1>10, ReplacesOK

\* A wrong type, and the cron that asks for a full resync.
LEMMA WrongTypeStep ==
  ASSUME IInv, NEW s \in Servers, WrongType(s) \/ forceXsyncFullResyncIfNeeded(s)
  PROVE  IInv'
<1>0. srv \in [Servers -> ServerState(given)]
  BY DEF IInv, Typed
<1>1. CASE WrongType(s)
  <2> DEFINE r == [srv[s] EXCEPT !.wrong = TRUE]
  <2>1. srv' = [srv EXCEPT ![s] = r] /\ conn' = conn
        /\ UNCHANGED <<master, ids, writes, given, reused, dropped>>
    BY <1>0, <1>1 DEF WrongType, history
  <2>2. r.enabled = srv[s].enabled
    BY <1>0 DEF ServerState
  <2> QED BY <2>1, <2>2, FlagStep DEF Flags
<1>2. CASE forceXsyncFullResyncIfNeeded(s)
  <2> DEFINE r == [srv[s] EXCEPT !.wrong = FALSE, !.force = TRUE]
  <2>1. srv' = [srv EXCEPT ![s] = r]
        /\ (conn' = conn \/ conn' = [conn EXCEPT ![s] = Closed])
        /\ UNCHANGED <<master, ids, writes, given, reused, dropped>>
    BY <1>0, <1>2 DEF forceXsyncFullResyncIfNeeded, history, bounds
  <2>2. r.enabled = srv[s].enabled
    BY <1>0 DEF ServerState
  <2> QED BY <2>1, <2>2, FlagStep DEF Flags
<1> QED BY <1>1, <1>2

----------------------------------------------------------------------------
(* Answers.                                                                *)

Answer == {"continue", "xcontinue", "fullresync", "xfullresync"}

\* What s has to read, and how much after it.
Message(s) == Head(conn[s].chan)
After(s) == Len(conn[s].chan) - 1

\* The answer s reads, if its master has got it still.
AnsweredTo(s) == Answered(Message(s), srv[s], srv[master[s]], MasterUuid(master[s]), After(s))

\* The server r follows the master of s.
Follows(s, r) == Following(r, srv[master[s]], MasterUuid(master[s]), After(s))

\* A backlog makes no difference to who is followed.
LEMMA FollowingSame ==
  ASSUME NEW r, NEW r2, NEW q, NEW mu, NEW n, Following(r, q, mu, n),
         SameStream(r, r2), r2.stale = r.stale, r2.muuid = r.muuid
  PROVE  Following(r2, q, mu, n)
BY DEF Following, SameStream, MasterReploff

\* A replica that reads an answer and becomes r: it disconnects its own
\* replicas unless it is what it was.
LEMMA ReadStep ==
  ASSUME IInv, NEW s \in Servers, NEW r \in ServerState(given), StreamOK(r),
         NamesOK(r, s, given, writes, dropped'), dropped \subseteq dropped',
         NEW kick \in BOOLEAN, kick \/ r = srv[s],
         conn[s].chan # << >>, Message(s).type \in Answer,
         Become(s, r), Read(s, kick), AnsweredTo(s) => Follows(s, r),
         UNCHANGED <<master, ids, writes, given, reused>>
  PROVE  IInv'
<1> DEFINE r2 == CreateBacklog(r)
           c == conn[s]
           d == [c EXCEPT !.link = "up", !.chan = Tail(@)]
           q == srv[master[s]]
           mu == MasterUuid(master[s])
<1>1. /\ srv[s] \in ServerState(given) /\ c \in Connection(given) /\ master[s] # s
      /\ c.link # "down" => master[s] \in Servers
      /\ Linked(c, srv[s], q, mu) /\ ids \in Nat
  BY ServerIs
<1>2. c.link = "wait" /\ master[s] \in Servers
  <2>1. ChanOK(c)
    BY <1>1 DEF Linked
  <2>2. c.link = "wait"
    <3> HIDE DEF c
    <3>1. c.chan # << >> /\ Head(c.chan).type \in Answer
      BY DEF c, Message
    <3> QED BY <1>1, <2>1, <3>1, WhoReads DEF Answer
  <2> QED BY <1>1, <2>2
<1>3. /\ r2 \in ServerState(given) /\ r2.backlog /\ StreamOK(r2)
      /\ r2.uuid = r.uuid /\ r2.executed = r.executed /\ r2.mode = r.mode /\ r2.prev = r.prev
      /\ SameStream(r, r2) /\ r2.stale = r.stale /\ r2.muuid = r.muuid
      /\ r.backlog => r2 = r
  BY CreateBacklogIs, CreateBacklogOK DEF SameStream
<1>4. NamesOK(r2, s, given, writes, dropped')
  <2> HIDE DEF r2
  <2> QED BY <1>3, NamesSame
<1>5. d \in Connection(given) /\ Linked(d, r2, q, mu)
  <2>1. Answered(Head(c.chan), srv[s], q, mu, Len(c.chan) - 1)
          => Following(r2, q, mu, Len(c.chan) - 1)
    <3> SUFFICES ASSUME Answered(Head(c.chan), srv[s], q, mu, Len(c.chan) - 1)
                 PROVE  Following(r2, q, mu, Len(c.chan) - 1)
      OBVIOUS
    <3>1. Following(r, q, mu, After(s))
      BY DEF AnsweredTo, Follows, Message, After
    <3>2. Following(r2, q, mu, After(s))
      <4> HIDE DEF r2, q, mu
      <4> QED BY <1>3, <3>1, FollowingSame
    <3> QED BY <3>2 DEF After
  <2>2. c.chan # << >> /\ Head(c.chan).type \in Answer
    BY DEF Message
  <2> HIDE DEF c, q, mu, r2
  <2> QED BY <1>1, <1>3, <2>1, <2>2, LinkedRead DEF Answer
<1>6. srv' = [srv EXCEPT ![s] = r2]
  BY DEF Become
<1>7. /\ conn \in [Servers -> Connection(given)] /\ master \in [Servers -> Servers \cup {None}]
      /\ None \notin Servers
  BY ConstantsAssumption DEF IInv, Typed
<1>8. /\ conn' \in [Servers -> Connection(given)] /\ conn'[s] = d
      /\ \A t \in Servers : t # s => conn'[t] = IF kick THEN Kick(conn, s)[t] ELSE conn[t]
  <2> DEFINE k == IF kick THEN Kick(conn, s) ELSE conn
  <2>1. k \in [Servers -> Connection(given)] /\ k[s] = c
    BY <1>7, KickIs
  <2>2. conn' = [k EXCEPT ![s].link = "up", ![s].chan = Tail(@)]
    BY DEF Read
  <2>3. \A t \in Servers : k[t] = IF kick THEN Kick(conn, s)[t] ELSE conn[t]
    OBVIOUS
  <2> HIDE DEF k
  <2>4. conn' = [k EXCEPT ![s] = [k[s] EXCEPT !.link = "up", !.chan = Tail(@)]]
    BY <2>1, <2>2 DEF Connection
  <2>5. conn' = [k EXCEPT ![s] = d]
    BY <2>1, <2>4
  <2> HIDE DEF d
  <2> QED BY <1>5, <2>1, <2>3, <2>5
<1>9. ASSUME NEW t \in Servers, t # s
      PROVE  \/ /\ conn'[t] = conn[t]
                /\ t \in Slaves(s) => /\ SameStream(srv[s], r2)
                                      /\ getMasterUuid(r2, master'[s]) = MasterUuid(s)
             \/ conn'[t] = Kicked(conn[t]) /\ t \in Slaves(s)
  <2>1. CASE kick
    BY <1>8, <1>9, <2>1, KickIs
  <2>2. CASE ~kick
    <3>1. conn'[t] = conn[t] /\ r = srv[s]
      BY <1>8, <1>9, <2>2
    <3>2. ASSUME t \in Slaves(s)
          PROVE  /\ SameStream(srv[s], r2)
                 /\ getMasterUuid(r2, master'[s]) = MasterUuid(s)
      <4>1. srv[s].backlog
        <5>1. /\ conn[t].attached /\ master[t] = s
              /\ Linked(conn[t], srv[t], srv[master[t]], MasterUuid(master[t]))
          BY <3>2, ServerIs DEF Slaves
        <5> QED BY <5>1 DEF Linked
      <4>2. r2 = srv[s]
        BY <1>3, <3>1, <4>1
      <4> HIDE DEF r2
      <4> QED BY <4>2, SameIs
    <3> QED BY <3>1, <3>2
  <2> QED BY <2>1, <2>2
<1>10. Replaces(s, r2)
  <2> HIDE DEF r2, d
  <2> QED BY <1>1, <1>2, <1>3, <1>4, <1>5, <1>6, <1>7, <1>8, <1>9 DEF Replaces
<1> QED BY <1>10, ReplacesOK

\* What an answer carries.
LEMMA AnswerTypes ==
  ASSUME IInv, NEW s \in Servers, conn[s].chan # << >>
  PROVE  /\ Message(s) \in Messages(given) /\ After(s) \in Int
         /\ Message(s).type \in Answer => Message(s).replid \in Nat /\ Message(s).reploff \in Int
         /\ Message(s).type \in {"xcontinue", "xfullresync"} => Message(s).muuid \in MasterUid
         /\ Message(s).type = "xcontinue" => Message(s).cont \in SUBSET given
         /\ Message(s).type = "xfullresync" => Message(s).executed \in SUBSET given
         /\ Message(s).type \in {"fullresync", "xfullresync"} => Message(s).data \in Seq(Nat)
<1>1. conn[s] \in Connection(given)
  BY ServerIs
<1>2. Message(s) \in Messages(given) /\ Len(conn[s].chan) \in Nat
  BY <1>1, ChanTail, ConnectionTypes DEF Message
<1>3. After(s) \in Int
  BY <1>2 DEF After
<1> QED BY <1>2, <1>3, MessageTypes DEF Answer

\* PSYNC => CONTINUE.
LEMMA ReadContinuePsyncStep ==
  ASSUME IInv, NEW s \in Servers, ReadContinuePsync(s)
  PROVE  IInv'
<1> DEFINE o == srv[s]
           id == Message(s).replid
           b == [o EXCEPT !.replid = id, !.replid2 = o.replid, !.off2 = o.offset + 1]
           r == IF id = o.replid THEN o ELSE b
           kick == (id # o.replid)
<1>1. /\ conn[s].chan # << >> /\ Message(s).type = "continue" /\ o.mode = "psync"
      /\ Become(s, r) /\ Read(s, kick)
      /\ UNCHANGED <<master, ids, writes, given, reused, dropped>>
  BY DEF ReadContinuePsync, Reads, Message, bounds, history
<1>2. /\ o \in ServerState(given) /\ StreamOK(o) /\ NamesOK(o, s, given, writes, dropped)
  BY ServerIs
<1>3. id \in Nat /\ Message(s).type \in Answer /\ kick \in BOOLEAN
  BY <1>1, AnswerTypes DEF Answer
<1>4. /\ r \in ServerState(given) /\ StreamOK(r) /\ NamesOK(r, s, given, writes, dropped)
      /\ r.replid = id /\ r.mode = "psync" /\ r.offset = o.offset /\ r.delta = o.delta
  <2>1. CASE id = o.replid
    BY <1>1, <1>2, <2>1
  <2>2. CASE id # o.replid
    <3>0. r = b
      BY <2>2
    <3> HIDE DEF id, o
    <3>1. o.offset + 1 \in Int /\ o.replid \in Nat
      BY <1>2, ServerTypes
    <3>2. /\ b \in ServerState(given) /\ b.mode = o.mode /\ b.from = o.from /\ b.prev = o.prev
          /\ b.replid = id /\ b.offset = o.offset /\ b.delta = o.delta
          /\ b.uuid = o.uuid /\ b.executed = o.executed /\ b.backlog = o.backlog
          /\ b.boff = o.boff /\ b.items = o.items /\ b.idx = o.idx
      BY <1>2, <1>3, <3>1 DEF ServerState
    <3> HIDE DEF b, r
    <3>3. StreamOK(b)
      BY <1>2, <3>2 DEF StreamOK, BacklogOK
    <3>4. NamesOK(b, s, given, writes, dropped)
      BY <1>2, <3>2, NamesSame
    <3> QED BY <1>1, <3>0, <3>2, <3>3, <3>4
  <2> QED BY <2>1, <2>2
<1>5. kick \/ r = srv[s]
  OBVIOUS
<1>6. ASSUME AnsweredTo(s) PROVE Follows(s, r)
  <2>1. /\ id = srv[master[s]].replid /\ srv[master[s]].mode = "psync"
        /\ o.offset + After(s) = MasterReploff(srv[master[s]])
    BY <1>1, <1>6 DEF AnsweredTo, Answered
  <2>2. o.delta = 0 /\ o.offset \in Int /\ After(s) \in Int
    BY <1>1, <1>2, AnswerTypes, ServerTypes DEF StreamOK
  <2>3. MasterReploff(r) + After(s) = MasterReploff(srv[master[s]])
    <3>1. MasterReploff(r) = o.offset
      BY <1>4, <2>2 DEF MasterReploff
    <3> QED BY <2>1, <3>1
  <2> HIDE DEF r, id
  <2> QED BY <1>4, <2>1, <2>3 DEF Follows, Following
<1> HIDE DEF r, kick
<1> QED BY <1>1, <1>3, <1>4, <1>5, <1>6, ReadStep

\* XSYNC => CONTINUE.
LEMMA ReadContinueXsyncStep ==
  ASSUME IInv, NEW s \in Servers, ReadContinueXsync(s)
  PROVE  IInv'
<1> DEFINE o == srv[s]
           msg == Message(s)
           r == serverReplStreamSwitch2Psync(o, msg.replid, msg.reploff)
<1>1. /\ conn[s].chan # << >> /\ msg.type = "continue" /\ o.mode = "xsync"
      /\ Become(s, r) /\ Read(s, TRUE)
      /\ UNCHANGED <<master, ids, writes, given, reused, dropped>>
  BY DEF ReadContinueXsync, Reads, Message, bounds, history
<1>2. /\ o \in ServerState(given) /\ StreamOK(o) /\ NamesOK(o, s, given, writes, dropped)
  BY ServerIs
<1>3. msg.replid \in Nat /\ msg.reploff \in Int /\ msg.type \in Answer
  BY <1>1, AnswerTypes DEF Answer
<1>4. /\ r \in ServerState(given) /\ StreamOK(r) /\ r.mode = "psync" /\ r.prev.mode = "xsync"
      /\ r.replid = msg.replid /\ r.offset = msg.reploff /\ r.delta = 0
      /\ r.uuid = o.uuid /\ r.executed = o.executed
  <2> DEFINE id == msg.replid
             reploff == msg.reploff
  <2>1. id \in Nat /\ reploff \in Int
    BY <1>3
  <2>2. r = serverReplStreamSwitch2Psync(o, id, reploff)
    OBVIOUS
  <2> HIDE DEF msg, o, id, reploff, r
  <2>3. /\ r \in ServerState(given) /\ StreamOK(r) /\ r.mode = "psync" /\ r.prev.mode = o.mode
        /\ r.replid = id /\ r.offset = reploff /\ r.delta = 0
        /\ r.uuid = o.uuid /\ r.executed = o.executed
    <3>1. o \in ServerState(given) /\ StreamOK(o)
      BY <1>2
    <3>2. LET q == serverReplStreamSwitch2Psync(o, id, reploff)
          IN  /\ q \in ServerState(given)
              /\ q.mode = "psync" /\ q.prev.mode = o.mode /\ q.replid = id
              /\ q.offset = reploff /\ q.delta = 0 /\ q.uuid = o.uuid
              /\ q.executed = o.executed /\ q.enabled = o.enabled /\ q.backlog = o.backlog
              /\ StreamOK(q)
      BY <2>1, <3>1, Switch2PsyncIs, Zenon
    <3> QED BY <2>2, <3>2
  <2> QED BY <1>1, <2>3 DEF id, reploff
<1> HIDE DEF r
<1>5. NamesOK(r, s, given, writes, dropped)
  BY <1>2, <1>4, NamesToPsync
<1>6. ASSUME AnsweredTo(s) PROVE Follows(s, r)
  <2>1. /\ msg.replid = srv[master[s]].replid /\ srv[master[s]].mode = "psync"
        /\ msg.reploff + After(s) = MasterReploff(srv[master[s]])
    BY <1>1, <1>6 DEF AnsweredTo, Answered
  <2>2. MasterReploff(r) = msg.reploff
    BY <1>3, <1>4 DEF MasterReploff
  <2> HIDE DEF msg
  <2> QED BY <1>4, <2>1, <2>2 DEF Follows, Following
<1> QED BY <1>1, <1>3, <1>4, <1>5, <1>6, ReadStep

\* PSYNC => XCONTINUE.
LEMMA ReadXcontinuePsyncStep ==
  ASSUME IInv, NEW s \in Servers, ReadXcontinuePsync(s)
  PROVE  IInv'
<1> DEFINE o == srv[s]
           msg == Message(s)
           r == serverReplStreamSwitch2Xsync(o, msg.replid, msg.reploff, msg.muuid, msg.cont)
<1>1. /\ conn[s].chan # << >> /\ msg.type = "xcontinue" /\ o.mode = "psync"
      /\ Become(s, r) /\ Read(s, TRUE) /\ dropped' = dropped \cup {o.uuid}
      /\ UNCHANGED <<master, ids, writes, given, reused>>
  BY DEF ReadXcontinuePsync, Reads, Message, bounds, history
<1>2. /\ o \in ServerState(given) /\ StreamOK(o) /\ NamesOK(o, s, given, writes, dropped)
  BY ServerIs
<1>3. /\ msg.replid \in Nat /\ msg.reploff \in Int /\ msg.type \in Answer
      /\ msg.muuid \in MasterUid /\ msg.cont \in SUBSET given
  BY <1>1, AnswerTypes DEF Answer
<1>4. /\ r \in ServerState(given) /\ StreamOK(r) /\ r.mode = "xsync" /\ r.replid = msg.replid
      /\ r.offset = o.offset /\ r.delta = msg.reploff - o.offset /\ r.muuid = msg.muuid
      /\ r.uuid = o.uuid
  <2> HIDE DEF msg, o
  <2> QED BY <1>2, <1>3, Switch2XsyncIs
<1> HIDE DEF r
<1>5. NamesOK(r, s, given, writes, dropped')
  <2>1. NamesOK(r, s, given, writes, dropped \cup {o.uuid})
    BY <1>2, <1>4, NamesDropped
  <2> QED BY <1>1, <2>1
<1>6. ASSUME AnsweredTo(s) PROVE Follows(s, r)
  <2>1. /\ msg.replid = srv[master[s]].replid /\ srv[master[s]].mode = "xsync"
        /\ msg.muuid = MasterUuid(master[s])
        /\ msg.reploff + After(s) = MasterReploff(srv[master[s]])
    BY <1>1, <1>6 DEF AnsweredTo, Answered
  <2>2. MasterReploff(r) = msg.reploff
    <3>1. o.offset \in Int
      BY <1>2, ServerTypes
    <3> QED BY <1>3, <1>4, <3>1 DEF MasterReploff
  <2> HIDE DEF msg
  <2> QED BY <1>4, <2>1, <2>2 DEF Follows, Following
<1>7. dropped \subseteq dropped'
  BY <1>1
<1> QED BY <1>1, <1>3, <1>4, <1>5, <1>6, <1>7, ReadStep

\* XSYNC => XCONTINUE.
LEMMA ReadXcontinueXsyncStep ==
  ASSUME IInv, NEW s \in Servers, ReadXcontinueXsync(s)
  PROVE  IInv'
<1> DEFINE o == srv[s]
           msg == Message(s)
           r == Updated(o, msg)
           kick == (r # o)
<1>1. /\ conn[s].chan # << >> /\ msg.type = "xcontinue" /\ o.mode = "xsync"
      /\ Become(s, r) /\ Read(s, kick)
      /\ UNCHANGED <<master, ids, writes, given, reused, dropped>>
  BY DEF ReadXcontinueXsync, Reads, Message, bounds, history
<1>2. /\ o \in ServerState(given) /\ StreamOK(o) /\ NamesOK(o, s, given, writes, dropped)
  BY ServerIs
<1>3. /\ msg.replid \in Nat /\ msg.reploff \in Int /\ msg.type \in Answer
      /\ msg.muuid \in MasterUid /\ kick \in BOOLEAN
  BY <1>1, AnswerTypes DEF Answer
<1>4. /\ r \in ServerState(given) /\ StreamOK(r) /\ r.mode = "xsync" /\ r.prev = o.prev
      /\ r.replid = msg.replid
      /\ r.offset = o.offset /\ r.delta = msg.reploff - o.offset /\ r.muuid = msg.muuid
      /\ r.uuid = o.uuid /\ r.executed = o.executed
  <2> HIDE DEF msg, o
  <2> QED BY <1>1, <1>2, <1>3, UpdatedIs
<1>5. kick \/ r = srv[s]
  OBVIOUS
<1> HIDE DEF r, kick
<1>6. NamesOK(r, s, given, writes, dropped)
  BY <1>1, <1>2, <1>4, NamesSame
<1>7. ASSUME AnsweredTo(s) PROVE Follows(s, r)
  <2>1. /\ msg.replid = srv[master[s]].replid /\ srv[master[s]].mode = "xsync"
        /\ msg.muuid = MasterUuid(master[s])
        /\ msg.reploff + After(s) = MasterReploff(srv[master[s]])
    BY <1>1, <1>7 DEF AnsweredTo, Answered
  <2>2. MasterReploff(r) = msg.reploff
    <3>1. o.offset \in Int
      BY <1>2, ServerTypes
    <3> QED BY <1>3, <1>4, <3>1 DEF MasterReploff
  <2> HIDE DEF msg
  <2> QED BY <1>4, <2>1, <2>2 DEF Follows, Following
<1> QED BY <1>1, <1>3, <1>4, <1>5, <1>6, <1>7, ReadStep

\* FULLRESYNC.
LEMMA ReadFullresyncStep ==
  ASSUME IInv, NEW s \in Servers, ReadFullresync(s)
  PROVE  IInv'
<1> DEFINE o == srv[s]
           msg == Message(s)
           r == [serverReplStreamReset2Psync(o, msg.replid, msg.reploff) EXCEPT !.data = msg.data]
<1>1. /\ conn[s].chan # << >> /\ msg.type = "fullresync"
      /\ Become(s, r) /\ Read(s, TRUE) /\ dropped' = dropped \cup {o.uuid}
      /\ UNCHANGED <<master, ids, writes, given, reused>>
  BY DEF ReadFullresync, Reads, Message, bounds, history
<1>2. /\ o \in ServerState(given) /\ StreamOK(o) /\ NamesOK(o, s, given, writes, dropped)
  BY ServerIs
<1>3. /\ msg.replid \in Nat /\ msg.reploff \in Int /\ msg.type \in Answer
      /\ msg.data \in Seq(Nat)
  BY <1>1, AnswerTypes DEF Answer
<1>4. /\ r \in ServerState(given) /\ StreamOK(r) /\ r.mode = "psync" /\ r.prev.mode = "unset"
      /\ r.replid = msg.replid /\ r.offset = msg.reploff /\ r.delta = 0 /\ r.uuid = o.uuid
  <2> HIDE DEF msg, o
  <2> QED BY <1>2, <1>3, Reset2PsyncIs
<1> HIDE DEF r
<1>5. NamesOK(r, s, given, writes, dropped')
  <2>1. NamesOK(r, s, given, writes, dropped \cup {o.uuid})
    BY <1>2, <1>4, NamesDropped
  <2> QED BY <1>1, <2>1
<1>6. ASSUME AnsweredTo(s) PROVE Follows(s, r)
  <2>1. /\ msg.replid = srv[master[s]].replid /\ srv[master[s]].mode = "psync"
        /\ msg.reploff + After(s) = MasterReploff(srv[master[s]])
    BY <1>1, <1>6 DEF AnsweredTo, Answered
  <2>2. MasterReploff(r) = msg.reploff
    BY <1>3, <1>4 DEF MasterReploff
  <2> HIDE DEF msg
  <2> QED BY <1>4, <2>1, <2>2 DEF Follows, Following
<1>7. dropped \subseteq dropped'
  BY <1>1
<1> QED BY <1>1, <1>3, <1>4, <1>5, <1>6, <1>7, ReadStep

\* XFULLRESYNC.
LEMMA ReadXfullresyncStep ==
  ASSUME IInv, NEW s \in Servers, ReadXfullresync(s)
  PROVE  IInv'
<1> DEFINE o == srv[s]
           msg == Message(s)
           r == [serverReplStreamReset2Xsync(o, msg.replid, msg.reploff, msg.muuid, msg.executed)
                   EXCEPT !.data = msg.data]
<1>1. /\ conn[s].chan # << >> /\ msg.type = "xfullresync"
      /\ Become(s, r) /\ Read(s, TRUE) /\ dropped' = dropped \cup {o.uuid}
      /\ UNCHANGED <<master, ids, writes, given, reused>>
  BY DEF ReadXfullresync, Reads, Message, bounds, history
<1>2. /\ o \in ServerState(given) /\ StreamOK(o) /\ NamesOK(o, s, given, writes, dropped)
  BY ServerIs
<1>3. /\ msg.replid \in Nat /\ msg.reploff \in Int /\ msg.type \in Answer
      /\ msg.muuid \in MasterUid /\ msg.executed \in SUBSET given /\ msg.data \in Seq(Nat)
  BY <1>1, AnswerTypes DEF Answer
<1>4. /\ r \in ServerState(given) /\ StreamOK(r) /\ r.mode = "xsync"
      /\ r.replid = msg.replid /\ r.offset = msg.reploff /\ r.uuid = o.uuid
      /\ r.muuid = msg.muuid /\ (r.stale \/ r.delta = 0)
  <2> HIDE DEF msg, o
  <2> QED BY <1>2, <1>3, Reset2XsyncIs
<1> HIDE DEF r
<1>5. NamesOK(r, s, given, writes, dropped')
  <2>1. NamesOK(r, s, given, writes, dropped \cup {o.uuid})
    BY <1>2, <1>4, NamesDropped
  <2> QED BY <1>1, <2>1
<1>6. ASSUME AnsweredTo(s) PROVE Follows(s, r)
  <2>1. /\ msg.replid = srv[master[s]].replid /\ srv[master[s]].mode = "xsync"
        /\ msg.muuid = MasterUuid(master[s])
        /\ msg.reploff + After(s) = MasterReploff(srv[master[s]])
    BY <1>1, <1>6 DEF AnsweredTo, Answered
  <2>2. r.delta = 0 => MasterReploff(r) = msg.reploff
    BY <1>3, <1>4 DEF MasterReploff
  <2> HIDE DEF msg
  <2> QED BY <1>4, <2>1, <2>2 DEF Follows, Following
<1>7. dropped \subseteq dropped'
  BY <1>1
<1> QED BY <1>1, <1>3, <1>4, <1>5, <1>6, <1>7, ReadStep

----------------------------------------------------------------------------
(* Commands of the stream.                                                 *)

\* The server s feeds an item, having become r, with k the connections but for
\* what is sent to its replicas.
Feeds(s, r, k, item) ==
    /\ given' \in SUBSET Gtid /\ given \subseteq given' /\ writes' \in Nat
    /\ r \in ServerState(given') /\ item \in ItemsOf(given') /\ StreamOK(r)
    /\ SameStream(srv[s], r) /\ r.uuid = srv[s].uuid /\ r.muuid = srv[s].muuid
    /\ r.enabled = srv[s].enabled
    /\ NamesOK(r, s, given', writes', dropped)
    /\ \A t \in Servers : t # s => NamesOK(srv[t], t, given', writes', dropped)
    /\ k \in [Servers -> Connection(given')] /\ \A t \in Servers : t # s => k[t] = conn[t]
    /\ master[s] = None => k[s] = Closed
    /\ Linked(k[s], Feed(r, item), srv[master[s]], MasterUuid(master[s]))
    /\ FeedAll(k, s, r, item)
    /\ UNCHANGED <<master, ids, dropped>>
    /\ GtidNamesOneWrite'

\* Feeding an item is right.
LEMMA FeedsOK ==
  ASSUME IInv, NEW s \in Servers, NEW r, NEW k, NEW item, Feeds(s, r, k, item)
  PROVE  IInv'
<1> DEFINE H == given'
           q == Feed(r, item)
           Fed(c) == [c EXCEPT !.chan = Append(@, Command(item))]
<1>1. /\ H \in SUBSET Gtid /\ given \subseteq H /\ writes' \in Nat
      /\ r \in ServerState(H) /\ item \in ItemsOf(H) /\ StreamOK(r)
      /\ SameStream(srv[s], r) /\ r.uuid = srv[s].uuid /\ r.muuid = srv[s].muuid
      /\ r.enabled = srv[s].enabled
      /\ k \in [Servers -> Connection(H)] /\ \A t \in Servers : t # s => k[t] = conn[t]
      /\ master' = master /\ ids' = ids /\ dropped' = dropped
  BY DEF Feeds
<1>2. srv' = [srv EXCEPT ![s] = q] /\ srv \in [Servers -> ServerState(given)]
  BY DEF Feeds, FeedAll, IInv, Typed
<1>3. /\ \A t \in Servers : conn'[t] = IF t \in Slaves(s) THEN Fed(k[t]) ELSE k[t]
      /\ conn' = [t \in Servers |-> conn'[t]]
  BY DEF Feeds, FeedAll
<1>4. ServerState(given) \subseteq ServerState(H) /\ Connection(given) \subseteq Connection(H)
  BY <1>1, Monotone
<1>5. /\ q \in ServerState(H) /\ q.mode = r.mode /\ q.prev = r.prev /\ q.replid = r.replid
      /\ q.delta = r.delta /\ q.muuid = r.muuid /\ q.uuid = r.uuid /\ q.executed = r.executed
      /\ q.enabled = r.enabled /\ q.backlog = r.backlog /\ StreamOK(q)
      /\ q.offset = IF r.backlog THEN r.offset + 1 ELSE r.offset
  <2> HIDE DEF H
  <2> QED BY <1>1, FeedIs
<1> HIDE DEF q
<1>6. srv'[s] = q /\ \A t \in Servers : t # s => srv'[t] = srv[t]
  BY <1>2
<1>7. s \notin Slaves(s) /\ conn'[s] = k[s]
  BY <1>3, KickIs
<1>8. getMasterUuid(q, master[s]) = MasterUuid(s)
  BY <1>1, <1>5, SameMasterUuid
<1>9. None \notin Servers /\ master \in [Servers -> Servers \cup {None}]
  BY ConstantsAssumption DEF IInv, Typed
<1>10. ASSUME NEW t \in Slaves(s)
       PROVE  /\ conn'[t] \in Connection(H)
              /\ Linked(conn'[t], srv[t], q, MasterUuid(s))
  <2>1. t \in Servers /\ master[t] = s /\ conn[t].attached /\ t # s
    BY <1>7 DEF Slaves
  <2>2. conn[t] \in Connection(H) /\ Linked(conn[t], srv[t], srv[s], MasterUuid(s))
    BY <1>4, <2>1, ServerIs
  <2>3. srv[s].backlog
    BY <2>1, <2>2 DEF Linked
  <2>4. /\ q.mode = srv[s].mode /\ q.replid = srv[s].replid /\ q.delta = srv[s].delta
        /\ q.backlog /\ q.offset = srv[s].offset + 1
    BY <1>1, <1>5, <2>3 DEF SameStream
  <2>5. /\ srv[t].offset \in Int /\ srv[t].delta \in Int /\ srv[s].offset \in Int
        /\ srv[s].delta \in Int
    BY <1>2, <2>1, ServerTypes
  <2>6. conn'[t] = Fed(conn[t])
    BY <1>1, <1>3, <2>1
  <2>7. Fed(conn[t]) \in Connection(H) /\ Linked(Fed(conn[t]), srv[t], q, MasterUuid(s))
    <3> HIDE DEF H
    <3> QED BY <1>1, <2>1, <2>2, <2>4, <2>5, LinkedFed
  <2> QED BY <2>6, <2>7
<1>11. Typed'
  <2>1. srv' \in [Servers -> ServerState(H)]
    <3>1. srv \in [Servers -> ServerState(H)]
      BY <1>2, <1>4
    <3> QED BY <1>2, <1>5, <3>1
  <2>2. conn' \in [Servers -> Connection(H)]
    <3>1. \A t \in Servers : conn'[t] \in Connection(H)
      BY <1>1, <1>3, <1>10
    <3> QED BY <1>3, <3>1
  <2>3. ids \in Nat
    BY DEF IInv, Typed
  <2> QED BY <1>1, <1>9, <2>1, <2>2, <2>3 DEF Typed
<1>12. ServerOK(s)'
  <2>1. master[s] # s /\ master[s] = None => srv[s].mode = EnabledMode(srv[s])
    BY ServerIs
  <2>2. master[s] = None => k[s] = Closed
    BY DEF Feeds
  <2>3. NamesOK(q, s, H, writes', dropped')
    <3>1. NamesOK(r, s, H, writes', dropped')
      BY <1>1 DEF Feeds
    <3> HIDE DEF H
    <3> QED BY <1>5, <3>1, NamesSame
  <2>4. Linked(k[s], q, srv'[master[s]], getMasterUuid(srv'[master[s]], master[master[s]]))
    <3>1. CASE master[s] = None
      BY <2>2, <3>1, ClosedIs
    <3>2. CASE master[s] # None
      <4>1. master[s] \in Servers /\ master[s] # s
        BY <1>9, <3>2, ServerIs
      <4>2. Linked(k[s], q, srv[master[s]], MasterUuid(master[s]))
        BY DEF Feeds, q
      <4> QED BY <1>6, <4>1, <4>2 DEF MasterUuid
    <3> QED BY <3>1, <3>2
  <2>5. master[s] # s
    BY ServerIs
  <2>6. master[s] = None => q.mode = EnabledMode(q)
    BY <1>1, <1>5, ServerIs DEF EnabledMode, SameStream
  <2> QED BY <1>1, <1>5, <1>6, <1>7, <2>2, <2>3, <2>4, <2>5, <2>6 DEF ServerOK, MasterUuid
<1>13. ASSUME NEW t \in Servers, t # s PROVE ServerOK(t)'
  <2>1. /\ StreamOK(srv[t]) /\ master[t] \in Servers \cup {None} /\ master[t] # t
        /\ master[t] = None => srv[t].mode = EnabledMode(srv[t]) /\ conn[t] = Closed
        /\ conn[t].attached => master[t] \in Servers
        /\ Linked(conn[t], srv[t], srv[master[t]], MasterUuid(master[t]))
    BY ServerIs
  <2>2. NamesOK(srv[t], t, H, writes', dropped')
    BY <1>1, <1>13 DEF Feeds
  <2>3. srv'[t] = srv[t]
    BY <1>6, <1>13
  <2> DEFINE p == srv'[master[t]]
             mu == getMasterUuid(srv'[master[t]], master[master[t]])
  <2>4. CASE t \in Slaves(s)
    <3>1. master[t] = s /\ master[t] # None
      BY <1>9, <2>4 DEF Slaves
    <3>2. p = q /\ mu = MasterUuid(s)
      BY <1>6, <1>8, <3>1
    <3>3. Linked(conn'[t], srv[t], p, mu)
      <4> HIDE DEF p, mu
      <4> QED BY <1>10, <2>4, <3>2
    <3> QED BY <1>1, <2>1, <2>2, <2>3, <3>1, <3>3 DEF ServerOK, MasterUuid
  <2>5. CASE t \notin Slaves(s)
    <3>1. conn'[t] = conn[t]
      BY <1>1, <1>3, <1>13, <2>5
    <3>2. conn[t].attached => SameStream(srv[master[t]], p) /\ mu = MasterUuid(master[t])
      <4> SUFFICES ASSUME conn[t].attached
                   PROVE  SameStream(srv[master[t]], p) /\ mu = MasterUuid(master[t])
        OBVIOUS
      <4>1. master[t] # s
        BY <2>5 DEF Slaves
      <4>2. srv'[master[t]] = srv[master[t]]
        BY <1>6, <2>1, <4>1
      <4> QED BY <4>2 DEF SameStream, MasterUuid
    <3>3. SameStream(srv[t], srv[t])
      BY DEF SameStream
    <3>4. Linked(conn[t], srv[t], p, mu)
      <4> HIDE DEF p, mu
      <4> QED BY <2>1, <3>2, <3>3, LinkedKept
    <3> QED BY <1>1, <2>1, <2>2, <2>3, <3>1, <3>4 DEF ServerOK, MasterUuid
  <2> QED BY <2>4, <2>5
<1>14. GtidNamesOneWrite'
  BY DEF Feeds
<1> QED BY <1>11, <1>12, <1>13, <1>14 DEF IInv

\* The item of a command.
LEMMA ItemIs ==
  ASSUME NEW G, NEW r \in ServerState(G), NEW x \in G \cup {NoGtid}, NEW w \in Nat
  PROVE  LET i == Item(r, x, w)
         IN  /\ i \in ItemsOf(G)
             /\ i.gtid = x /\ i.write = w /\ i.data = r.data /\ i.executed = r.executed
BY ServerTypes DEF Item, ItemsOf

\* What a server has run, with a write and maybe a gtid more.
Ran(r, d, S) == [r EXCEPT !.data = d, !.executed = S]

\* It is the server it was but for them.
LEMMA RanIs ==
  ASSUME NEW G, NEW r \in ServerState(G), NEW S \in SUBSET G, r.executed \subseteq S,
         NEW d \in Seq(Nat), NEW q, q = Ran(r, d, S)
  PROVE  /\ q \in ServerState(G) /\ q.executed = S /\ SameStream(r, q)
         /\ q.mode = r.mode /\ q.prev = r.prev /\ q.stale = r.stale /\ q.muuid = r.muuid
         /\ q.uuid = r.uuid /\ q.enabled = r.enabled /\ q.backlog = r.backlog
         /\ StreamOK(r) => StreamOK(q)
<1>1. /\ q \in ServerState(G) /\ q.executed = S /\ q.mode = r.mode /\ q.prev = r.prev
      /\ q.stale = r.stale /\ q.muuid = r.muuid /\ q.uuid = r.uuid /\ q.enabled = r.enabled
      /\ q.backlog = r.backlog /\ q.replid = r.replid /\ q.offset = r.offset
      /\ q.delta = r.delta /\ q.from = r.from /\ q.boff = r.boff /\ q.items = r.items
      /\ q.idx = r.idx
  BY DEF ServerState, Ran
<1>2. SameStream(r, q)
  BY <1>1 DEF SameStream
<1>3. StreamOK(r) => StreamOK(q)
  BY <1>1 DEF StreamOK, BacklogOK
<1> QED BY <1>1, <1>2, <1>3

\* PING.
LEMMA PingStep ==
  ASSUME IInv, NEW s \in Servers, Ping(s)
  PROVE  IInv'
<1> DEFINE r == srv[s]
           item == Item(r, NoGtid, 0)
<1>1. /\ r \in ServerState(given) /\ StreamOK(r) /\ given \in SUBSET Gtid /\ writes \in Nat
      /\ master[s] = None => conn[s] = Closed
  BY ServerIs
<1>2. /\ master[s] = None /\ FeedAll(conn, s, r, item)
      /\ UNCHANGED <<master, ids, writes, given, reused, dropped>>
  BY DEF Ping, history
<1>3. item \in ItemsOf(given)
  BY <1>1, ItemIs
<1> HIDE DEF item
<1>4. Linked(conn[s], Feed(r, item), srv[master[s]], MasterUuid(master[s]))
  BY <1>1, <1>2, ClosedIs
<1>5. conn \in [Servers -> Connection(given)] /\ GtidNamesOneWrite
  BY DEF IInv, Typed
<1>6. GtidNamesOneWrite'
  BY <1>2, <1>5 DEF GtidNamesOneWrite
<1>7. \A t \in Servers : NamesOK(srv[t], t, given, writes, dropped)
  BY ServerIs
<1>8. Feeds(s, r, conn, item)
  BY <1>1, <1>2, <1>3, <1>4, <1>5, <1>6, <1>7, SameIs DEF Feeds
<1> QED BY <1>8, FeedsOK

\* A write.
LEMMA WriteStep ==
  ASSUME IInv, NEW s \in Servers, Write(s)
  PROVE  IInv'
<1> DEFINE r == srv[s]
           n == NextGno(r)
           x == IF r.enabled THEN <<r.uuid, n>> ELSE NoGtid
           d == Append(r.data, writes + 1)
           S == IF x = NoGtid THEN r.executed ELSE r.executed \cup {x}
           ran == [r EXCEPT !.data = d, !.executed = S]
           item == Item(r, x, writes + 1)
           H == given \cup ({x} \ {NoGtid})
<1>1. /\ r \in ServerState(given) /\ StreamOK(r) /\ given \in SUBSET Gtid /\ writes \in Nat
      /\ NamesOK(r, s, given, writes, dropped)
      /\ master[s] = None => r.mode = EnabledMode(r) /\ conn[s] = Closed
  BY ServerIs
<1>2. /\ master[s] = None /\ writes < MaxWrites
      /\ FeedAll(conn, s, ran, item)
      /\ writes' = writes + 1 /\ given' = H /\ reused' = reused \cup ({x} \cap given)
      /\ UNCHANGED <<master, ids, dropped>>
  <2>1. ran = [r EXCEPT !.data = Append(@, writes + 1),
                        !.executed = IF x = NoGtid THEN @ ELSE @ \cup {x}]
    BY <1>1 DEF ServerState
  <2> QED BY <2>1 DEF Write
<1>3. n \in 1..(writes + 1) /\ n \in Nat /\ <<r.uuid, n>> \notin r.executed
  <2> HIDE DEF r
  <2> QED BY <1>1, <1>2, NextIsFresh
<1>4. /\ r.enabled => r.mode = "xsync"
      /\ r.uuid \in Uid /\ r.uuid[1] = s
  BY <1>1, <1>2, ServerTypes DEF EnabledMode, NamesOK
<1> HIDE DEF r, n
<1>5. <<r.uuid, n>> \in Gtid /\ <<r.uuid, n>> # NoGtid
  BY <1>3, <1>4 DEF Gtid, NoGtid
<1>6. /\ r.enabled => x = <<r.uuid, n>> /\ S = r.executed \cup {<<r.uuid, n>>}
                      /\ H = given \cup {<<r.uuid, n>>}
      /\ ~r.enabled => x = NoGtid /\ S = r.executed /\ H = given
  BY <1>5
<1>7. /\ H \in SUBSET Gtid /\ given \subseteq H /\ x \in H \cup {NoGtid}
  BY <1>1, <1>5, <1>6
<1>8. r \in ServerState(H) /\ conn \in [Servers -> Connection(H)]
  <2>1. conn \in [Servers -> Connection(given)]
    BY DEF IInv, Typed
  <2>2. ServerState(given) \subseteq ServerState(H) /\ Connection(given) \subseteq Connection(H)
    BY <1>7, Monotone
  <2> HIDE DEF H
  <2> QED BY <1>1, <2>1, <2>2
<1>9. S \in SUBSET H /\ r.executed \subseteq S
  <2>1. r.executed \in SUBSET given
    BY <1>1, ServerTypes
  <2> QED BY <1>6, <2>1
<1>10. d \in Seq(Nat)
  BY <1>1, ServerTypes
<1> HIDE DEF x, d, S, H
<1>11. /\ ran \in ServerState(H) /\ ran.executed = S /\ SameStream(r, ran)
       /\ ran.mode = r.mode /\ ran.prev = r.prev /\ ran.muuid = r.muuid
       /\ ran.uuid = r.uuid /\ ran.enabled = r.enabled /\ StreamOK(ran)
  <2>1. ran = Ran(r, d, S)
    BY DEF Ran
  <2> HIDE DEF ran
  <2>2. r \in ServerState(H) /\ S \in SUBSET H /\ r.executed \subseteq S /\ d \in Seq(Nat)
    BY <1>8, <1>9, <1>10
  <2>3. /\ ran \in ServerState(H) /\ ran.executed = S /\ SameStream(r, ran)
        /\ ran.mode = r.mode /\ ran.prev = r.prev /\ ran.stale = r.stale
        /\ ran.muuid = r.muuid /\ ran.uuid = r.uuid /\ ran.enabled = r.enabled
        /\ ran.backlog = r.backlog
        /\ StreamOK(r) => StreamOK(ran)
    BY <2>1, <2>2, RanIs
  <2> QED BY <1>1, <2>3
<1>12. item \in ItemsOf(H)
  BY <1>1, <1>7, <1>8, ItemIs
<1> HIDE DEF ran, item
<1>13. NamesOK(ran, s, H, writes + 1, dropped)
  <2>1. CASE r.enabled
    <3>1. /\ ran.executed = r.executed \cup {<<r.uuid, n>>} /\ r.mode = "xsync"
          /\ H = given \cup {<<r.uuid, n>>}
      BY <1>4, <1>6, <1>11, <2>1
    <3> QED BY <1>1, <1>3, <1>11, <3>1, NamesWritten
  <2>2. CASE ~r.enabled
    <3>1. H = given /\ ran.executed = r.executed
      BY <1>6, <1>11, <2>2
    <3>2. NamesOK(ran, s, given, writes, dropped)
      BY <1>1, <1>11, <3>1, NamesSame
    <3> QED BY <1>1, <3>1, <3>2, NamesUnnamed
  <2> QED BY <2>1, <2>2
<1>14. ASSUME NEW t \in Servers, t # s
       PROVE  NamesOK(srv[t], t, H, writes + 1, dropped)
  <2>1. NamesOK(srv[t], t, given, writes, dropped)
    BY ServerIs
  <2>2. CASE r.enabled
    <3>1. H = given \cup {<<r.uuid, n>>} /\ r.uuid[1] # t
      BY <1>4, <1>6, <1>14, <2>2
    <3> QED BY <1>1, <1>3, <2>1, <3>1, NamesOfOther
  <2>3. CASE ~r.enabled
    BY <1>1, <1>6, <2>1, <2>3, NamesUnnamed
  <2> QED BY <2>2, <2>3
<1>15. GtidNamesOneWrite'
  <2>1. GtidNamesOneWrite
    BY DEF IInv
  <2>2. ASSUME x \in given PROVE x[1] \in dropped
    <3>1. r.enabled
      <4>1. NoGtid \notin Gtid
        BY DEF Gtid, NoGtid
      <4> QED BY <1>1, <1>6, <2>2, <4>1
    <3>2. x = <<r.uuid, n>> /\ x[1] = r.uuid /\ x \notin r.executed
      BY <1>3, <1>6, <3>1
    <3> QED BY <1>1, <2>2, <3>2 DEF NamesOK
  <2> QED BY <1>2, <2>1, <2>2 DEF GtidNamesOneWrite
<1>16. Linked(conn[s], Feed(ran, item), srv[master[s]], MasterUuid(master[s]))
  BY <1>1, <1>2, ClosedIs
<1>17. writes + 1 \in Nat /\ conn[s] = Closed
  BY <1>1, <1>2
<1>18. Feeds(s, ran, conn, item)
  BY <1>2, <1>7, <1>8, <1>11, <1>12, <1>13, <1>14, <1>15, <1>16, <1>17 DEF Feeds, r
<1> QED BY <1>18, FeedsOK

\* A command of the stream.
LEMMA ReadCommandStep ==
  ASSUME IInv, NEW s \in Servers, ReadCommand(s)
  PROVE  IInv'
<1> DEFINE c == conn[s]
           item == Head(c.chan).item
           r == srv[s]
           ignored == item.write = 0 \/ item.gtid \in r.executed
           d == IF ignored THEN r.data ELSE Append(r.data, item.write)
           S == IF ignored \/ item.gtid = NoGtid THEN r.executed
                ELSE r.executed \cup {item.gtid}
           ran == [r EXCEPT !.data = d, !.executed = S]
           k == [conn EXCEPT ![s].chan = Tail(@)]
           e == [c EXCEPT !.link = "up", !.chan = Tail(@)]
           q == srv[master[s]]
           mu == MasterUuid(master[s])
<1>1. /\ r \in ServerState(given) /\ StreamOK(r) /\ given \in SUBSET Gtid /\ writes \in Nat
      /\ NamesOK(r, s, given, writes, dropped) /\ c \in Connection(given)
      /\ master[s] = None => c = Closed
      /\ Linked(c, r, q, mu)
  BY ServerIs
<1>2. /\ c.chan # << >> /\ Head(c.chan).type = "cmd"
      /\ FeedAll(k, s, ran, item)
      /\ UNCHANGED <<master, ids, writes, given, reused, dropped>>
  <2>1. ran = IF ignored THEN r
              ELSE [r EXCEPT !.data = Append(@, item.write),
                             !.executed = IF item.gtid = NoGtid THEN @ ELSE @ \cup {item.gtid}]
    <3>1. CASE ignored
      <4>1. ran = [r EXCEPT !.data = r.data, !.executed = r.executed]
        BY <3>1
      <4> HIDE DEF ran, ignored, r
      <4> QED BY <1>1, <3>1, <4>1 DEF ServerState
    <3>2. CASE ~ignored
      <4> DEFINE T == IF item.gtid = NoGtid THEN r.executed ELSE r.executed \cup {item.gtid}
      <4>1. S = T /\ d = Append(r.data, item.write)
        BY <3>2
      <4> HIDE DEF ignored, r, S, d, item
      <4> QED BY <1>1, <3>2, <4>1 DEF ServerState
    <3> QED BY <3>1, <3>2
  <2> QED BY <2>1 DEF ReadCommand, Reads, bounds, history
<1> HIDE DEF c
<1>3. c.link = "up" /\ master[s] # None
  <2>1. ChanOK(c)
    BY <1>1 DEF Linked
  <2> QED BY <1>1, <1>2, <2>1, WhoReads, ClosedIs
<1>4. item \in ItemsOf(given) /\ item.gtid \in given \cup {NoGtid} /\ item.write \in Nat
  <2>1. Head(c.chan) \in Messages(given)
    BY <1>1, <1>2, ChanTail
  <2>2. item \in ItemsOf(given)
    BY <1>2, <2>1, MessageTypes
  <2> QED BY <2>2 DEF ItemsOf
<1> HIDE DEF item, ignored
<1>5. d \in Seq(Nat) /\ S \in SUBSET given /\ r.executed \subseteq S
  <2>1. r.data \in Seq(Nat) /\ r.executed \in SUBSET given
    BY <1>1, ServerTypes
  <2>2. d \in Seq(Nat)
    BY <1>4, <2>1
  <2>3. S \in SUBSET given /\ r.executed \subseteq S
    BY <1>4, <2>1
  <2> QED BY <2>2, <2>3
<1> HIDE DEF d, S, r
<1>6. /\ ran \in ServerState(given) /\ ran.executed = S /\ SameStream(r, ran)
      /\ ran.mode = r.mode /\ ran.prev = r.prev /\ ran.muuid = r.muuid /\ ran.stale = r.stale
      /\ ran.uuid = r.uuid /\ ran.enabled = r.enabled /\ ran.backlog = r.backlog
      /\ StreamOK(ran)
  <2>1. ran = Ran(r, d, S)
    BY DEF Ran
  <2> HIDE DEF ran
  <2>2. r \in ServerState(given) /\ S \in SUBSET given /\ r.executed \subseteq S /\ d \in Seq(Nat)
    BY <1>1, <1>5
  <2>3. /\ ran \in ServerState(given) /\ ran.executed = S /\ SameStream(r, ran)
        /\ ran.mode = r.mode /\ ran.prev = r.prev /\ ran.stale = r.stale
        /\ ran.muuid = r.muuid /\ ran.uuid = r.uuid /\ ran.enabled = r.enabled
        /\ ran.backlog = r.backlog
        /\ StreamOK(r) => StreamOK(ran)
    BY <2>1, <2>2, RanIs
  <2> QED BY <1>1, <2>3
<1> HIDE DEF ran
<1>7. NamesOK(ran, s, given, writes, dropped)
  BY <1>1, <1>5, <1>6, NamesSame
<1>8. /\ e \in Connection(given) /\ e.link = "up" /\ e.attached = c.attached
      /\ e.chan = Tail(c.chan) /\ Len(e.chan) = Len(c.chan) - 1 /\ ChanOK(e)
  <2>1. ChanOK(c)
    BY <1>1 DEF Linked
  <2> HIDE DEF e
  <2>2. e = [c EXCEPT !.link = "up", !.chan = Tail(@)]
    BY DEF e
  <2> QED BY <1>1, <1>2, <2>1, <2>2, ChanRead
<1>9. k \in [Servers -> Connection(given)] /\ k[s] = e /\ \A t \in Servers : t # s => k[t] = conn[t]
  <2>1. conn \in [Servers -> Connection(given)]
    BY DEF IInv, Typed
  <2>2. e = [c EXCEPT !.chan = Tail(@)]
    BY <1>1, <1>3 DEF Connection
  <2>3. k = [conn EXCEPT ![s] = e]
    BY <2>1, <2>2 DEF c
  <2> HIDE DEF e, k
  <2> QED BY <1>8, <2>1, <2>3
<1>10. Linked(e, Feed(ran, item), q, mu)
  <2> DEFINE f == Feed(ran, item)
  <2>1. /\ f.mode = ran.mode /\ f.replid = ran.replid /\ f.delta = ran.delta
        /\ f.stale = ran.stale /\ f.muuid = ran.muuid /\ f.backlog = ran.backlog
        /\ f.offset = IF ran.backlog THEN ran.offset + 1 ELSE ran.offset
    BY <1>1, <1>4, <1>6, FeedIs
  <2> HIDE DEF f, e, q, mu
  <2>2. r.backlog
    BY <1>1, <1>3 DEF Linked
  <2>3. /\ f.mode = r.mode /\ f.replid = r.replid /\ f.delta = r.delta /\ f.stale = r.stale
        /\ f.muuid = r.muuid /\ f.backlog /\ f.offset = r.offset + 1
    BY <1>6, <2>1, <2>2 DEF SameStream
  <2>4. ASSUME c.attached PROVE Following(f, q, mu, Len(e.chan))
    <3>1. Following(r, q, mu, Len(c.chan))
      BY <1>1, <1>3, <2>4 DEF Linked
    <3>2. Len(c.chan) \in Nat /\ r.offset \in Int /\ r.delta \in Int
      BY <1>1, ConnectionTypes, ServerTypes
    <3>3. MasterReploff(f) + Len(e.chan) = MasterReploff(r) + Len(c.chan)
      BY <1>8, <2>3, <3>2 DEF MasterReploff
    <3> QED BY <2>3, <3>1, <3>3 DEF Following
  <2>5. c.attached => q.backlog
    BY <1>1 DEF Linked
  <2>6. Linked(e, f, q, mu)
    BY <1>8, <2>3, <2>4, <2>5 DEF Linked
  <2> QED BY <2>6 DEF f
<1>11. \A t \in Servers : NamesOK(srv[t], t, given, writes, dropped)
  BY ServerIs
<1>12. GtidNamesOneWrite'
  BY <1>2 DEF IInv, GtidNamesOneWrite
<1> HIDE DEF k, e
<1>13. Feeds(s, ran, k, item)
  BY <1>1, <1>2, <1>3, <1>4, <1>6, <1>7, <1>9, <1>10, <1>11, <1>12 DEF Feeds, r
<1> QED BY <1>13, FeedsOK

\* A master has got a backlog once it answers.
LEMMA AnswersWith ==
  ASSUME IInv, NEW m \in Servers, NEW r, NEW full \in BOOLEAN,
         r = CreateBacklog(IF full THEN SetReplId(srv[m], ids + 1) ELSE srv[m]),
         full => ~srv[m].backlog
  PROVE  /\ r \in ServerState(given) /\ StreamOK(r) /\ r.backlog
         /\ NamesOK(r, m, given, writes, dropped)
         /\ r.mode = srv[m].mode /\ r.from = srv[m].from /\ r.offset = srv[m].offset
         /\ r.delta = srv[m].delta /\ r.uuid = srv[m].uuid /\ r.muuid = srv[m].muuid
         /\ r.enabled = srv[m].enabled
         /\ ~full => r.replid = srv[m].replid
         /\ srv[m].backlog => r = srv[m]
<1> DEFINE q == srv[m]
           p == IF full THEN SetReplId(q, ids + 1) ELSE q
<1>1. /\ q \in ServerState(given) /\ StreamOK(q) /\ ids + 1 \in Nat
      /\ NamesOK(q, m, given, writes, dropped)
  BY ServerIs
<1>2. r = CreateBacklog(p)
  OBVIOUS
<1> HIDE DEF q
<1>3. /\ p \in ServerState(given) /\ p.mode = q.mode /\ p.from = q.from /\ p.prev = q.prev
      /\ p.offset = q.offset /\ p.delta = q.delta /\ p.uuid = q.uuid /\ p.muuid = q.muuid
      /\ p.executed = q.executed /\ p.enabled = q.enabled /\ p.backlog = q.backlog
      /\ p.boff = q.boff /\ p.items = q.items /\ p.idx = q.idx
      /\ ~full => p = q
  <2>1. CASE full
    <3>1. p = SetReplId(q, ids + 1)
      BY <2>1
    <3> HIDE DEF p
    <3> QED BY <1>1, <2>1, <3>1, SetReplIdIs
  <2>2. CASE ~full
    BY <1>1, <2>2
  <2> QED BY <2>1, <2>2
<1> HIDE DEF p
<1>4. StreamOK(p)
  BY <1>1, <1>3 DEF StreamOK, BacklogOK
<1>5. /\ r \in ServerState(given) /\ r.backlog /\ r.mode = p.mode /\ r.from = p.from
      /\ r.prev = p.prev /\ r.replid = p.replid /\ r.offset = p.offset /\ r.delta = p.delta
      /\ r.muuid = p.muuid /\ r.uuid = p.uuid /\ r.executed = p.executed
      /\ r.enabled = p.enabled /\ (p.backlog => r = p)
  BY <1>2, <1>3, CreateBacklogIs
<1>6. StreamOK(r)
  BY <1>2, <1>3, <1>4, CreateBacklogOK
<1>7. NamesOK(r, m, given, writes, dropped)
  BY <1>1, <1>3, <1>5, NamesSame
<1>8. q.backlog => r = q
  <2>1. full => ~q.backlog
    BY DEF q
  <2> QED BY <1>3, <1>5, <2>1
<1>9. ~full => r.replid = q.replid
  BY <1>3, <1>5
<1> QED BY <1>3, <1>5, <1>6, <1>7, <1>8, <1>9 DEF q

\* An answer to the replica s, with c the new connection and r the master m.
Replied(s, m, r, c) ==
    /\ srv' = [srv EXCEPT ![m] = r] /\ conn' = [conn EXCEPT ![s] = c]
    /\ m \in Servers /\ m = master[s] /\ ~conn[s].attached
    /\ master[m] # None => conn[m].link = "up"
    /\ r \in ServerState(given) /\ StreamOK(r) /\ NamesOK(r, m, given, writes, dropped)
    /\ r.mode = srv[m].mode /\ r.uuid = srv[m].uuid /\ r.muuid = srv[m].muuid
    /\ r.enabled = srv[m].enabled
    /\ srv[m].backlog => r = srv[m]
    /\ c \in Connection(given) /\ Linked(c, srv[s], r, getMasterUuid(r, master[m]))
    /\ ids' \in Nat
    /\ UNCHANGED <<master, writes, given, reused, dropped>>

\* Answering is right.
LEMMA RepliedOK ==
  ASSUME IInv, NEW s \in Servers, NEW m, NEW r, NEW c, Replied(s, m, r, c)
  PROVE  IInv'
<1>1. /\ m \in Servers /\ m = master[s] /\ ~conn[s].attached /\ m # s
      /\ srv' = [srv EXCEPT ![m] = r] /\ conn' = [conn EXCEPT ![s] = c]
      /\ master' = master /\ writes' = writes /\ given' = given /\ reused' = reused
      /\ dropped' = dropped
  BY ServerIs DEF Replied
<1>2. /\ srv \in [Servers -> ServerState(given)] /\ conn \in [Servers -> Connection(given)]
      /\ None \notin Servers
  BY ConstantsAssumption DEF IInv, Typed
<1>3. /\ srv'[m] = r /\ conn'[s] = c
      /\ \A t \in Servers : t # m => srv'[t] = srv[t]
      /\ \A t \in Servers : t # s => conn'[t] = conn[t]
  BY <1>1, <1>2
<1>4. getMasterUuid(r, master[m]) = MasterUuid(m)
  BY <1>1, SameMasterUuid DEF Replied
<1>5. Typed'
  <2>1. r \in ServerState(given) /\ c \in Connection(given) /\ ids' \in Nat
    BY DEF Replied
  <2>2. master \in [Servers -> Servers \cup {None}] /\ writes \in Nat /\ given \subseteq Gtid
    BY DEF IInv, Typed
  <2>3. srv' \in [Servers -> ServerState(given)] /\ conn' \in [Servers -> Connection(given)]
    BY <1>1, <1>2, <2>1
  <2> QED BY <1>1, <2>1, <2>2, <2>3 DEF Typed
<1>6. ASSUME NEW t \in Servers
      PROVE  /\ StreamOK(srv'[t]) /\ NamesOK(srv'[t], t, given, writes, dropped)
             /\ srv'[t].mode = srv[t].mode /\ srv'[t].enabled = srv[t].enabled
  <2>1. CASE t = m
    BY <1>3, <2>1 DEF Replied
  <2>2. CASE t # m
    BY <1>3, <2>2, ServerIs
  <2> QED BY <2>1, <2>2
<1>7. ServerOK(s)'
  <2>1. srv'[s] = srv[s] /\ master[s] # None /\ master[s] # s
    BY <1>1, <1>2, <1>3
  <2>2. Linked(conn'[s], srv[s], srv'[m], getMasterUuid(srv'[m], master[m]))
    BY <1>3 DEF Replied
  <2> QED BY <1>1, <1>6, <2>1, <2>2 DEF ServerOK, MasterUuid
<1>8. ASSUME NEW t \in Servers, t # s PROVE ServerOK(t)'
  <2>1. /\ master[t] \in Servers \cup {None} /\ master[t] # t
        /\ master[t] = None => srv[t].mode = EnabledMode(srv[t]) /\ conn[t] = Closed
        /\ conn[t].attached => master[t] \in Servers
        /\ Linked(conn[t], srv[t], srv[master[t]], MasterUuid(master[t]))
    BY ServerIs
  <2>2. master[t] = None => srv'[t].mode = EnabledMode(srv'[t]) /\ conn'[t] = Closed
    BY <1>3, <1>6, <1>8, <2>1 DEF EnabledMode
  <2> DEFINE p == srv'[master[t]]
             mu == getMasterUuid(srv'[master[t]], master[master[t]])
  <2>3. Linked(conn[t], srv'[t], p, mu)
    <3>1. conn[t].attached => SameStream(srv[master[t]], p) /\ mu = MasterUuid(master[t])
      <4> SUFFICES ASSUME conn[t].attached
                   PROVE  SameStream(srv[master[t]], p) /\ mu = MasterUuid(master[t])
        OBVIOUS
      <4>1. CASE master[t] = m
        <5>1. srv[m].backlog
          BY <2>1, <4>1 DEF Linked
        <5>2. p = srv[m]
          BY <1>3, <4>1, <5>1 DEF Replied
        <5> QED BY <4>1, <5>2 DEF SameStream, MasterUuid
      <4>2. CASE master[t] # m
        <5>1. p = srv[master[t]]
          BY <1>3, <2>1, <4>2
        <5> QED BY <5>1 DEF SameStream, MasterUuid
      <4> QED BY <4>1, <4>2
    <3>2. CASE t # m \/ srv[m].backlog
      <4>1. srv'[t] = srv[t]
        BY <1>3, <3>2 DEF Replied
      <4>2. SameStream(srv[t], srv[t])
        BY DEF SameStream
      <4> HIDE DEF p, mu
      <4> QED BY <2>1, <3>1, <4>1, <4>2, LinkedKept
    <3>3. CASE t = m /\ ~srv[m].backlog
      <4>1. conn[m].link # "up"
        BY <2>1, <3>3 DEF Linked
      <4>2. conn[t] = Closed
        BY <2>1, <3>3, <4>1 DEF Replied
      <4> HIDE DEF p, mu
      <4> QED BY <4>2, ClosedIs
    <3> QED BY <3>2, <3>3
  <2> QED BY <1>1, <1>3, <1>6, <1>8, <2>1, <2>2, <2>3 DEF ServerOK, MasterUuid
<1>9. GtidNamesOneWrite'
  BY <1>1 DEF IInv, GtidNamesOneWrite
<1> QED BY <1>5, <1>7, <1>8, <1>9 DEF IInv

\* A request of a replica, and its answer.
LEMMA SyncStep ==
  ASSUME IInv, NEW s \in Servers, Sync(s)
  PROVE  IInv'
<1> DEFINE m == master[s]
           q == srv[m]
           a == masterAnaSyncRequest(q, srv[s])
           full == (a = Full /\ ~q.backlog)
           r == CreateBacklog(IF full THEN SetReplId(q, ids + 1) ELSE q)
           limited == a # Full /\ a.limit # NoLimit
           c == [link |-> "wait", attached |-> ~limited,
                 chan |-> IF a = Full THEN <<FullResync(r, m)>> ELSE <<Reply(r, m, a)>> \o Backlog(r, a)]
<1>1. /\ m # None /\ conn[s].link = "down" /\ (master[m] # None => conn[m].link = "up")
      /\ a # Full => a.offset >= r.boff
      /\ srv' = [srv EXCEPT ![m] = r]
      /\ ids' = IF r.replid = srv[m].replid THEN ids ELSE ids + 1
      /\ conn' = [conn EXCEPT ![s] = c]
      /\ UNCHANGED <<master, writes, given, reused, dropped>>
  BY DEF Sync, bounds, history
<1>2. /\ m \in Servers /\ srv[s] \in ServerState(given) /\ ids \in Nat /\ ids + 1 \in Nat
      /\ Linked(conn[s], srv[s], srv[m], MasterUuid(m))
  BY <1>1, ServerIs
<1>3. q \in ServerState(given) /\ StreamOK(q)
  BY <1>2, ServerIs
<1>4. a = Full \/ Partial(a, given, q, srv[s])
  <2> HIDE DEF q, a, m
  <2>1. a = masterAnaSyncRequest(q, srv[s])
    BY DEF a
  <2> QED BY <1>2, <1>3, <2>1, AnswerIs
<1>5. /\ r \in ServerState(given) /\ StreamOK(r) /\ r.backlog
      /\ NamesOK(r, m, given, writes, dropped)
      /\ r.mode = q.mode /\ r.from = q.from /\ r.offset = q.offset
      /\ r.delta = q.delta /\ r.uuid = q.uuid /\ r.muuid = q.muuid /\ r.enabled = q.enabled
      /\ ~full => r.replid = q.replid
      /\ q.backlog => r = q
  <2>1. r = CreateBacklog(IF full THEN SetReplId(srv[m], ids + 1) ELSE srv[m])
    OBVIOUS
  <2>2. full \in BOOLEAN /\ (full => ~srv[m].backlog)
    OBVIOUS
  <2> HIDE DEF full, r, m
  <2> QED BY <1>2, <2>1, <2>2, AnswersWith
<1> HIDE DEF r
<1>6. c \in Connection(given) /\ Linked(c, srv[s], r, getMasterUuid(r, master[m]))
  <2>1. CASE a = Full
    <3>1. c = [link |-> "wait", attached |-> TRUE, chan |-> <<FullResync(r, m)>>]
      BY <2>1
    <3> HIDE DEF c, m
    <3> QED BY <1>5, <3>1, LinkedFull
  <2>2. CASE a # Full
    <3>1. r.replid = q.replid
      BY <1>5, <2>2
    <3>2. Partial(a, given, r, srv[s])
      <4> HIDE DEF a, q
      <4> QED BY <1>4, <1>5, <2>2, <3>1 DEF Partial
    <3>3. c = [link |-> "wait", attached |-> (a.limit = NoLimit),
               chan |-> <<Reply(r, m, a)>> \o Backlog(r, a)]
      BY <2>2
    <3>4. a.offset >= r.boff
      BY <1>1, <2>2
    <3> HIDE DEF a, c, m
    <3> QED BY <1>2, <1>5, <3>2, <3>3, <3>4, LinkedPartial
  <2> QED BY <2>1, <2>2
<1>7. ~conn[s].attached
  <2>1. conn[s] = Closed
    BY <1>1, <1>2 DEF Linked, ChanOK
  <2> QED BY <2>1, ClosedIs
<1>8. ids' \in Nat
  BY <1>1, <1>2
<1> HIDE DEF c
<1>9. Replied(s, m, r, c)
  BY <1>1, <1>2, <1>5, <1>6, <1>7, <1>8 DEF Replied
<1> QED BY <1>9, RepliedOK

----------------------------------------------------------------------------
(* The beginning.                                                          *)

\* The servers can be numbered.
LEMMA NumberIs ==
  Number \in [Servers -> 1..Cardinality(Servers)] /\ \A s, t \in Servers : s # t => Number[s] # Number[t]
<1> DEFINE n == Cardinality(Servers)
<1>1. ExistsBijection(Servers, 1..n)
  BY ConstantsAssumption, FS_CardinalityType, Fun_ExistsBijSymmetric
<1>2. PICK f \in Bijection(Servers, 1..n) : TRUE
  BY <1>1, Fun_ExistsBij
<1>3. f \in [Servers -> 1..n] /\ \A s, t \in Servers : s # t => f[s] # f[t]
  BY <1>2, Fun_BijectionProperties
<1> QED BY <1>3 DEF Number

\* A server as it starts.
LEMMA NewIs ==
  ASSUME NEW s \in Servers, NEW id \in Nat, NEW b \in BOOLEAN
  PROVE  LET r == New(s, id, b)
         IN  /\ r \in ServerState({}) /\ StreamOK(r) /\ NamesOK(r, s, {}, 0, {})
             /\ r.mode = EnabledMode(r)
<1> DEFINE r == New(s, id, b)
           mode == IF b THEN "xsync" ELSE "psync"
<1>1. /\ mode \in Modes /\ <<s, 0>> \in Uid /\ NoUuid \in MasterUid /\ Unset \in Prevs
      /\ NoId \in Nat /\ -1 \in Int /\ << >> \in Seq(ItemsOf({})) /\ << >> \in Seq(Nat)
      /\ {} \in SUBSET Entries /\ {} \in SUBSET {}
  BY DEF Modes, Uid, MasterUid, Prevs, NoId
<1>2. /\ r.uuid = <<s, 0>> /\ r.mode = mode /\ r.from = 1 /\ r.prev = Unset /\ r.enabled = b
      /\ r.offset = 0 /\ r.delta = 0 /\ r.backlog = FALSE /\ r.idx = {} /\ r.executed = {}
  BY DEF New
<1> HIDE DEF mode
<1>3. r \in ServerState({})
  <2>1. r = [enabled |-> b, uuid |-> <<s, 0>>, muuid |-> NoUuid, executed |-> {}, mode |-> mode,
             from |-> 1, prev |-> Unset, replid |-> id, replid2 |-> NoId, off2 |-> -1,
             offset |-> 0, delta |-> 0, stale |-> FALSE, backlog |-> FALSE, boff |-> 0,
             items |-> << >>, idx |-> {}, wrong |-> FALSE, force |-> FALSE, data |-> << >>]
    BY DEF New, mode
  <2> HIDE DEF r
  <2> QED BY <1>1, <2>1 DEF ServerState
<1> HIDE DEF r
<1>4. StreamOK(r)
  BY <1>2 DEF StreamOK, BacklogOK
<1>5. NamesOK(r, s, {}, 0, {})
  BY <1>2 DEF NamesOK, Unset
<1>6. r.mode = EnabledMode(r)
  BY <1>2 DEF EnabledMode, mode
<1> QED BY <1>3, <1>4, <1>5, <1>6 DEF r

\* The servers as they start.
LEMMA InitOK == Init => IInv
<1> SUFFICES ASSUME Init PROVE IInv
  OBVIOUS
<1>1. PICK enabled \in [Servers -> BOOLEAN] :
         srv = [s \in Servers |-> New(s, Number[s], enabled[s])]
  BY DEF Init
<1>2. /\ master \in [Servers -> Servers \cup {None}] /\ conn = [s \in Servers |-> Closed]
      /\ ids = Cardinality(Servers) /\ writes = 0 /\ given = {} /\ reused = {} /\ dropped = {}
      /\ \A s \in Servers : IF Number[s] = 1 THEN master[s] = None
                            ELSE \E m \in Servers : master[s] = m /\ Number[m] < Number[s]
  BY DEF Init
<1>3. Cardinality(Servers) \in Nat
  BY ConstantsAssumption, FS_CardinalityType
<1>4. ASSUME NEW s \in Servers
      PROVE  /\ srv[s] \in ServerState(given) /\ StreamOK(srv[s])
             /\ NamesOK(srv[s], s, given, writes, dropped) /\ srv[s].mode = EnabledMode(srv[s])
  <2>1. srv[s] = New(s, Number[s], enabled[s]) /\ Number[s] \in Nat /\ enabled[s] \in BOOLEAN
    BY <1>1, <1>3, NumberIs
  <2> QED BY <1>2, <2>1, NewIs
<1>5. Typed
  <2>1. srv \in [Servers -> ServerState(given)]
    BY <1>1, <1>4
  <2>2. conn \in [Servers -> Connection(given)]
    BY <1>2, ClosedIs
  <2> QED BY <1>2, <1>3, <2>1, <2>2 DEF Typed
<1>6. ASSUME NEW s \in Servers PROVE ServerOK(s)
  <2>1. conn[s] = Closed
    BY <1>2
  <2>2. master[s] # s
    <3>1. Number[s] \in Nat /\ ~(Number[s] < Number[s])
      BY <1>3, NumberIs
    <3>2. None \notin Servers
      BY ConstantsAssumption
    <3> QED BY <1>2, <3>1, <3>2
  <2>3. Linked(conn[s], srv[s], srv[master[s]], MasterUuid(master[s]))
    BY <2>1, ClosedIs
  <2> QED BY <1>4, <2>1, <2>2, <2>3 DEF ServerOK
<1>7. GtidNamesOneWrite
  BY <1>2 DEF GtidNamesOneWrite
<1> QED BY <1>5, <1>6, <1>7 DEF IInv

----------------------------------------------------------------------------
(* Every step.                                                             *)

\* The invariant says nothing of pings, disruptions, hidden and behind.
LEMMA StutterStep ==
  ASSUME IInv, UNCHANGED vars
  PROVE  IInv'
<1>1. UNCHANGED <<srv, master, conn, ids, writes, given, reused, dropped>>
  BY DEF vars, bounds, history
<1>2. Typed'
  BY <1>1 DEF IInv, Typed
<1>3. ASSUME NEW s \in Servers PROVE ServerOK(s)'
  BY <1>1 DEF IInv, ServerOK, MasterUuid
<1>4. GtidNamesOneWrite'
  BY <1>1 DEF IInv, GtidNamesOneWrite
<1> QED BY <1>2, <1>3, <1>4 DEF IInv

\* What a server does by itself.
LEMMA StepOK ==
  ASSUME IInv, NEW s \in Servers, Step(s)
  PROVE  IInv'
<1>1. CASE Sync(s)
  BY <1>1, SyncStep
<1>2. CASE ReadContinuePsync(s)
  BY <1>2, ReadContinuePsyncStep
<1>3. CASE ReadContinueXsync(s)
  BY <1>3, ReadContinueXsyncStep
<1>4. CASE ReadXcontinuePsync(s)
  BY <1>4, ReadXcontinuePsyncStep
<1>5. CASE ReadXcontinueXsync(s)
  BY <1>5, ReadXcontinueXsyncStep
<1>6. CASE ReadFullresync(s)
  BY <1>6, ReadFullresyncStep
<1>7. CASE ReadXfullresync(s)
  BY <1>7, ReadXfullresyncStep
<1>8. CASE ReadCommand(s)
  BY <1>8, ReadCommandStep
<1>9. CASE ReadEof(s)
  BY <1>9, CloseStep
<1>10. CASE forceXsyncFullResyncIfNeeded(s)
  BY <1>10, WrongTypeStep
<1> QED BY <1>1, <1>2, <1>3, <1>4, <1>5, <1>6, <1>7, <1>8, <1>9, <1>10 DEF Step

\* What servers, clients and operators do.
LEMMA NextOK ==
  ASSUME IInv, [Next]_vars
  PROVE  IInv'
<1>1. CASE UNCHANGED vars
  BY <1>1, StutterStep
<1>2. ASSUME NEW s \in Servers, Step(s) PROVE IInv'
  BY <1>2, StepOK
<1>3. ASSUME NEW s \in Servers, Write(s) PROVE IInv'
  BY <1>3, WriteStep
<1>4. ASSUME NEW s \in Servers, Ping(s) PROVE IInv'
  BY <1>4, PingStep
<1>5. ASSUME NEW s \in Servers, SetEnabled(s) PROVE IInv'
  BY <1>5, SetEnabledStep
<1>6. ASSUME NEW s \in Servers, Promote(s) PROVE IInv'
  BY <1>6, PromoteStep
<1>7. ASSUME NEW s \in Servers, BreakLink(s) PROVE IInv'
  BY <1>7, CloseStep
<1>8. ASSUME NEW s \in Servers, DropBacklog(s) PROVE IInv'
  BY <1>8, DropBacklogStep
<1>9. ASSUME NEW s \in Servers, WrongType(s) PROVE IInv'
  BY <1>9, WrongTypeStep
<1>10. ASSUME NEW s \in Servers, NEW m \in Servers, ReplicaOf(s, m) PROVE IInv'
  BY <1>10, ReplicaOfStep
<1> QED BY <1>1, <1>2, <1>3, <1>4, <1>5, <1>6, <1>7, <1>8, <1>9, <1>10 DEF Next

----------------------------------------------------------------------------
(* Theorems.                                                               *)

\* The invariant holds whatever the servers do: among the rest, every backlog
\* ends where its server's offset is, psync counts without a delta, a server
\* has every gtid of its own uuid, and the answer a replica waits for is the one
\* that makes it count as its master does (xredis_gtid_rs.c, and both sides of
\* the handshake in xredis_gtid_repl.c).
THEOREM Invariance == Spec => []IInv
<1>1. Init => IInv
  BY InitOK
<1>2. IInv /\ [Next]_vars => IInv'
  BY NextOK
<1> QED BY <1>1, <1>2, PTL DEF Spec

\* What is on its way to a replica that is connected.
LEMMA SentIs ==
  ASSUME NEW s, NEW G, conn[s] \in Connection(G), ChanOK(conn[s]), conn[s].attached,
         conn[s].link = "up"
  PROVE  Len(Sent(s)) = Len(conn[s].chan)
<1> DEFINE chan == conn[s].chan
<1>1. chan \in Seq(Messages(G)) /\ Len(chan) \in Nat
  BY ConnectionTypes
<1>2. \A i \in 1..Len(chan) : chan[i].type = "cmd" /\ chan[i] \in Messages(G)
  BY ConnectionTypes DEF ChanOK
<1>3. chan # << >> => Head(chan) = chan[1] /\ 1 \in 1..Len(chan)
  BY <1>1
<1>4. Commands(s) = chan
  BY <1>2, <1>3 DEF Commands
<1> HIDE DEF chan
<1>5. Sent(s) = [i \in 1..Len(chan) |-> chan[i].item]
  BY <1>1, <1>4 DEF Sent
<1>6. \A i \in 1..Len(chan) : chan[i].item \in ItemsOf(G)
  BY <1>2, MessageTypes
<1>7. Len([i \in 1..Len(chan) |-> chan[i].item]) = Len(chan)
  BY <1>1, <1>6
<1> QED BY <1>5, <1>7 DEF chan

\* A connected replica in either mode has its master's mode and replication id,
\* and counts the stream as it does, once it has read what is on its way: after
\* any change of mode on either side, promotion, demotion, partial or full
\* resync (serverReplStreamSwitch2Psync, Switch2Xsync, Reset2Psync, Reset2Xsync,
\* UpdateXsync).
THEOREM OffsetsAlignedTheorem == Spec => []OffsetsAligned
<1>1. ASSUME IInv, NEW s \in Servers, conn[s].attached, conn[s].link = "up"
      PROVE  LET m == srv[master[s]]
             IN  /\ srv[s].mode = m.mode
                 /\ srv[s].replid = m.replid
                 /\ srv[s].stale \/ MasterReploff(srv[s]) + Len(Sent(s)) = MasterReploff(m)
  <2>1. /\ conn[s] \in Connection(given)
        /\ Linked(conn[s], srv[s], srv[master[s]], MasterUuid(master[s]))
    BY <1>1, ServerIs
  <2>2. ChanOK(conn[s])
        /\ Following(srv[s], srv[master[s]], MasterUuid(master[s]), Len(conn[s].chan))
    BY <1>1, <2>1 DEF Linked
  <2>3. Len(Sent(s)) = Len(conn[s].chan)
    BY <1>1, <2>1, <2>2, SentIs
  <2> QED BY <2>2, <2>3 DEF Following
<1>2. IInv => OffsetsAligned
  BY <1>1 DEF OffsetsAligned
<1> QED BY <1>2, Invariance, PTL

\* A connected xsync replica knows the uuid of the server whose writes it gets,
\* through every server in between: whoever renews its uuid or gets another
\* master disconnects its replicas, or tells them.
THEOREM MasterUuidKnownTheorem == Spec => []MasterUuidKnown
<1>1. ASSUME IInv, NEW s \in Servers, conn[s].attached, conn[s].link = "up",
             srv[s].mode = "xsync"
      PROVE  srv[s].muuid = getMasterUuid(srv[master[s]], master[master[s]])
  <2>1. Linked(conn[s], srv[s], srv[master[s]], MasterUuid(master[s]))
    BY <1>1, ServerIs
  <2> QED BY <1>1, <2>1 DEF Linked, Following, MasterUuid
<1>2. IInv => MasterUuidKnown
  BY <1>1 DEF MasterUuidKnown
<1> QED BY <1>2, Invariance, PTL

\* No gtid is given to two writes unless the server was given another's history
\* in between (serverReplStreamSwitch2Xsync and the renewal of server.uuid).
THEOREM GtidNamesOneWriteTheorem == Spec => []GtidNamesOneWrite
<1>1. IInv => GtidNamesOneWrite
  BY DEF IInv
<1> QED BY <1>1, Invariance, PTL
=============================================================================
