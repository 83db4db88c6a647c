---------------------- MODULE ModeSwitchSyncDataProofs -----------------------
(***************************************************************************)
(* The answers of a master start its replica at a point that both know     *)
(* (Sync), and with that SameData of ModeSwitch.                           *)
(***************************************************************************)
EXTENDS ModeSwitchDataProofs

----------------------------------------------------------------------------
(* What a master sends.                                                    *)

\* What a replica starts from, z, is what the server r had at p, and r was in
\* the mode of z up to n commands later.
Stems(r, p, n, z) ==
    /\ p \in Window(r) /\ n \in Nat /\ p + n <= r.offset
    /\ z.data = DataAt(r, p) /\ z.mode \in {"psync", "xsync"}
    /\ z.mode = "xsync" => /\ z.executed = GtidsAt(r, p)
                           /\ \A o \in p..(p + n) : InXsync(r, o)
    /\ z.mode = "psync" => /\ z.offset = p /\ z.replid = PsyncIds(r).replid
                           /\ \A o \in p..(p + n) : InPsync(r, o)

\* L are these n commands, and perhaps the end.
Carries(r, p, n, L) ==
    /\ n <= Len(L)
    /\ \A k \in 1..Len(L) : IF k <= n THEN L[k] = Command(ItemAt(r, p + k - 1))
                            ELSE L[k].type = "eof"

\* The item i that r has from o on leads from what r had at o to what it had
\* next, for a replica that started from z.
Leads(H, X, r, z, o, i) ==
    /\ i.data = DataAt(r, o) /\ DataAfter(i) = DataAt(r, o + 1)
    /\ z.mode = "xsync" =>
         /\ i.executed = GtidsAt(r, o) /\ GtidsAfter(i) = GtidsAt(r, o + 1)
         /\ XItem(i) /\ Known(X, GtidsAfter(i), DataAfter(i))
    /\ z.mode = "psync" =>
         /\ i.gtid = NoGtid /\ <<z.replid, o + 1, DataAfter(i)>> \in H

\* One of the commands.
LEMMA SentItem ==
  ASSUME NEW H, NEW X, NEW N, NEW G, NEW r \in ServerState(G), StreamOK(r), r.backlog,
         ServerData(H, X, N, r), NEW p, NEW n, NEW z, Stems(r, p, n, z),
         NEW o \in Int, p <= o, o < p + n, NEW i, i = ItemAt(r, o)
  PROVE  Leads(H, X, r, z, o, i)
<1>1. /\ p \in Int /\ n \in Nat /\ r.offset \in Int /\ r.boff \in Int /\ p + n <= r.offset
      /\ r.boff - 1 <= p
  BY FieldTypes DEF Stems, Window
<1>2. /\ o \in p..(p + n) /\ o + 1 \in p..(p + n) /\ o < r.offset
      /\ r.boff - 1 <= o /\ r.boff - 1 <= o + 1 /\ o + 1 <= r.offset /\ o + 1 \in Int
  BY <1>1
<1>3. o \in Window(r) /\ o + 1 \in Window(r) /\ o # r.offset
  BY <1>1, <1>2 DEF Window
<1>4. ItemOK(r, o)
  BY <1>3 DEF ServerData, ItemsOK
<1>5. i.data = DataAt(r, o) /\ DataAfter(i) = DataAt(r, o + 1)
  BY <1>3, <1>4 DEF ItemOK, DataAt
<1>6. CASE z.mode = "xsync"
  <2>1. InXsync(r, o) /\ InXsync(r, o + 1)
    BY <1>2, <1>6 DEF Stems
  <2>2. XItem(i) /\ i.executed = GtidsAt(r, o) /\ GtidsAfter(i) = GtidsAt(r, o + 1)
    BY <1>4, <2>1 DEF ItemOK
  <2>3. Known(X, GtidsAt(r, o + 1), DataAt(r, o + 1))
    BY <1>3, <2>1 DEF ServerData, GtidFacts
  <2> QED BY <1>5, <1>6, <2>2, <2>3 DEF Leads
<1>7. CASE z.mode = "psync"
  <2>1. InPsync(r, o) /\ InPsync(r, o + 1) /\ z.replid = PsyncIds(r).replid
    BY <1>2, <1>7 DEF Stems
  <2>2. i.gtid = NoGtid
    BY <1>4, <2>1 DEF ItemOK
  <2>3. <<PsyncIds(r).replid, o + 1, DataAt(r, o + 1)>> \in H
    BY <1>3, <2>1 DEF ServerData, IdFacts
  <2> QED BY <1>5, <1>7, <2>1, <2>2, <2>3 DEF Leads
<1> QED BY <1>5, <1>6, <1>7 DEF Stems, Leads

\* What a replica starts from is known.
LEMMA SentStart ==
  ASSUME NEW H, NEW X, NEW N, NEW G, NEW r \in ServerState(G), StreamOK(r), r.backlog,
         ServerData(H, X, N, r), NEW p, NEW n, NEW z, Stems(r, p, n, z)
  PROVE  StartOK(H, X, z)
<1>1. p \in Window(r) /\ p \in Int /\ n \in Nat /\ p \in p..(p + n)
  BY FieldTypes DEF Stems, Window
<1>2. CASE z.mode = "xsync"
  <2>1. InXsync(r, p) /\ z.executed = GtidsAt(r, p) /\ z.data = DataAt(r, p)
    BY <1>1, <1>2 DEF Stems
  <2>2. Known(X, GtidsAt(r, p), DataAt(r, p))
    BY <1>1, <2>1 DEF ServerData, GtidFacts
  <2> QED BY <1>2, <2>1, <2>2 DEF StartOK
<1>3. CASE z.mode = "psync"
  <2>1. InPsync(r, p) /\ z.offset = p /\ z.replid = PsyncIds(r).replid /\ z.data = DataAt(r, p)
    BY <1>1, <1>3 DEF Stems
  <2>2. <<PsyncIds(r).replid, p, DataAt(r, p)>> \in H
    BY <1>1, <2>1 DEF ServerData, IdFacts
  <2> QED BY <1>3, <2>1, <2>2 DEF StartOK
<1> QED BY <1>2, <1>3 DEF Stems

\* The commands lead from there to where they end.
LEMMA SentPending ==
  ASSUME NEW H, NEW X, NEW N, NEW G, NEW r \in ServerState(G), StreamOK(r), r.backlog,
         ServerData(H, X, N, r), NEW p, NEW n, NEW z, Stems(r, p, n, z),
         NEW L, Len(L) \in Nat, Carries(r, p, n, L)
  PROVE  PendingOK(H, X, z, L)
<1>1. /\ p \in Int /\ n \in Nat /\ z.data = DataAt(r, p)
      /\ z.mode \in {"psync", "xsync"}
      /\ z.mode = "xsync" => z.executed = GtidsAt(r, p)
      /\ z.mode = "psync" => z.offset = p
  BY FieldTypes DEF Stems, Window
<1> SUFFICES ASSUME NEW k \in 1..Len(L), L[k].type = "cmd"
             PROVE  /\ k = 1 => FirstOK(z, L[k].item)
                    /\ k > 1 /\ L[k - 1].type = "cmd" => NextItemOK(z, L[k - 1].item, L[k].item)
                    /\ FactOK(H, X, z, k, L[k].item)
  BY DEF PendingOK
<1> DEFINE o == p + k - 1
           i == L[k].item
<1>2. "cmd" # "eof"
  OBVIOUS
<1>3. k <= n /\ L[k] = Command(ItemAt(r, o)) /\ k \in Int
  BY <1>1, <1>2 DEF Carries
<1>4. i = ItemAt(r, o)
  BY <1>3 DEF Command
<1>5. o \in Int /\ p <= o /\ o < p + n /\ o + 1 = p + k /\ (k = 1 => o = p)
  BY <1>1, <1>3
<1> HIDE DEF o, i
<1>6. /\ i.data = DataAt(r, o) /\ DataAfter(i) = DataAt(r, o + 1)
      /\ z.mode = "xsync" =>
           /\ i.executed = GtidsAt(r, o) /\ GtidsAfter(i) = GtidsAt(r, o + 1)
           /\ XItem(i) /\ Known(X, GtidsAfter(i), DataAfter(i))
      /\ z.mode = "psync" =>
           /\ i.gtid = NoGtid /\ <<z.replid, o + 1, DataAfter(i)>> \in H
  <2>1. Leads(H, X, r, z, o, i)
    BY <1>4, <1>5, SentItem
  <2> QED BY <2>1 DEF Leads
<1>7. k = 1 => FirstOK(z, i)
  BY <1>1, <1>5, <1>6 DEF FirstOK
<1>8. FactOK(H, X, z, k, i)
  BY <1>1, <1>5, <1>6 DEF FactOK
<1>9. ASSUME k > 1 PROVE NextItemOK(z, L[k - 1].item, i)
  <2> DEFINE y == o - 1
             j == L[k - 1].item
  <2>1. k - 1 \in 1..Len(L) /\ k - 1 <= n
    BY <1>1, <1>3, <1>9
  <2>2. L[k - 1] = Command(ItemAt(r, p + (k - 1) - 1)) /\ p + (k - 1) - 1 = y
    BY <1>1, <1>3, <2>1 DEF Carries, o
  <2>3. j = ItemAt(r, y)
    BY <2>2 DEF Command
  <2>4. y \in Int /\ p <= y /\ y < p + n /\ y + 1 = o
    BY <1>1, <1>3, <1>5, <1>9 DEF o
  <2> HIDE DEF y, j
  <2>5. /\ DataAfter(j) = DataAt(r, y + 1)
        /\ z.mode = "xsync" => GtidsAfter(j) = GtidsAt(r, y + 1)
    <3>1. Leads(H, X, r, z, y, j)
      BY <2>3, <2>4, SentItem
    <3> QED BY <3>1 DEF Leads
  <2>6. NextItemOK(z, j, i)
    BY <1>6, <2>4, <2>5 DEF NextItemOK
  <2> QED BY <2>6 DEF j
<1> QED BY <1>7, <1>8, <1>9 DEF i

\* ... which is where the server is, if nothing is left out.
LEMMA SentEnds ==
  ASSUME NEW H, NEW X, NEW N, NEW G, NEW r \in ServerState(G), StreamOK(r), r.backlog,
         ServerData(H, X, N, r), NEW p, NEW n, NEW z, Stems(r, p, n, z),
         NEW L \in Seq(Messages(G)), Carries(r, p, n, L), Len(L) = n, p + n = r.offset
  PROVE  Ends(z, L, r)
<1>1. /\ p \in Int /\ n \in Nat /\ z.data = DataAt(r, p)
      /\ z.mode = "xsync" => z.executed = GtidsAt(r, p)
      /\ DataAt(r, r.offset) = r.data /\ GtidsAt(r, r.offset) = r.executed
  BY FieldTypes, OffsetIs DEF Stems, Window
<1>2. CASE n = 0
  <2>1. L = << >> /\ p = r.offset
    BY <1>1, <1>2
  <2> QED BY <1>1, <2>1 DEF Ends
<1>3. CASE n # 0
  <2> DEFINE o == p + n - 1
             i == L[n].item
  <2>1. L # << >> /\ n \in 1..Len(L) /\ n <= n
    BY <1>1, <1>3
  <2>2. L[n] = Command(ItemAt(r, o))
    BY <2>1 DEF Carries
  <2>3. i = ItemAt(r, o)
    BY <2>2 DEF Command
  <2>4. o \in Int /\ p <= o /\ o < p + n /\ o + 1 = r.offset
    BY <1>1, <1>3
  <2> HIDE DEF o, i
  <2>5. /\ DataAfter(i) = DataAt(r, o + 1)
        /\ z.mode = "xsync" => GtidsAfter(i) = GtidsAt(r, o + 1)
    <3>1. Leads(H, X, r, z, o, i)
      BY <2>3, <2>4, SentItem
    <3> QED BY <3>1 DEF Leads
  <2>6. NextItemOK(z, i, r)
    BY <1>1, <2>4, <2>5 DEF NextItemOK
  <2> QED BY <2>1, <2>6 DEF Ends, i
<1> QED BY <1>2, <1>3

\* An answer a that is n commands from p on.
Asks(r, a, p, n) ==
    /\ a.offset >= r.boff /\ p = a.offset - 1
    /\ n = IF a.limit = NoLimit THEN r.offset - p ELSE a.limit
    /\ a.limit # NoLimit => a.limit \in Nat

\* L is what is sent for it.
Sends(G, r, a, p, n, L) ==
    /\ L \in Seq(Messages(G)) /\ Len(L) \in Nat /\ Carries(r, p, n, L)
    /\ p \in Window(r) /\ n \in Nat /\ p + n <= r.offset
    /\ a.limit = NoLimit => Len(L) = n /\ p + n = r.offset

\* masterSetupPartialSynchronization sends just that.
LEMMA BacklogCarries ==
  ASSUME NEW G, NEW r \in ServerState(G), StreamOK(r), r.backlog, NEW a, NEW u, Partial(a, G, r, u),
         NEW p, NEW n, Asks(r, a, p, n),
         NEW L, L = Backlog(r, a)
  PROVE  Sends(G, r, a, p, n, L)
<1> DEFINE first == a.offset - r.boff + 1
           last == IF a.limit = NoLimit THEN Len(r.items) ELSE first + a.limit - 1
           items == SubSeq(r.items, first, last)
           cmds == [i \in DOMAIN items |-> Command(items[i])]
           rest == IF a.limit = NoLimit THEN << >> ELSE <<Eof>>
           l == Len(r.items)
<1>1. /\ r.items \in Seq(ItemsOf(G)) /\ l \in Nat /\ r.boff \in Int /\ r.offset \in Int
      /\ r.from \in Int /\ r.from <= r.offset + 1 /\ r.boff + l = r.offset + 1
      /\ \A i \in 1..l : r.items[i] \in ItemsOf(G)
  <2>1. r.items \in Seq(ItemsOf(G))
    BY ServerTypes
  <2>2. l \in Nat /\ \A i \in 1..l : r.items[i] \in ItemsOf(G)
    BY <2>1
  <2> QED BY <2>1, <2>2, ServerTypes DEF StreamOK, BacklogOK
<1>2. a.offset \in Int /\ a.limit \in Int /\ (a.limit # NoLimit => a.limit = r.from - a.offset)
      /\ a.offset <= r.offset + 1
  BY DEF Partial
<1>3. L \in Seq(Messages(G))
  <2>1. a.offset >= r.boff
    BY DEF Asks
  <2> QED BY <2>1, BacklogIs
<1>4. PICK b \in Int, e \in Int, o \in Int, f \in Int :
           b = r.boff /\ e = r.offset /\ o = a.offset /\ f = r.from
  BY <1>1, <1>2
<1>5. /\ p \in Int /\ p = o - 1 /\ b - 1 <= p /\ p <= e /\ n \in Nat /\ p + n <= e
      /\ a.limit = NoLimit => n = e - p
      /\ a.limit # NoLimit => n = a.limit
  <2>1. p = o - 1 /\ o >= b /\ o <= e + 1 /\ f <= e + 1
    BY <1>1, <1>2, <1>4 DEF Asks
  <2>2. CASE a.limit = NoLimit
    <3>1. n = e - p
      BY <1>4, <2>2 DEF Asks
    <3> QED BY <2>1, <2>2, <3>1
  <2>3. CASE a.limit # NoLimit
    <3>1. n = a.limit /\ n \in Nat /\ n = f - o
      BY <1>2, <1>4, <2>3 DEF Asks
    <3> QED BY <2>1, <2>3, <3>1
  <2> QED BY <2>2, <2>3
<1>6. l \in Nat /\ b + l = e + 1
  BY <1>1, <1>4
<1>7. first = o - b + 1 /\ last = IF a.limit = NoLimit THEN l ELSE first + a.limit - 1
  BY <1>4
<1> HIDE DEF first, last, l
<1>8. first = p - b + 2 /\ last = first + n - 1
  <2>1. first = p - b + 2
    BY <1>5, <1>7
  <2>2. CASE a.limit = NoLimit
    <3>1. last = l /\ n = e - p
      BY <1>5, <1>7, <2>2
    <3> QED BY <1>5, <1>6, <2>1, <3>1
  <2>3. CASE a.limit # NoLimit
    <3>1. last = first + n - 1
      BY <1>5, <1>7, <2>3
    <3> QED BY <2>1, <3>1
  <2> QED BY <2>2, <2>3
<1>9. /\ first \in 1..(l + 1) /\ first \in Int /\ last \in Int /\ last <= l
      /\ first <= last \/ n = 0
      /\ n = 0 => ~(first <= last)
      /\ last - first + 1 = n
      /\ \A k \in Int : first + k - 1 = (p + k - 1) - b + 2
  BY <1>5, <1>8, <1>6
<1>10. /\ Len(items) = n /\ items \in Seq(ItemsOf(G))
       /\ \A k \in 1..n : items[k] = r.items[first + k - 1]
  <2>1. \A i \in first..last : r.items[i] \in ItemsOf(G)
    BY <1>1, <1>9, <1>6
  <2>3. /\ items \in Seq(ItemsOf(G))
        /\ Len(items) = IF first <= last THEN last - first + 1 ELSE 0
        /\ \A k \in 1..(last - first + 1) : items[k] = r.items[first + k - 1]
    BY <1>9, <2>1, SubSeqProperties
  <2> QED BY <1>9, <2>3
<1> HIDE DEF items
<1>11. /\ cmds \in Seq(Messages(G)) /\ Len(cmds) = n
       /\ \A k \in 1..n : cmds[k] = Command(items[k])
  <2>1. DOMAIN items = 1..n /\ \A i \in 1..n : items[i] \in ItemsOf(G)
    BY <1>5, <1>10
  <2>2. ASSUME NEW i \in 1..n PROVE cmds[i] \in Messages(G)
    BY <2>1, CommandIs
  <2>3. cmds = [i \in 1..n |-> Command(items[i])]
    BY <2>1
  <2> HIDE DEF cmds
  <2>4. DOMAIN cmds = 1..n /\ \A i \in 1..n : cmds[i] = Command(items[i])
    BY <2>3
  <2>5. cmds \in [1..n -> Messages(G)]
    BY <2>1, <2>2, <2>3
  <2> QED BY <1>5, <2>4, <2>5
<1> HIDE DEF cmds
<1>12. /\ rest \in Seq(Messages(G)) /\ Len(rest) \in Nat
       /\ a.limit = NoLimit => Len(rest) = 0
       /\ \A i \in 1..Len(rest) : rest[i].type = "eof"
  <2>1. CASE a.limit = NoLimit
    BY <2>1
  <2>2. CASE a.limit # NoLimit
    BY <2>2, EofIs
  <2> QED BY <2>1, <2>2
<1>13. L = cmds \o rest
  BY DEF Backlog, items, cmds, rest, first, last
<1> HIDE DEF rest
<1>14. /\ Len(L) = n + Len(rest)
       /\ \A k \in 1..(n + Len(rest)) : L[k] = IF k <= n THEN cmds[k] ELSE rest[k - n]
  <2>1. /\ Len(cmds \o rest) = Len(cmds) + Len(rest)
        /\ \A k \in 1..Len(cmds) + Len(rest) :
              (cmds \o rest)[k] = IF k <= Len(cmds) THEN cmds[k] ELSE rest[k - Len(cmds)]
    BY <1>11, <1>12, ConcatProperties, ZenonT(60)
  <2> QED BY <1>11, <1>13, <2>1
<1>15. ASSUME NEW k \in 1..Len(L)
       PROVE  IF k <= n THEN L[k] = Command(ItemAt(r, p + k - 1)) ELSE L[k].type = "eof"
  <2>1. CASE k <= n
    <3>1. k \in 1..n /\ L[k] = Command(r.items[first + k - 1])
      BY <1>5, <1>10, <1>11, <1>14, <2>1
    <3>2. first + k - 1 = (p + k - 1) - b + 2
      BY <1>5, <1>9, <3>1
    <3> QED BY <1>4, <2>1, <3>1, <3>2 DEF ItemAt
  <2>2. CASE ~(k <= n)
    <3> DEFINE z == Len(rest)
    <3>1. z \in Nat /\ Len(L) = n + z /\ k \in 1..(n + z)
      BY <1>12, <1>14
    <3> HIDE DEF z
    <3>2. k - n \in 1..z
      BY <1>5, <2>2, <3>1
    <3>3. k - n \in 1..Len(rest) /\ L[k] = rest[k - n]
      BY <1>14, <2>2, <3>1, <3>2 DEF z
    <3> QED BY <1>12, <2>2, <3>3
  <2> QED BY <2>1, <2>2
<1>16. n <= Len(L) /\ Len(L) \in Nat
  BY <1>5, <1>12, <1>14
<1>17. Carries(r, p, n, L)
  BY <1>15, <1>16 DEF Carries
<1>18. p \in Window(r) /\ p + n <= r.offset
  BY <1>4, <1>5 DEF Window
<1>19. ASSUME a.limit = NoLimit PROVE Len(L) = n /\ p + n = r.offset
  <2>1. Len(L) = n
    BY <1>5, <1>12, <1>14, <1>19
  <2>2. p + n = e
    BY <1>5, <1>19
  <2> QED BY <1>4, <2>1, <2>2
<1> QED BY <1>3, <1>5, <1>16, <1>17, <1>18, <1>19 DEF Sends

\* A psync replica R asks for what the history q goes on with.
Accepts(q, R) ==
    LET i == PsyncIds(q)
    IN  R.replid = i.replid \/ (R.replid = i.replid2 /\ R.offset < i.off2)

\* It is where q was, and what its id names q's names too.
Met(H, q, R) ==
    /\ R.backlog /\ R.data = DataAt(q, R.offset)
    /\ R.replid # PsyncIds(q).replid =>
         \A h \in H : h[1] = R.replid /\ h[2] <= R.offset => <<PsyncIds(q).replid, h[2], h[3]>> \in H

\* What a psync replica asks for and q accepts, it is at.
LEMMA PsyncPoint ==
  ASSUME NEW H, NEW X, NEW N, NEW G, FactsOK(H, X, N, G),
         NEW q \in ServerState(G), StreamOK(q), ServerData(H, X, N, q), q.backlog, HasPsync(q),
         NEW R \in ServerState(G), StreamOK(R), ServerData(H, X, N, R), R.mode = "psync",
         NEW solo \in BOOLEAN, ~R.backlog => solo, Settled(PsyncIds(q), R, solo),
         R.offset \in Window(q), InPsync(q, R.offset), Accepts(q, R)
  PROVE  Met(H, q, R)
<1> DEFINE p == PsyncIds(q)
           o == R.offset
<1>1. <<p.replid, o, DataAt(q, o)>> \in H
  BY DEF ServerData, IdFacts
<1>2. R.replid # NoId /\ o \in Int /\ p.off2 \in Int
  <2>1. R.replid \in 1..N
    BY DEF ServerData, IdsOK
  <2> QED BY <2>1, FieldTypes DEF NoId
<1>3. ~R.backlog => \A h \in H : h[1] # R.replid
  BY DEF ServerData
<1>4. \A h, g \in H : h[1] = g[1] /\ h[2] = g[2] => h = g
  BY DEF FactsOK
<1>5. R.replid = p.replid \/ (R.replid = p.replid2 /\ o < p.off2)
  BY DEF Accepts
<1>6. Joined(H, p)
  BY DEF ServerData
<1>7. R.backlog
  <2>1. CASE R.replid = p.replid
    BY <1>1, <1>3, <2>1
  <2>2. CASE R.replid # p.replid
    BY <1>2, <1>5, <2>2 DEF Settled
  <2> QED BY <2>1, <2>2
<1>8. <<R.replid, o, R.data>> \in H
  <2>1. o \in Window(R) /\ DataAt(R, o) = R.data /\ InPsync(R, o)
    BY OffsetIs
  <2>2. PsyncIds(R) = R
    BY DEF PsyncIds
  <2> QED BY <1>7, <2>1, <2>2 DEF ServerData, IdFacts
<1> HIDE DEF p, o
<1>9. ASSUME R.replid # p.replid
      PROVE  \A h \in H : h[1] = R.replid /\ h[2] <= o => <<p.replid, h[2], h[3]>> \in H
  <2>1. R.replid = p.replid2 /\ o < p.off2 /\ p.replid2 # NoId
    BY <1>2, <1>5, <1>9
  <2>2. \A h \in H : h[2] \in Int
    BY DEF FactsOK
  <2>3. \A h \in H : h[1] = p.replid2 /\ h[2] < p.off2 => <<p.replid, h[2], h[3]>> \in H
    BY <1>6, <2>1 DEF Joined
  <2>4. ASSUME NEW h \in H, h[1] = R.replid, h[2] <= o PROVE <<p.replid, h[2], h[3]>> \in H
    <3>1. h[2] < p.off2
      BY <1>2, <2>1, <2>2, <2>4
    <3> QED BY <2>1, <2>3, <2>4, <3>1
  <2> QED BY <2>4
<1>10. <<p.replid, o, R.data>> \in H
  <2>1. CASE R.replid = p.replid
    BY <1>8, <2>1
  <2>2. CASE R.replid # p.replid
    <3> DEFINE h == <<R.replid, o, R.data>>
    <3>1. h \in H /\ h[1] = R.replid /\ h[2] = o /\ h[3] = R.data /\ o <= o
      BY <1>2, <1>8
    <3> HIDE DEF h
    <3>2. <<p.replid, h[2], h[3]>> \in H
      BY <1>9, <2>2, <3>1
    <3> QED BY <3>1, <3>2
  <2> QED BY <2>1, <2>2
<1>11. R.data = DataAt(q, o)
  <2> DEFINE h == <<p.replid, o, R.data>>
             g == <<p.replid, o, DataAt(q, o)>>
  <2>1. h \in H /\ g \in H /\ h[1] = g[1] /\ h[2] = g[2] /\ h[3] = R.data /\ g[3] = DataAt(q, o)
    BY <1>1, <1>10
  <2> HIDE DEF h, g
  <2>2. h = g
    BY <1>4, <2>1
  <2> QED BY <2>1, <2>2
<1> QED BY <1>7, <1>9, <1>11 DEF Met, p, o

\* An answer that leads a replica R of r on.
Right(H, N, r, R, a) ==
    /\ \E p, n : Asks(r, a, p, n) /\ Stems(r, p, n, Becomes(R, a))
    /\ AnswerOK(H, N, R, a)

\* Where locateServerReplMode finds an offset.
Located(q, mode, offset, type) ==
    /\ type \in {"invalid", "cur", "prev", "switch"}
    /\ type = "cur" => mode = q.mode /\ q.from <= offset
    /\ type = "switch" => mode # q.mode /\ q.prev # Unset /\ offset = q.from
    /\ type = "prev" => /\ q.prev # Unset /\ q.prev.mode = mode
                        /\ q.prev.from <= offset /\ offset < q.from

\* The type of an offset.
LEMMA LocatedAt ==
  ASSUME NEW G, NEW q \in ServerState(G), NEW mode, NEW offset \in Int,
         NEW type, type = locateServerReplMode(q, mode, offset)
  PROVE  Located(q, mode, offset, type)
<1>1. /\ type \in {"invalid", "cur", "prev", "switch"} /\ q.from \in Int
      /\ type = "cur" => mode = q.mode
      /\ type = "switch" => mode # q.mode /\ q.prev # Unset
      /\ type = "prev" => q.prev # Unset /\ q.prev.mode = mode /\ offset < q.from
  BY LocateIs, ServerTypes
<1>2. type = "cur" => q.from <= offset
  BY <1>1 DEF locateServerReplMode
<1>3. type = "switch" => offset = q.from
  BY <1>1 DEF locateServerReplMode
<1>4. ASSUME type = "prev" PROVE q.prev.from <= offset
  <2>1. q.prev.from \in Int
    BY <1>1, <1>4, PrevIs, ServerTypes
  <2>2. ~(offset < q.prev.from)
    BY <1>1, <1>4 DEF locateServerReplMode
  <2> QED BY <2>1, <2>2
<1> QED BY <1>1, <1>2, <1>3, <1>4 DEF Located

\* The psync stretches of a stream.
PsyncFrom(q, o, n) ==
    IF q.mode = "psync" THEN q.from <= o + 1
    ELSE q.prev.mode = "psync" /\ q.prev.from <= o + 1 /\ o + n < q.from

\* A replica that continues in psync.
LEMMA PsyncStems ==
  ASSUME NEW G, NEW q \in ServerState(G), StreamOK(q), NEW o \in Window(q), NEW n \in Nat,
         o + n <= q.offset, PsyncFrom(q, o, n),
         NEW z, z.mode = "psync", z.data = DataAt(q, o), z.offset = o,
         z.replid = PsyncIds(q).replid
  PROVE  Stems(q, o, n, z)
<1>1. o \in Int /\ q.from \in Int
  BY FieldTypes DEF Window
<1>2. ASSUME NEW x \in o..(o + n) PROVE InPsync(q, x)
  <2>1. CASE q.mode = "psync"
    BY <1>1, <2>1 DEF InPsync, PsyncFrom
  <2>2. CASE q.mode # "psync"
    <3>1. q.prev.mode = "psync" /\ q.prev.from <= o + 1 /\ o + n < q.from
      BY <2>2 DEF PsyncFrom
    <3>2. q.prev.from \in Int
      <4>1. q.prev # Unset
        BY <3>1 DEF Unset
      <4> QED BY <4>1, FieldTypes
    <3>3. q.prev.from - 1 <= x /\ x < q.from
      BY <1>1, <3>1, <3>2
    <3> QED BY <2>2, <3>1, <3>3 DEF InPsync
  <2> QED BY <2>1, <2>2
<1>3. z.mode \in {"psync", "xsync"} /\ z.mode # "xsync"
  OBVIOUS
<1> QED BY <1>2, <1>3 DEF Stems

\* The xsync stretches of a stream.
XsyncFrom(q, o, n) ==
    IF q.mode = "xsync" THEN q.from <= o + 1
    ELSE q.prev.mode = "xsync" /\ q.prev.from <= o + 1 /\ o + n < q.from

\* A replica that continues in xsync.
LEMMA XsyncStems ==
  ASSUME NEW G, NEW q \in ServerState(G), StreamOK(q), NEW o \in Window(q), NEW n \in Nat,
         o + n <= q.offset, XsyncFrom(q, o, n),
         NEW z, z.mode = "xsync", z.data = DataAt(q, o), z.executed = GtidsAt(q, o)
  PROVE  Stems(q, o, n, z)
<1>1. o \in Int /\ q.from \in Int
  BY FieldTypes DEF Window
<1>2. ASSUME NEW x \in o..(o + n) PROVE InXsync(q, x)
  <2>1. CASE q.mode = "xsync"
    BY <1>1, <2>1 DEF InXsync, XsyncFrom
  <2>2. CASE q.mode # "xsync"
    <3>1. q.prev.mode = "xsync" /\ q.prev.from <= o + 1 /\ o + n < q.from
      BY <2>2 DEF XsyncFrom
    <3>2. q.prev.from \in Int
      <4>1. q.prev # Unset
        BY <3>1 DEF Unset
      <4> QED BY <4>1, FieldTypes
    <3>3. q.prev.from - 1 <= x /\ x < q.from
      BY <1>1, <3>1, <3>2
    <3> QED BY <2>2, <3>1, <3>3 DEF InXsync
  <2> QED BY <2>1, <2>2
<1>3. z.mode \in {"psync", "xsync"} /\ z.mode # "psync"
  OBVIOUS
<1> QED BY <1>2, <1>3 DEF Stems

\* What an answer makes of a replica, field by field.
LEMMA BecomesIs ==
  ASSUME NEW R, NEW a
  PROVE  /\ a.type = "continue" => /\ Becomes(R, a).mode = "psync" /\ Becomes(R, a).data = R.data
                                   /\ Becomes(R, a).replid = a.replid
                                   /\ Becomes(R, a).offset = IF R.mode = "psync" THEN R.offset
                                                             ELSE a.reploff
         /\ a.type = "xcontinue" => /\ Becomes(R, a).mode = "xsync" /\ Becomes(R, a).data = R.data
                                    /\ Becomes(R, a).executed = a.cont
BY DEF Becomes

\* The answers to a PSYNC but for a full resync: the current mode, the one
\* before it, or from the one to the other.
PsyncCur(q, o, a) ==
    q.mode = "psync" /\ q.from <= o /\ a = Continue(q.replid, -1, o, NoLimit)
PsyncPrev(q, o, a) ==
    /\ q.mode = "xsync" /\ q.prev.mode = "psync" /\ q.prev.from <= o /\ o < q.from
    /\ a = Continue(q.prev.replid, -1, o, PrevLimit(q, o))
PsyncSwitch(q, o, a) ==
    /\ q.mode = "xsync" /\ q.prev.mode = "psync" /\ o = q.from
    /\ a = Xcontinue(q.replid, q.delta + o - 1, o, NoLimit, q.executed \ Gtids(Index!From(q.idx, o)))

\* Only what q can continue is answered so.
LEMMA PsyncAnswerIs ==
  ASSUME NEW G, NEW q \in ServerState(G), StreamOK(q), ShapeOK(q), NEW R \in ServerState(G),
         NEW o, o = R.offset + 1,
         NEW a, a = masterAnaPsyncRequest(q, R.replid, o), a # Full
  PROVE  /\ q.backlog /\ o \in Int /\ o >= q.boff /\ o <= q.offset + 1
         /\ Accepts(q, R) /\ HasPsync(q)
         /\ PsyncCur(q, o, a) \/ PsyncPrev(q, o, a) \/ PsyncSwitch(q, o, a)
<1> DEFINE type == locateServerReplMode(q, "psync", o)
           end == q.boff + Len(q.items)
           xsync == Gtids(Index!From(q.idx, o))
<1>1. /\ R.offset \in Int /\ o \in Int /\ q.offset \in Int /\ q.boff \in Int /\ q.from \in Int
      /\ q.mode \in {"psync", "xsync"} /\ q.prev.mode # q.mode /\ q.off2 \in Int
      /\ q.prev # Unset => q.prev.mode \in {"psync", "xsync"} /\ q.prev.off2 \in Int
  <2>1. R.offset \in Int
    BY ServerTypes
  <2>2. /\ q.offset \in Int /\ q.boff \in Int /\ q.from \in Int
        /\ q.mode \in {"psync", "xsync"} /\ q.off2 \in Int
        /\ q.prev # Unset => q.prev.mode \in {"psync", "xsync"} /\ q.prev.off2 \in Int
    BY FieldTypes
  <2>3. q.prev.mode # q.mode
    BY DEF ShapeOK
  <2> QED BY <2>1, <2>2, <2>3
<1>2. /\ q.backlog /\ ~(o < q.boff) /\ ~(o > end) /\ type # "invalid"
      /\ type # "cur" => AcceptsPrev(q, R.replid, o)
  BY DEF masterAnaPsyncRequest
<1>3. end = q.offset + 1
  BY <1>2, FieldTypes
<1>4. Located(q, "psync", o, type)
  BY <1>1, LocatedAt
<1>5. /\ type = "cur" => a = masterTryPartialResynchronization(q, R.replid, o)
      /\ type = "prev" => a = Continue(q.prev.replid, -1, o, PrevLimit(q, o))
      /\ type = "switch" => a = Xcontinue(q.replid, q.delta + o - 1, o, NoLimit, q.executed \ xsync)
  BY <1>2 DEF masterAnaPsyncRequest
<1>6. /\ type \in {"cur", "prev", "switch"}
      /\ type = "cur" => q.mode = "psync" /\ q.from <= o
      /\ type = "switch" => q.mode # "psync" /\ q.prev # Unset /\ o = q.from
      /\ type = "prev" => /\ q.prev # Unset /\ q.prev.mode = "psync"
                          /\ q.prev.from <= o /\ o < q.from
  BY <1>2, <1>4 DEF Located
<1> HIDE DEF type, end
<1>7. q.backlog /\ o \in Int /\ o >= q.boff /\ o <= q.offset + 1
  <2>1. ~(o > q.offset + 1)
    BY <1>2, <1>3
  <2> QED BY <1>1, <1>2, <2>1
<1>8. CASE type = "cur"
  <2>1. q.mode = "psync" /\ q.from <= o /\ a = masterTryPartialResynchronization(q, R.replid, o)
    BY <1>5, <1>6, <1>8
  <2>2. /\ a = Continue(q.replid, -1, o, NoLimit)
        /\ R.replid = q.replid \/ (R.replid = q.replid2 /\ o <= q.off2)
    BY <2>1 DEF masterTryPartialResynchronization
  <2>3. Accepts(q, R)
    <3>1. o <= q.off2 => R.offset < q.off2
      BY <1>1
    <3> QED BY <2>1, <2>2, <3>1 DEF Accepts, PsyncIds
  <2> QED BY <1>7, <2>1, <2>2, <2>3 DEF PsyncCur, HasPsync
<1>9. ASSUME type # "cur"
      PROVE  /\ q.mode = "xsync" /\ q.prev.mode = "psync" /\ Accepts(q, R) /\ HasPsync(q)
  <2>1. q.prev # Unset /\ (q.mode # "psync" \/ q.prev.mode = "psync")
    BY <1>6, <1>9
  <2>2. q.mode = "xsync" /\ q.prev.mode = "psync" /\ q.prev.off2 \in Int
    BY <1>1, <2>1
  <2>3. R.replid = q.prev.replid \/ (R.replid = q.prev.replid2 /\ o <= q.prev.off2)
    BY <1>2, <1>9 DEF AcceptsPrev
  <2>4. o <= q.prev.off2 => R.offset < q.prev.off2
    BY <1>1, <2>2
  <2>5. PsyncIds(q) = q.prev
    BY <2>2 DEF PsyncIds
  <2> QED BY <2>2, <2>3, <2>4, <2>5 DEF Accepts, HasPsync
<1>10. CASE type = "prev"
  <2>1. type # "cur"
    BY <1>10
  <2> QED BY <1>5, <1>6, <1>7, <1>9, <1>10, <2>1 DEF PsyncPrev
<1>11. CASE type = "switch"
  <2>1. type # "cur"
    BY <1>11
  <2> QED BY <1>5, <1>6, <1>7, <1>9, <1>11, <2>1 DEF PsyncSwitch
<1> QED BY <1>6, <1>8, <1>10, <1>11

\* The gtids a server had before an offset.
LEMMA GtidsBefore ==
  ASSUME NEW G, NEW q \in ServerState(G), StreamOK(q), NEW o \in Int
  PROVE  GtidsAt(q, o) = q.executed \ Gtids(Index!From(q.idx, o + 1))
<1>1. \A e \in q.idx : e.offset > o <=> e.offset >= o + 1
  BY FieldTypes
<1> QED BY <1>1 DEF GtidsAt, Index!From

\* What masterAnaPsyncRequest answers leads the replica on.
LEMMA PsyncRight ==
  ASSUME NEW H, NEW X, NEW N, NEW G, FactsOK(H, X, N, G),
         NEW q \in ServerState(G), StreamOK(q), ServerData(H, X, N, q),
         NEW R \in ServerState(G), StreamOK(R), ServerData(H, X, N, R), R.mode = "psync",
         NEW solo \in BOOLEAN, ~R.backlog => solo, HasPsync(q) => Settled(PsyncIds(q), R, solo),
         NEW a, a = masterAnaPsyncRequest(q, R.replid, R.offset + 1), a # Full
  PROVE  q.backlog /\ Right(H, N, q, R, a)
<1>0. ShapeOK(q) /\ IdsOK(N, q)
  BY DEF ServerData
<1>1. PICK p \in Int, o \in Int, e \in Int, f \in Int, b \in Int :
           /\ p = R.offset /\ o = p + 1 /\ o = R.offset + 1 /\ e = q.offset /\ f = q.from /\ b = q.boff
           /\ f <= e + 1
  <2>1. R.offset \in Int
    BY FieldTypes
  <2>2. q.offset \in Int /\ q.from \in Int /\ q.boff \in Int /\ q.from <= q.offset + 1
    BY FieldTypes
  <2> QED BY <2>1, <2>2
<1>2. /\ q.backlog /\ o >= b /\ o <= e + 1 /\ Accepts(q, R) /\ HasPsync(q)
      /\ PsyncCur(q, o, a) \/ PsyncPrev(q, o, a) \/ PsyncSwitch(q, o, a)
  BY <1>0, <1>1, PsyncAnswerIs
<1>3. p \in Window(q)
  BY <1>1, <1>2 DEF Window
<1>4. -1 \in Int /\ NoLimit = -1
  BY DEF NoLimit
<1> DEFINE Goal == Right(H, N, q, R, a)
<1>5. InPsync(q, p)
  <2>1. CASE PsyncCur(q, o, a)
    <3>1. q.mode = "psync" /\ f <= o
      BY <1>1, <2>1 DEF PsyncCur
    <3>2. f - 1 <= p
      BY <1>1, <3>1
    <3> QED BY <1>1, <3>1, <3>2 DEF InPsync
  <2>2. ASSUME PsyncPrev(q, o, a) \/ PsyncSwitch(q, o, a) PROVE InPsync(q, p)
    <3>1. q.mode = "xsync" /\ q.prev.mode = "psync" /\ o <= f /\ (o < f => q.prev.from <= o)
      BY <1>1, <2>2 DEF PsyncPrev, PsyncSwitch
    <3>2. q.prev # Unset
      BY <3>1 DEF Unset
    <3>3. q.prev.from \in Int /\ q.prev.from <= f
      <4>1. q.prev.from \in Int
        BY <3>2, FieldTypes
      <4>2. q.prev.from <= f
        BY <1>0, <1>1, <3>1, <3>2 DEF ShapeOK
      <4> QED BY <4>1, <4>2
    <3>4. q.prev.from - 1 <= p /\ p < f
      BY <1>1, <3>1, <3>3
    <3> QED BY <1>1, <3>1, <3>4 DEF InPsync
  <2> QED BY <1>2, <2>1, <2>2
<1>6. Met(H, q, R)
  <2>1. Settled(PsyncIds(q), R, solo)
    BY <1>2
  <2> QED BY <1>1, <1>2, <1>3, <1>5, <2>1, PsyncPoint
<1>7. R.backlog /\ R.data = DataAt(q, p)
  BY <1>1, <1>6 DEF Met
<1>8. ASSUME PsyncCur(q, o, a) PROVE Goal
  <2>1. q.mode = "psync" /\ f <= p + 1 /\ a = Continue(q.replid, -1, o, NoLimit) /\ PsyncIds(q) = q
    BY <1>1, <1>8 DEF PsyncCur, PsyncIds
  <2>2. a.type = "continue" /\ a.replid = q.replid /\ a.offset = o /\ a.limit = NoLimit
    BY <2>1, ContinueIs
  <2> DEFINE n == e - p
  <2>3. n \in Nat /\ p + n <= e /\ n = e - p
    BY <1>1, <1>2
  <2> HIDE DEF n
  <2>4. Asks(q, a, p, n)
    <3>1. n = IF a.limit = NoLimit THEN q.offset - p ELSE a.limit
      BY <1>1, <2>2, <2>3
    <3>2. a.offset >= q.boff /\ p = a.offset - 1
      BY <1>1, <1>2, <2>2
    <3> QED BY <2>2, <3>1, <3>2 DEF Asks
  <2>5. Stems(q, p, n, Becomes(R, a))
    <3>1. PsyncFrom(q, p, n)
      BY <1>1, <2>1 DEF PsyncFrom
    <3> DEFINE z == Becomes(R, a)
    <3>2. /\ z.mode = "psync" /\ z.data = DataAt(q, p) /\ z.offset = p
          /\ z.replid = PsyncIds(q).replid
      BY <1>1, <1>7, <2>1, <2>2, BecomesIs
    <3> HIDE DEF z
    <3>3. p + n <= q.offset
      BY <1>1, <2>3
    <3> QED BY <1>3, <2>3, <3>1, <3>2, <3>3, PsyncStems DEF z
  <2>6. AnswerOK(H, N, R, a)
    BY <1>0, <1>6, <1>7, <2>1, <2>2 DEF AnswerOK, IdsOK, Met
  <2> QED BY <2>4, <2>5, <2>6 DEF Right
<1>9. ASSUME PsyncPrev(q, o, a) PROVE Goal
  <2>1. /\ q.mode = "xsync" /\ q.prev.mode = "psync" /\ q.prev.from <= p + 1 /\ o < f
        /\ a = Continue(q.prev.replid, -1, o, f - o) /\ PsyncIds(q) = q.prev
    BY <1>1, <1>9 DEF PsyncPrev, PsyncIds, PrevLimit
  <2>2. a.type = "continue" /\ a.replid = q.prev.replid /\ a.offset = o /\ a.limit = f - o
    BY <2>1, ContinueIs
  <2> DEFINE n == f - o
  <2>3. n \in Nat /\ p + n <= e /\ n = f - o /\ p + n < f /\ n # NoLimit
    BY <1>1, <1>4, <2>1
  <2> HIDE DEF n
  <2>4. Asks(q, a, p, n)
    <3>1. a.limit = n /\ a.limit # NoLimit
      BY <2>2, <2>3
    <3>2. a.offset >= q.boff /\ p = a.offset - 1
      BY <1>1, <1>2, <2>2
    <3> QED BY <2>3, <3>1, <3>2 DEF Asks
  <2>5. Stems(q, p, n, Becomes(R, a))
    <3>1. PsyncFrom(q, p, n)
      BY <1>1, <2>1, <2>3 DEF PsyncFrom
    <3> DEFINE z == Becomes(R, a)
    <3>2. /\ z.mode = "psync" /\ z.data = DataAt(q, p) /\ z.offset = p
          /\ z.replid = PsyncIds(q).replid
      BY <1>1, <1>7, <2>1, <2>2, BecomesIs
    <3> HIDE DEF z
    <3>3. p + n <= q.offset
      BY <1>1, <2>3
    <3> QED BY <1>3, <2>3, <3>1, <3>2, <3>3, PsyncStems DEF z
  <2>6. AnswerOK(H, N, R, a)
    <3>1. q.prev # Unset
      BY <2>1 DEF Unset
    <3> QED BY <1>0, <1>6, <1>7, <2>1, <2>2, <3>1 DEF AnswerOK, IdsOK, Met
  <2> QED BY <2>4, <2>5, <2>6 DEF Right
<1>10. ASSUME PsyncSwitch(q, o, a) PROVE Goal
  <2> DEFINE cont == q.executed \ Gtids(Index!From(q.idx, o))
             reploff == q.delta + o - 1
  <2>1. /\ q.mode = "xsync" /\ o = f /\ a = Xcontinue(q.replid, reploff, o, NoLimit, cont)
    BY <1>1, <1>10 DEF PsyncSwitch
  <2>2. cont = GtidsAt(q, p)
    BY <1>1, GtidsBefore
  <2> HIDE DEF cont, reploff
  <2>3. /\ a.type = "xcontinue" /\ a.replid = q.replid /\ a.offset = o /\ a.limit = NoLimit
        /\ a.cont = cont
    BY <2>1, XcontinueIs
  <2> DEFINE n == e - p
  <2>4. n \in Nat /\ p + n <= e /\ n = e - p /\ f <= p + 1
    BY <1>1, <1>2, <2>1
  <2> HIDE DEF n
  <2>5. Asks(q, a, p, n)
    <3>1. n = IF a.limit = NoLimit THEN q.offset - p ELSE a.limit
      BY <1>1, <2>3, <2>4
    <3>2. a.offset >= q.boff /\ p = a.offset - 1
      BY <1>1, <1>2, <2>3
    <3> QED BY <2>3, <3>1, <3>2 DEF Asks
  <2>6. Stems(q, p, n, Becomes(R, a))
    <3>1. XsyncFrom(q, p, n)
      BY <1>1, <2>1, <2>4 DEF XsyncFrom
    <3> DEFINE z == Becomes(R, a)
    <3>2. z.mode = "xsync" /\ z.data = DataAt(q, p) /\ z.executed = GtidsAt(q, p)
      BY <1>7, <2>2, <2>3, BecomesIs
    <3> HIDE DEF z
    <3>3. p + n <= q.offset
      BY <1>1, <2>4
    <3> QED BY <1>3, <2>4, <3>1, <3>2, <3>3, XsyncStems DEF z
  <2>7. AnswerOK(H, N, R, a)
    BY <1>0, <1>7, <2>3 DEF AnswerOK, IdsOK
  <2> QED BY <2>5, <2>6, <2>7 DEF Right
<1> QED BY <1>2, <1>8, <1>9, <1>10

\* What an xsync replica lacks is what the stream has from a point on.
LEMMA LackingIs ==
  ASSUME NEW G, NEW q \in ServerState(G), StreamOK(q), ShapeOK(q), NEW need,
         NEW L, L = Index!Lacking(q.idx, need),
         NEW o, o = ContinuePoint(q, L), NEW p \in Int, p = o - 1
  PROVE  GtidsAt(q, p) = q.executed \ Gtids(L)
<1>1. L \in SUBSET q.idx
  BY DEF Index!Lacking
<1>2. o \in Int /\ p + 1 = o
  BY <1>1, ContinuePointIs
<1>3. /\ \A e \in q.idx : e.offset \in Int /\ e.offset <= q.offset
      /\ q.offset \in Int /\ q.from \in Int
      /\ q.mode = "psync" => \A e \in q.idx : e.offset < q.from
  BY FieldTypes DEF ShapeOK
<1>4. {e \in q.idx : e.offset > p} = L
  <2>1. CASE L = {}
    <3>1. (o = q.from /\ q.mode = "psync") \/ o = q.offset + 1
      BY <2>1 DEF ContinuePoint
    <3>2. ASSUME NEW e \in q.idx PROVE ~(e.offset > p)
      <4>1. e.offset < o
        BY <1>2, <1>3, <3>1
      <4> QED BY <1>2, <1>3, <4>1
    <3> QED BY <2>1, <3>2
  <2>2. CASE L # {}
    <3>1. \E e \in L : \A f \in L : e.offset <= f.offset
      <4>1. L \in SUBSET Entries
        BY <1>1, ServerTypes
      <4>2. PICK b \in Int : \A e \in q.idx : b <= e.offset
        BY DEF StreamOK, BacklogOK
      <4>3. \A e \in L : b <= e.offset
        BY <1>1, <4>2
      <4> QED BY <2>2, <4>1, <4>3, FirstEntry
    <3> DEFINE first == CHOOSE e \in L : \A f \in L : e.offset <= f.offset
    <3>2. first \in L /\ \A f \in L : first.offset <= f.offset
      BY <3>1
    <3>3. o = first.offset
      BY <2>2 DEF ContinuePoint
    <3> HIDE DEF first
    <3>4. \A e \in L : o <= e.offset
      BY <3>2, <3>3
    <3> DEFINE had == {e \in q.idx : e.gno < need[e.uuid]}
    <3>5. L = {e \in q.idx : \A h \in had : h.offset < e.offset}
      BY DEF Index!Lacking
    <3> HIDE DEF had
    <3>6. had \subseteq q.idx
      BY DEF had
    <3>7. ASSUME NEW e \in q.idx, e.offset > p PROVE e \in L
      <4>1. \A h \in had : h.offset < first.offset
        BY <3>2, <3>5
      <4>2. o <= e.offset
        BY <1>2, <1>3, <3>7
      <4>3. \A h \in had : h.offset < e.offset
        BY <1>2, <1>3, <3>3, <3>6, <4>1, <4>2
      <4> QED BY <3>5, <4>3
    <3>8. ASSUME NEW e \in L PROVE e \in q.idx /\ e.offset > p
      <4>1. e \in q.idx /\ o <= e.offset
        BY <1>1, <3>4
      <4> QED BY <1>2, <1>3, <4>1
    <3> QED BY <3>7, <3>8
  <2> QED BY <2>1, <2>2
<1> QED BY <1>4 DEF GtidsAt

\* The answers to an XSYNC but for a full resync.
XsyncCur(q, o, S, a) ==
    q.mode = "xsync" /\ q.from <= o /\ a = Xcontinue(q.replid, q.delta + o - 1, o, NoLimit, S)
XsyncPrev(q, o, S, a) ==
    /\ q.mode = "psync" /\ q.prev.mode = "xsync" /\ q.prev.from <= o /\ o < q.from
    /\ a = Xcontinue(q.prev.replid, q.prev.delta + o - 1, o, PrevLimit(q, o), S)
XsyncSwitch(q, o, a) ==
    /\ q.mode = "psync" /\ q.prev.mode = "xsync" /\ o = q.from
    /\ a = Continue(q.replid, o - 1, o, NoLimit)

\* Only what q can continue is answered so.
LEMMA XsyncAnswerIs ==
  ASSUME NEW G, NEW q \in ServerState(G), StreamOK(q), ShapeOK(q), NEW S, NEW force,
         NEW a, a = masterAnaXsyncRequest(q, S, force), a # Full
  PROVE  \E p \in Int :
            /\ S # {} /\ GtidsAt(q, p) = S /\ p <= q.offset /\ (~q.backlog => p = q.offset)
            /\ XsyncCur(q, p + 1, S, a) \/ XsyncPrev(q, p + 1, S, a) \/ XsyncSwitch(q, p + 1, a)
<1> DEFINE L == Index!Lacking(q.idx, Need(S))
           o == ContinuePoint(q, L)
           type == locateServerReplMode(q, "xsync", o)
           cont == q.executed \ Gtids(L)
           p == o - 1
<1>1. L \in SUBSET q.idx
  BY DEF Index!Lacking
<1>2. /\ ~force /\ gtidSetRelated(q, S) /\ type # "invalid" /\ cont = S
  BY DEF masterAnaXsyncRequest
<1>3. /\ type = "prev" => a = Xcontinue(q.prev.replid, q.prev.delta + o - 1, o, PrevLimit(q, o), S)
      /\ type = "switch" => a = Continue(q.replid, o - 1, o, NoLimit)
      /\ type = "cur" => a = Xcontinue(q.replid, q.delta + o - 1, o, NoLimit, S)
  BY <1>2 DEF masterAnaXsyncRequest
<1>4. S # {}
  BY <1>2 DEF gtidSetRelated
<1>5. o \in Int /\ o <= q.offset + 1 /\ (~q.backlog => o = q.offset + 1)
  <2>1. ~q.backlog => L = {}
    BY <1>1 DEF ShapeOK
  <2>2. ~q.backlog => o = q.offset + 1
    BY <2>1 DEF ContinuePoint
  <2> HIDE DEF L
  <2> QED BY <1>1, <2>2, ContinuePointIs
<1>6. Located(q, "xsync", o, type)
  <2> HIDE DEF o
  <2> QED BY <1>5, LocatedAt
<1>7. GtidsAt(q, p) = S
  <2>1. p \in Int
    BY <1>5
  <2> HIDE DEF L, o
  <2>2. GtidsAt(q, p) = q.executed \ Gtids(L)
    BY <2>1, LackingIs DEF L, o
  <2> QED BY <1>2, <2>2
<1> HIDE DEF L, o, type, cont
<1>8. p \in Int /\ p + 1 = o /\ p <= q.offset /\ (~q.backlog => p = q.offset)
  <2>1. q.offset \in Int
    BY ServerTypes
  <2> QED BY <1>5, <2>1
<1>9. /\ q.mode \in {"psync", "xsync"} /\ q.prev.mode # q.mode
      /\ q.prev # Unset => q.prev.mode \in {"psync", "xsync"}
  BY FieldTypes DEF ShapeOK
<1> HIDE DEF p
<1>10. XsyncCur(q, o, S, a) \/ XsyncPrev(q, o, S, a) \/ XsyncSwitch(q, o, a)
  <2>1. type = "cur" => XsyncCur(q, o, S, a)
    BY <1>3, <1>6 DEF XsyncCur, Located
  <2>2. ASSUME type = "prev" PROVE XsyncPrev(q, o, S, a)
    <3>1. q.prev # Unset /\ q.prev.mode = "xsync" /\ q.prev.from <= o /\ o < q.from
      BY <1>6, <2>2 DEF Located
    <3>2. q.mode = "psync"
      BY <1>9, <3>1
    <3> QED BY <1>3, <2>2, <3>1, <3>2 DEF XsyncPrev
  <2>3. ASSUME type = "switch" PROVE XsyncSwitch(q, o, a)
    <3>1. q.prev # Unset /\ "xsync" # q.mode /\ o = q.from
      BY <1>6, <2>3 DEF Located
    <3>2. q.mode = "psync" /\ q.prev.mode = "xsync"
      BY <1>9, <3>1
    <3> QED BY <1>3, <2>3, <3>1, <3>2 DEF XsyncSwitch
  <2> QED BY <1>2, <1>6, <2>1, <2>2, <2>3 DEF Located
<1> QED BY <1>4, <1>7, <1>8, <1>10

\* A backlog made for the answer holds what there is to send: nothing.
LEMMA StemsCreated ==
  ASSUME NEW G, NEW q \in ServerState(G), StreamOK(q), NEW r, r = CreateBacklog(q),
         NEW p, NEW n, NEW z, Stems(q, p, n, z), ~q.backlog => p = q.offset
  PROVE  Stems(r, p, n, z)
<1>1. CASE q.backlog
  BY <1>1 DEF CreateBacklog
<1>2. CASE ~q.backlog
  <2>1. /\ r \in ServerState(G) /\ r.mode = q.mode /\ r.from = q.from /\ r.prev = q.prev
        /\ r.replid = q.replid /\ r.offset = q.offset /\ r.data = q.data /\ r.executed = q.executed
    BY CreateBacklogIs
  <2>2. StreamOK(r)
    BY CreateBacklogOK
  <2>3. /\ r.offset \in Window(r) /\ DataAt(r, r.offset) = r.data
        /\ GtidsAt(r, r.offset) = r.executed
    BY <2>1, <2>2, OffsetIs
  <2>4. DataAt(q, q.offset) = q.data /\ GtidsAt(q, q.offset) = q.executed
    BY OffsetIs
  <2>5. PsyncIds(r).replid = PsyncIds(q).replid
    BY <2>1 DEF PsyncIds
  <2>6. \A o : (InXsync(r, o) <=> InXsync(q, o)) /\ (InPsync(r, o) <=> InPsync(q, o))
    BY <2>1 DEF InXsync, InPsync
  <2>7. p = q.offset
    BY <1>2
  <2>8. n \in Nat /\ p + n <= r.offset /\ z.data = DataAt(q, p) /\ z.mode \in {"psync", "xsync"}
    BY <2>1 DEF Stems
  <2>9. p \in Window(r) /\ DataAt(r, p) = DataAt(q, p) /\ GtidsAt(r, p) = GtidsAt(q, p)
    BY <2>1, <2>3, <2>4, <2>7
  <2>10. z.mode = "xsync" => /\ z.executed = GtidsAt(r, p)
                             /\ \A o \in p..(p + n) : InXsync(r, o)
    BY <2>6, <2>9 DEF Stems
  <2>11. z.mode = "psync" => /\ z.offset = p /\ z.replid = PsyncIds(r).replid
                             /\ \A o \in p..(p + n) : InPsync(r, o)
    BY <2>5, <2>6 DEF Stems
  <2> HIDE DEF Window
  <2> QED BY <2>8, <2>9, <2>10, <2>11 DEF Stems
<1> QED BY <1>1, <1>2

\* What masterAnaXsyncRequest answers leads the replica on.
LEMMA XsyncRight ==
  ASSUME NEW H, NEW X, NEW N, NEW G, FactsOK(H, X, N, G),
         NEW q \in ServerState(G), StreamOK(q), ServerData(H, X, N, q),
         NEW R \in ServerState(G), StreamOK(R), ServerData(H, X, N, R), R.mode = "xsync",
         NEW a, a = masterAnaXsyncRequest(q, R.executed, R.force), a # Full,
         NEW r, r = CreateBacklog(q), a.offset >= r.boff
  PROVE  Right(H, N, r, R, a)
<1>0. ShapeOK(q) /\ IdsOK(N, q)
  BY DEF ServerData
<1> DEFINE S == R.executed
<1>1. PICK p \in Int :
           /\ S # {} /\ GtidsAt(q, p) = S /\ p <= q.offset /\ (~q.backlog => p = q.offset)
           /\ XsyncCur(q, p + 1, S, a) \/ XsyncPrev(q, p + 1, S, a) \/ XsyncSwitch(q, p + 1, a)
  BY <1>0, XsyncAnswerIs
<1>2. PICK o \in Int, e \in Int, f \in Int :
           o = p + 1 /\ e = q.offset /\ f = q.from /\ f <= e + 1 /\ p <= e
  BY <1>1, FieldTypes
<1>3. XsyncCur(q, o, S, a) \/ XsyncPrev(q, o, S, a) \/ XsyncSwitch(q, o, a)
  BY <1>1, <1>2
<1>4. -1 \in Int /\ NoLimit = -1
  BY DEF NoLimit
<1>5. /\ r \in ServerState(G) /\ r.offset = e /\ (q.backlog => r = q)
  BY <1>2, CreateBacklogIs
<1>6. a.offset = o
  <2>1. XsyncCur(q, o, S, a) => a.offset = o
    BY XcontinueIs DEF XsyncCur
  <2>2. XsyncPrev(q, o, S, a) => a.offset = o
    BY XcontinueIs DEF XsyncPrev
  <2>3. XsyncSwitch(q, o, a) => a.offset = o
    BY ContinueIs DEF XsyncSwitch
  <2> QED BY <1>3, <2>1, <2>2, <2>3
<1>7. p \in Window(q)
  <2>1. CASE ~q.backlog
    BY <1>1, <2>1, OffsetIs
  <2>2. CASE q.backlog
    <3>1. q.boff \in Int /\ o >= q.boff
      BY <1>5, <1>6, <2>2, FieldTypes
    <3>2. q.boff - 1 <= p
      BY <1>2, <3>1
    <3> QED BY <1>2, <2>2, <3>2 DEF Window
  <2> QED BY <2>1, <2>2
<1>8. R.data = DataAt(q, p)
  <2>1. InXsync(q, p)
    <3>1. CASE XsyncCur(q, o, S, a)
      <4>1. q.mode = "xsync" /\ f - 1 <= p
        BY <1>2, <3>1 DEF XsyncCur
      <4> QED BY <1>2, <4>1 DEF InXsync
    <3>2. CASE XsyncPrev(q, o, S, a)
      <4>1. q.mode = "psync" /\ q.prev.mode = "xsync" /\ q.prev.from <= o /\ o < f
        BY <1>2, <3>2 DEF XsyncPrev
      <4>2. q.prev.from \in Int
        <5>1. q.prev # Unset
          BY <4>1 DEF Unset
        <5> QED BY <5>1, FieldTypes
      <4>3. q.prev.from - 1 <= p /\ p < f
        BY <1>2, <4>1, <4>2
      <4> QED BY <1>2, <4>1, <4>3 DEF InXsync
    <3>3. CASE XsyncSwitch(q, o, a)
      <4>1. q.mode = "psync" /\ q.prev.mode = "xsync" /\ p = f - 1
        BY <1>2, <3>3 DEF XsyncSwitch
      <4> QED BY <1>2, <4>1 DEF InXsync
    <3> QED BY <1>3, <3>1, <3>2, <3>3
  <2>2. Known(X, GtidsAt(q, p), DataAt(q, p))
    BY <1>7, <2>1 DEF ServerData, GtidFacts
  <2>3. Known(X, R.executed, R.data)
    <3>1. /\ R.offset \in Window(R) /\ InXsync(R, R.offset)
          /\ GtidsAt(R, R.offset) = R.executed /\ DataAt(R, R.offset) = R.data
      BY OffsetIs
    <3>2. Known(X, GtidsAt(R, R.offset), DataAt(R, R.offset))
      BY <3>1 DEF ServerData, GtidFacts
    <3> QED BY <3>1, <3>2
  <2> DEFINE x == <<S, DataAt(q, p)>>
             y == <<S, R.data>>
  <2>4. x \in X /\ y \in X
    BY <1>1, <2>2, <2>3 DEF Known
  <2>5. x[1] = y[1] /\ x[2] = DataAt(q, p) /\ y[2] = R.data
    OBVIOUS
  <2> HIDE DEF x, y
  <2>6. x = y
    BY <2>4, <2>5 DEF FactsOK
  <2> QED BY <2>5, <2>6
<1> HIDE DEF S
<1>9. S = R.executed
  BY DEF S
<1>10. ASSUME NEW n \in Nat, p + n <= e, n = IF a.limit = NoLimit THEN e - p ELSE a.limit,
              Stems(q, p, n, Becomes(R, a)), AnswerOK(H, N, R, a)
       PROVE  Right(H, N, r, R, a)
  <2>1. Asks(r, a, p, n)
    <3>1. n = IF a.limit = NoLimit THEN r.offset - p ELSE a.limit
      BY <1>5, <1>10
    <3>2. p = a.offset - 1 /\ (a.limit # NoLimit => a.limit \in Nat)
      BY <1>2, <1>6, <1>10
    <3> QED BY <3>1, <3>2 DEF Asks
  <2>2. Stems(r, p, n, Becomes(R, a))
    BY <1>1, <1>10, StemsCreated
  <2> QED BY <1>10, <2>1, <2>2 DEF Right
<1>11. ASSUME XsyncCur(q, o, S, a) PROVE Right(H, N, r, R, a)
  <2> DEFINE reploff == q.delta + o - 1
  <2>1. q.mode = "xsync" /\ f <= p + 1 /\ a = Xcontinue(q.replid, reploff, o, NoLimit, S)
    BY <1>2, <1>11 DEF XsyncCur
  <2> HIDE DEF reploff
  <2>2. a.type = "xcontinue" /\ a.replid = q.replid /\ a.limit = NoLimit /\ a.cont = S
    BY <2>1, XcontinueIs
  <2> DEFINE n == e - p
             z == Becomes(R, a)
  <2>3. n \in Nat /\ p + n <= e /\ n = e - p
    BY <1>2
  <2>4. z.mode = "xsync" /\ z.data = DataAt(q, p) /\ z.executed = GtidsAt(q, p)
    BY <1>1, <1>8, <2>2, BecomesIs
  <2> HIDE DEF n, z
  <2>5. XsyncFrom(q, p, n) /\ p + n <= q.offset
    BY <1>2, <2>1, <2>3 DEF XsyncFrom
  <2>6. Stems(q, p, n, z)
    BY <1>7, <2>3, <2>4, <2>5, XsyncStems
  <2>7. AnswerOK(H, N, R, a)
    BY <1>0, <1>9, <2>2 DEF AnswerOK, IdsOK
  <2> QED BY <1>10, <2>2, <2>3, <2>6, <2>7 DEF z
<1>12. ASSUME XsyncPrev(q, o, S, a) PROVE Right(H, N, r, R, a)
  <2> DEFINE reploff == q.prev.delta + o - 1
  <2>1. /\ q.mode = "psync" /\ q.prev.mode = "xsync" /\ q.prev.from <= p + 1 /\ o < f
        /\ a = Xcontinue(q.prev.replid, reploff, o, f - o, S)
    BY <1>2, <1>12 DEF XsyncPrev, PrevLimit
  <2> HIDE DEF reploff
  <2>2. a.type = "xcontinue" /\ a.replid = q.prev.replid /\ a.limit = f - o /\ a.cont = S
    BY <2>1, XcontinueIs
  <2> DEFINE n == f - o
             z == Becomes(R, a)
  <2>3. n \in Nat /\ p + n <= e /\ n = f - o /\ p + n < f /\ n # NoLimit
    BY <1>2, <1>4, <2>1
  <2>4. z.mode = "xsync" /\ z.data = DataAt(q, p) /\ z.executed = GtidsAt(q, p)
    BY <1>1, <1>8, <2>2, BecomesIs
  <2> HIDE DEF n, z
  <2>5. XsyncFrom(q, p, n) /\ p + n <= q.offset
    BY <1>2, <2>1, <2>3 DEF XsyncFrom
  <2>6. Stems(q, p, n, z)
    BY <1>7, <2>3, <2>4, <2>5, XsyncStems
  <2>7. AnswerOK(H, N, R, a)
    <3>1. q.prev # Unset
      BY <2>1 DEF Unset
    <3> QED BY <1>0, <1>9, <2>2, <3>1 DEF AnswerOK, IdsOK
  <2>8. n = IF a.limit = NoLimit THEN e - p ELSE a.limit
    BY <2>2, <2>3
  <2> QED BY <1>10, <2>3, <2>6, <2>7, <2>8 DEF z
<1>13. ASSUME XsyncSwitch(q, o, a) PROVE Right(H, N, r, R, a)
  <2>1. q.mode = "psync" /\ f <= p + 1 /\ a = Continue(q.replid, p, o, NoLimit) /\ PsyncIds(q) = q
    <3>1. q.mode = "psync" /\ o = f /\ a = Continue(q.replid, o - 1, o, NoLimit)
      BY <1>2, <1>13 DEF XsyncSwitch
    <3>2. f <= p + 1 /\ o - 1 = p
      BY <1>2, <3>1
    <3> QED BY <3>1, <3>2 DEF PsyncIds
  <2>2. a.type = "continue" /\ a.replid = q.replid /\ a.limit = NoLimit /\ a.reploff = p
    BY <2>1, ContinueIs
  <2> DEFINE n == e - p
             z == Becomes(R, a)
  <2>3. n \in Nat /\ p + n <= e /\ n = e - p
    BY <1>2
  <2>4. z.mode = "psync" /\ z.data = DataAt(q, p) /\ z.offset = p /\ z.replid = PsyncIds(q).replid
    BY <1>8, <2>1, <2>2, BecomesIs
  <2> HIDE DEF n, z
  <2>5. PsyncFrom(q, p, n) /\ p + n <= q.offset
    BY <1>2, <2>1, <2>3 DEF PsyncFrom
  <2>6. Stems(q, p, n, z)
    BY <1>7, <2>3, <2>4, <2>5, PsyncStems
  <2>7. AnswerOK(H, N, R, a)
    BY <1>0, <2>2 DEF AnswerOK, IdsOK
  <2> QED BY <1>10, <2>2, <2>3, <2>6, <2>7 DEF z
<1> QED BY <1>3, <1>11, <1>12, <1>13

----------------------------------------------------------------------------
(* The answer of a master.                                                 *)

\* A message before others is read, and the others are left.
LEMMA ConsTail ==
  ASSUME NEW S, NEW m \in S, NEW ch \in Seq(S)
  PROVE  Head(<<m>> \o ch) = m /\ Tail(<<m>> \o ch) = ch
<1> DEFINE d == <<m>> \o ch
           n == Len(ch)
<1>1. /\ d \in Seq(S) /\ Len(d) = n + 1 /\ Head(d) = m /\ d # << >> /\ n \in Nat
      /\ \A i \in 1..n + 1 : i # 1 => d[i] = ch[i - 1]
  BY ChanCons
<1> HIDE DEF d
<1>2. Tail(d) \in Seq(S) /\ Len(Tail(d)) = n /\ \A i \in 1..n : Tail(d)[i] = d[i + 1]
  BY <1>1
<1>3. ASSUME NEW i \in 1..n PROVE Tail(d)[i] = ch[i]
  <2>1. i + 1 \in 1..n + 1 /\ i + 1 # 1 /\ (i + 1) - 1 = i
    BY <1>1
  <2> QED BY <1>1, <1>2, <2>1
<1>4. Tail(d) = ch
  BY <1>1, <1>2, <1>3, SeqEqual
<1> QED BY <1>1, <1>4 DEF d

\* The reply says what the answer is.
LEMMA RepliesSame ==
  ASSUME NEW G, NEW q, NEW R, NEW a, Partial(a, G, q, R), NEW m, NEW g, g = Reply(q, m, a),
         NEW H, NEW N
  PROVE  Becomes(R, g) = Becomes(R, a) /\ (AnswerOK(H, N, R, a) => AnswerOK(H, N, R, g))
<1>1. CASE a.type = "continue"
  <2>1. /\ g.type = "continue" /\ g.replid = a.replid /\ g.reploff = a.reploff
    BY <1>1 DEF Reply
  <2> QED BY <1>1, <2>1 DEF Becomes, AnswerOK
<1>2. CASE a.type # "continue"
  <2>1. a.type = "xcontinue"
    BY <1>2 DEF Partial
  <2>2. /\ g.type = "xcontinue" /\ g.replid = a.replid /\ g.reploff = a.reploff /\ g.cont = a.cont
    BY <1>2 DEF Reply
  <2> QED BY <2>1, <2>2 DEF Becomes, AnswerOK
<1> QED BY <1>1, <1>2

\* The connection of a replica that is continued.
LEMMA RightLink ==
  ASSUME NEW H, NEW X, NEW N, NEW G, NEW r \in ServerState(G), StreamOK(r), r.backlog,
         ServerData(H, X, N, r), NEW R \in ServerState(G), NEW a, Partial(a, G, r, R),
         Right(H, N, r, R, a), NEW m,
         NEW c, c = [link |-> "wait", attached |-> (a.limit = NoLimit),
                     chan |-> <<Reply(r, m, a)>> \o Backlog(r, a)]
  PROVE  LinkData(H, X, N, c, R, r)
<1> DEFINE g == Reply(r, m, a)
           L == Backlog(r, a)
           z == Becomes(R, a)
<1>1. PICK p, n : Asks(r, a, p, n) /\ Stems(r, p, n, z)
  BY DEF Right
<1>2. Sends(G, r, a, p, n, L)
  BY <1>1, BacklogCarries
<1>3. g \in Messages(G)
  BY ReplyIs
<1>4. Becomes(R, g) = z /\ AnswerOK(H, N, R, g)
  BY RepliesSame DEF Right
<1> HIDE DEF L, g, z
<1>5. /\ L \in Seq(Messages(G)) /\ Len(L) \in Nat /\ Carries(r, p, n, L)
      /\ a.limit = NoLimit => Len(L) = n /\ p + n = r.offset
  BY <1>2 DEF Sends
<1>6. c.link = "wait" /\ c.attached = (a.limit = NoLimit) /\ Head(c.chan) = g /\ Tail(c.chan) = L
  <2>1. c.chan = <<g>> \o L
    BY DEF g, L
  <2>2. c.link = "wait" /\ c.attached = (a.limit = NoLimit)
    OBVIOUS
  <2> QED BY <1>3, <1>5, <2>1, <2>2, ConsTail
<1>7. Start(c, R) = z /\ Rest(c) = L
  BY <1>4, <1>6 DEF Start, Rest
<1>8. StartOK(H, X, z)
  BY <1>1, SentStart
<1>9. PendingOK(H, X, z, L)
  BY <1>1, <1>5, SentPending
<1>10. c.attached => Ends(z, L, r)
  <2> SUFFICES ASSUME a.limit = NoLimit PROVE Ends(z, L, r)
    BY <1>6
  <2>1. Len(L) = n /\ p + n = r.offset
    BY <1>5
  <2> QED BY <1>1, <1>5, <2>1, SentEnds
<1> QED BY <1>4, <1>6, <1>7, <1>8, <1>9, <1>10 DEF LinkData

\* The connection of a replica that gets a full resync.
LEMMA FullLink ==
  ASSUME NEW H, NEW X, NEW N, NEW G, NEW r \in ServerState(G), StreamOK(r), r.backlog,
         ServerData(H, X, N, r), NEW R, NEW m,
         NEW c, c = [link |-> "wait", attached |-> TRUE, chan |-> <<FullResync(r, m)>>]
  PROVE  LinkData(H, X, N, c, R, r)
<1> DEFINE g == FullResync(r, m)
           z == Becomes(R, g)
<1>1. /\ r.mode \in {"psync", "xsync"} /\ r.offset \in Int
      /\ r.offset \in Window(r) /\ DataAt(r, r.offset) = r.data
      /\ GtidsAt(r, r.offset) = r.executed
      /\ r.mode = "xsync" => InXsync(r, r.offset)
      /\ r.mode = "psync" => InPsync(r, r.offset) /\ PsyncIds(r) = r
  BY OffsetIs, FieldTypes DEF PsyncIds
<1>2. /\ g.type = IF r.mode = "psync" THEN "fullresync" ELSE "xfullresync"
      /\ g.replid = r.replid /\ g.data = r.data
      /\ r.mode = "psync" => g.reploff = r.offset
      /\ r.mode = "xsync" => g.executed = r.executed
  BY DEF FullResync
<1> HIDE DEF g
<1>3. /\ z.mode = r.mode /\ z.data = r.data /\ z.replid = r.replid
      /\ r.mode = "psync" => z.offset = r.offset
      /\ r.mode = "xsync" => z.executed = r.executed
  BY <1>1, <1>2 DEF Becomes
<1> HIDE DEF z
<1>4. StartOK(H, X, z)
  BY <1>1, <1>3 DEF StartOK, ServerData, IdFacts, GtidFacts
<1>5. c.link = "wait" /\ c.chan = <<g>> /\ Head(c.chan) = g /\ Tail(c.chan) = << >>
  BY DEF g
<1>6. Start(c, R) = z /\ Rest(c) = << >>
  BY <1>5 DEF Start, Rest, z
<1>7. AnswerOK(H, N, R, g)
  <2>1. r.replid \in 1..N
    BY DEF ServerData, IdsOK
  <2> QED BY <1>2, <2>1 DEF AnswerOK
<1>8. PendingOK(H, X, z, << >>)
  BY DEF PendingOK
<1>9. Ends(z, << >>, r)
  BY <1>3 DEF Ends
<1> QED BY <1>4, <1>5, <1>6, <1>7, <1>8, <1>9 DEF LinkData

\* A master m that is r when it answers, with the facts F.
Prepares(H, X, F, m, r) ==
    /\ r \in ServerState(given) /\ StreamOK(r) /\ r.backlog /\ r.offset \in Int
    /\ r.data = srv[m].data /\ r.executed = srv[m].executed
    /\ ids' \in Nat /\ ids <= ids'
    /\ FactsOK(H \cup F, X \cup {}, ids', given)
    /\ \A t \in Servers : t # m => Late(F, srv[t], Solo(t))
    /\ KeepsSolo(m, r, master[m] = None \/ ~r.backlog)
    /\ KeepsSecond(m, r, master[m] = None \/ ~r.backlog)
    /\ master[m] = None /\ r.mode = "psync" =>
          \A h \in H \cup F : h[1] = r.replid => h[2] <= r.offset
    /\ ServerData(H \cup F, X \cup {}, ids', r)
    /\ srv[m].backlog => F = {} /\ r = srv[m]

\* One that has a backlog.
LEMMA PreparesSame ==
  ASSUME IInv, NEW H, NEW X, Data(H, X), NEW m \in Servers, NEW r, r = srv[m], r.backlog,
         ids' = ids, given' = given
  PROVE  Prepares(H, X, {}, m, r)
<1>1. /\ r \in ServerState(given) /\ StreamOK(r) /\ r.offset \in Int /\ ids \in Nat
      /\ ServerData(H, X, ids, r) /\ r.mode \in {"psync", "xsync"}
  BY DataIs
<1>2. ids' \in Nat /\ ids <= ids' /\ given \subseteq given'
  BY <1>1
<1>3. FactsOK(H \cup {}, X \cup {}, ids', given)
  BY <1>2, FactsSame
<1>4. KeepsSolo(m, r, master[m] = None \/ ~r.backlog)
  BY <1>1 DEF KeepsSolo, Solo
<1>5. KeepsSecond(m, r, master[m] = None \/ ~r.backlog)
  BY DEF KeepsSecond
<1>6. H \cup {} = H /\ X \cup {} = X
  OBVIOUS
<1>7. ServerData(H \cup {}, X \cup {}, ids', r)
  BY <1>1, <1>6
<1>8. master[m] = None /\ r.mode = "psync" =>
         \A h \in H \cup {} : h[1] = r.replid => h[2] <= r.offset
  BY <1>6 DEF Data, SoloOK
<1>9. \A t \in Servers : t # m => Late({}, srv[t], Solo(t))
  BY LateNone
<1> QED BY <1>1, <1>2, <1>3, <1>4, <1>5, <1>7, <1>8, <1>9 DEF Prepares

\* One that creates a backlog for its own history.
LEMMA PreparesCreated ==
  ASSUME IInv, NEW H, NEW X, Data(H, X), NEW m \in Servers, ~srv[m].backlog,
         NEW r, r = CreateBacklog(srv[m]), ids' = ids, given' = given
  PROVE  \E F : Prepares(H, X, F, m, r)
<1> DEFINE q == srv[m]
           f == <<q.replid, q.offset, q.data>>
           F == IF q.mode = "psync" THEN {f} ELSE {}
<1>1. /\ q \in ServerState(given) /\ StreamOK(q) /\ q.offset \in Int /\ ids \in Nat
      /\ ServerData(H, X, ids, q) /\ q.mode \in {"psync", "xsync"}
      /\ FactsOK(H, X, ids, given) /\ q.replid \in 1..ids
  BY DataIs DEF ServerData, IdsOK
<1>2. /\ r \in ServerState(given) /\ StreamOK(r) /\ Backlogged(q, r) /\ r.backlog
      /\ r.mode = q.mode /\ r.replid = q.replid /\ r.offset = q.offset /\ r.data = q.data
      /\ r.executed = q.executed
  <2>1. r \in ServerState(given) /\ StreamOK(r) /\ Backlogged(q, r)
    BY <1>1, BackloggedIs
  <2> QED BY <2>1 DEF Backlogged
<1>3. ids' \in Nat /\ ids <= ids'
  BY <1>1
<1>4. q.data \in Seq(Nat)
  BY <1>1, ServerTypes
<1>5. q.mode = "psync" => \A h \in H : h[1] # q.replid
  BY <1>1 DEF ServerData
<1> HIDE DEF f
<1>6. f[1] = q.replid /\ f[2] = q.offset /\ f[3] = q.data /\ f \in (1..ids) \X Int \X Seq(Nat)
  BY <1>1, <1>4 DEF f
<1>7. FactsOK(H \cup F, X \cup {}, ids', given)
  <2>1. F \in SUBSET ((1..ids) \X Int \X Seq(Nat)) /\ {} \in SUBSET ((SUBSET given) \X Seq(Nat))
    BY <1>6
  <2>2. \A g \in F : \A h \in H \cup F : g[1] = h[1] /\ g[2] = h[2] => g = h
    BY <1>5, <1>6
  <2>3. given \subseteq given /\ ids <= ids
    BY <1>1
  <2> HIDE DEF F
  <2> QED BY <1>1, <2>1, <2>2, <2>3, FactsNew
<1>8. ASSUME NEW t \in Servers, t # m PROVE Late(F, srv[t], Solo(t))
  <2>1. CASE q.mode = "psync"
    <3>1. Solo(m)
      BY DEF Solo
    <3>2. F = {<<srv[m].replid, q.offset, q.data>>}
      BY <2>1 DEF f
    <3>3. srv[m].backlog => q.offset = srv[m].offset + 1
      OBVIOUS
    <3> HIDE DEF F
    <3> QED BY <1>1, <1>8, <2>1, <3>1, <3>2, <3>3, LateOwn
  <2>2. CASE q.mode # "psync"
    <3>1. F = {}
      BY <2>2
    <3> HIDE DEF F
    <3> QED BY <3>1, LateNone
  <2> QED BY <2>1, <2>2
<1>9. KeepsSolo(m, r, master[m] = None \/ ~r.backlog)
  BY <1>1, <1>2 DEF KeepsSolo, Solo
<1>10. KeepsSecond(m, r, master[m] = None \/ ~r.backlog)
  <2>1. HasPsync(r) => HasPsync(q) /\ PsyncIds(r).replid2 = PsyncIds(q).replid2
                                   /\ PsyncIds(r).off2 = PsyncIds(q).off2
    BY <1>2 DEF HasPsync, PsyncIds, Backlogged
  <2> QED BY <2>1 DEF KeepsSecond
<1>11. ASSUME r.mode = "psync", NEW h \in H \cup F, h[1] = r.replid PROVE h[2] <= r.offset
  <2>1. h = f
    BY <1>2, <1>5, <1>11
  <2> QED BY <1>1, <1>2, <1>6, <2>1
<1>12. ServerData(H \cup F, X \cup {}, ids', r)
  <2>1. PICK N \in Nat : N = ids
    BY <1>1
  <2>2. q.mode = "psync" => <<q.replid, q.offset, q.data>> \in H \cup F
    BY DEF f
  <2>3. HasPsync(q) => Joined(H \cup F, PsyncIds(q))
    <3>1. HasPsync(q) => Joined(H, PsyncIds(q))
      BY <1>1 DEF ServerData
    <3>2. CASE q.mode = "psync"
      <4>1. F = {f} /\ PsyncIds(q) = q /\ Joined(H, q)
        BY <3>1, <3>2 DEF PsyncIds, HasPsync
      <4>2. f = <<f[1], f[2], f[3]>>
        BY <1>6
      <4>3. ASSUME NEW h \in H \cup F, q.replid2 # NoId, h[1] = q.replid2, h[2] < q.off2
            PROVE  <<q.replid, h[2], h[3]>> \in H \cup F
        <5>1. CASE h \in H
          BY <4>1, <4>3, <5>1 DEF Joined
        <5>2. CASE h = f
          BY <1>6, <4>1, <4>2, <5>2
        <5> QED BY <4>1, <4>3, <5>1, <5>2
      <4> QED BY <4>1, <4>3 DEF Joined
    <3>3. CASE q.mode # "psync"
      <4>1. H \cup F = H
        BY <3>3
      <4> HIDE DEF F
      <4> QED BY <3>1, <4>1
    <3> QED BY <3>2, <3>3
  <2>4. H \subseteq H \cup F /\ X \subseteq X \cup {} /\ N <= N
    OBVIOUS
  <2> HIDE DEF F, q
  <2>5. ServerData(H, X, N, q) /\ ~q.backlog /\ r = CreateBacklog(q)
    BY <1>1, <2>1 DEF q
  <2>6. ServerData(H \cup F, X \cup {}, N, r)
    BY <1>1, <2>2, <2>3, <2>4, <2>5, CreatedData
  <2> QED BY <2>1, <2>6
<1> HIDE DEF F
<1>13. Prepares(H, X, F, m, r)
  BY <1>1, <1>2, <1>3, <1>7, <1>8, <1>9, <1>10, <1>11, <1>12 DEF Prepares
<1> QED BY <1>13

\* One that begins a history with a full resync.
LEMMA PreparesNew ==
  ASSUME IInv, NEW H, NEW X, Data(H, X), NEW m \in Servers, ~srv[m].backlog,
         NEW r, r = CreateBacklog(SetReplId(srv[m], ids + 1)), ids' = ids + 1, given' = given
  PROVE  \E F : Prepares(H, X, F, m, r)
<1> DEFINE q == srv[m]
           f == <<ids + 1, q.offset, q.data>>
           F == IF q.mode = "psync" THEN {f} ELSE {}
<1>1. /\ q \in ServerState(given) /\ StreamOK(q) /\ q.offset \in Int /\ ids \in Nat
      /\ ServerData(H, X, ids, q) /\ q.mode \in {"psync", "xsync"}
      /\ FactsOK(H, X, ids, given) /\ \A h \in H : h[1] \in 1..ids
  BY DataIs
<1>2. ids' \in Nat /\ ids <= ids' /\ ids + 1 \in Nat /\ ids + 1 \in 1..ids' /\ ids + 1 \notin 1..ids
  BY <1>1
<1>3. /\ r \in ServerState(given) /\ StreamOK(r) /\ r.backlog
      /\ r.mode = q.mode /\ r.prev = q.prev /\ r.offset = q.offset /\ r.data = q.data
      /\ r.executed = q.executed /\ r.replid = ids + 1 /\ r.replid2 = NoId
  <2> DEFINE u == SetReplId(q, ids + 1)
  <2>1. /\ u \in ServerState(given) /\ u.mode = q.mode /\ u.prev = q.prev /\ u.offset = q.offset
        /\ u.data = q.data /\ u.executed = q.executed /\ u.replid = ids + 1
        /\ u.from = q.from /\ u.delta = q.delta /\ u.idx = q.idx /\ u.backlog = q.backlog
        /\ u.boff = q.boff /\ u.items = q.items
    <3> HIDE DEF q
    <3> QED BY <1>1, <1>2, SetReplIdIs
  <2>2. u.replid2 = NoId
    BY <1>1, <1>2 DEF SetReplId, ServerState
  <2>3. r = CreateBacklog(u)
    OBVIOUS
  <2> HIDE DEF u
  <2>4. StreamOK(u)
    BY <1>1, <2>1 DEF StreamOK, BacklogOK
  <2>5. r \in ServerState(given) /\ StreamOK(r) /\ Backlogged(u, r)
    BY <2>1, <2>3, <2>4, BackloggedIs
  <2> QED BY <2>1, <2>2, <2>5 DEF Backlogged
<1>4. q.data \in Seq(Nat)
  BY <1>1, ServerTypes
<1> HIDE DEF f
<1>5. f[1] = ids + 1 /\ f[2] = q.offset /\ f \in (1..ids') \X Int \X Seq(Nat)
  BY <1>1, <1>2, <1>4 DEF f
<1>6. \A h \in H : h[1] # ids + 1
  BY <1>1, <1>2
<1>7. FactsOK(H \cup F, X \cup {}, ids', given)
  <2>1. F \in SUBSET ((1..ids') \X Int \X Seq(Nat)) /\ {} \in SUBSET ((SUBSET given) \X Seq(Nat))
    BY <1>5
  <2>2. \A g \in F : \A h \in H \cup F : g[1] = h[1] /\ g[2] = h[2] => g = h
    BY <1>5, <1>6
  <2> HIDE DEF F
  <2> QED BY <1>1, <1>2, <2>1, <2>2, FactsNew
<1>8. ASSUME NEW t \in Servers PROVE Late(F, srv[t], Solo(t))
  <2>1. \A g \in F : g[1] = ids + 1
    BY <1>5
  <2> HIDE DEF F
  <2> QED BY <2>1, LateNew
<1>9. KeepsSolo(m, r, master[m] = None \/ ~r.backlog)
  BY <1>3 DEF KeepsSolo
<1>10. KeepsSecond(m, r, master[m] = None \/ ~r.backlog)
  <2>1. q.mode = "psync" => PsyncIds(r).replid2 = NoId
    BY <1>3 DEF PsyncIds
  <2>2. q.mode # "psync" => (HasPsync(r) => HasPsync(q)) /\ PsyncIds(r) = PsyncIds(q)
    BY <1>3 DEF PsyncIds, HasPsync
  <2> QED BY <2>1, <2>2 DEF KeepsSecond
<1>11. ASSUME r.mode = "psync", NEW h \in H \cup F, h[1] = r.replid PROVE h[2] <= r.offset
  <2>1. h = f
    BY <1>3, <1>6, <1>11
  <2> QED BY <1>1, <1>3, <1>5, <2>1
<1>12. ServerData(H \cup F, X \cup {}, ids', r)
  <2>1. PICK N \in Nat, M \in Nat : N = ids /\ M = ids' /\ M = N + 1
    BY <1>1, <1>2
  <2>2. F = IF q.mode = "psync" THEN {<<M, q.offset, q.data>>} ELSE {}
    BY <2>1 DEF f
  <2> HIDE DEF F, q
  <2>3. /\ ServerData(H, X, N, q) /\ ~q.backlog /\ r = CreateBacklog(SetReplId(q, M))
        /\ \A h \in H : h[1] \in 1..N
    BY <1>1, <2>1 DEF q
  <2>4. ServerData(H \cup F, X, M, r)
    BY <1>1, <2>1, <2>2, <2>3, NewHistoryData
  <2>5. X \cup {} = X
    OBVIOUS
  <2> QED BY <2>1, <2>4, <2>5
<1> HIDE DEF F
<1>13. Prepares(H, X, F, m, r)
  BY <1>1, <1>2, <1>3, <1>7, <1>8, <1>9, <1>10, <1>11, <1>12 DEF Prepares
<1> QED BY <1>13

\* An answer to s, with c the new connection and r its master m.
Answering(H, X, F, s, m, r, c) ==
    /\ Prepares(H, X, F, m, r) /\ m \in Servers /\ m = master[s]
    /\ srv' = [srv EXCEPT ![m] = r] /\ conn' = [conn EXCEPT ![s] = c]
    /\ master[m] # None => conn[m].link = "up"
    /\ master' = master /\ given' = given
    /\ LinkData(H \cup F, X \cup {}, ids', c, srv[s], r)

\* Answering is right.
LEMMA AnsweringStep ==
  ASSUME IInv, NEW H, NEW X, Data(H, X), NEW s \in Servers, NEW F, NEW m, NEW r, NEW c,
         Answering(H, X, F, s, m, r, c)
  PROVE  \E K, Z : Data(K, Z)'
<1>1. /\ m \in Servers /\ m = master[s] /\ m # s /\ m # None
      /\ srv' = [srv EXCEPT ![m] = r] /\ conn' = [conn EXCEPT ![s] = c]
      /\ master' = master /\ given' = given
  BY DataIs, ConstantsAssumption DEF Answering
<1>2. /\ r \in ServerState(given) /\ StreamOK(r) /\ r.backlog /\ r.offset \in Int
      /\ r.data = srv[m].data /\ r.executed = srv[m].executed
      /\ ids' \in Nat /\ ids <= ids'
      /\ FactsOK(H \cup F, X \cup {}, ids', given)
      /\ \A t \in Servers : t # m => Late(F, srv[t], Solo(t))
      /\ ServerData(H \cup F, X \cup {}, ids', r)
      /\ srv[m].backlog => F = {} /\ r = srv[m]
  BY DEF Answering, Prepares
<1>3. srv \in [Servers -> ServerState(given)] /\ conn \in [Servers -> Connection(given)]
  BY DEF IInv, Typed
<1>4. /\ srv'[m] = r /\ conn'[s] = c /\ conn'[m] = conn[m]
      /\ \A t \in Servers : t # m => srv'[t] = srv[t]
      /\ \A t \in Servers : t # s => conn'[t] = conn[t]
  BY <1>1, <1>3
<1>5. ASSUME NEW t \in Servers, t # m
      PROVE  \/ Undisturbed(m, t, r)
             \/ LinkData(H \cup F, X \cup {}, ids', conn'[t], srv'[t], srv'[Up(t)])
  <2>1. CASE t = s
    <3>1. Up(s) = m
      BY <1>1 DEF Up
    <3>2. LinkData(H \cup F, X \cup {}, ids', c, srv[s], r)
      BY DEF Answering
    <3> QED BY <1>1, <1>4, <2>1, <3>1, <3>2
  <2>2. CASE t # s
    BY <1>2, <1>4, <2>2 DEF Undisturbed
  <2> QED BY <2>1, <2>2
<1>6. LinkData(H \cup F, X \cup {}, ids', conn'[m], r, srv'[Up(m)'])
  <2>1. CASE srv[m].backlog
    <3>1. F = {} /\ SameView(srv[m], r)
      BY <1>2, <2>1 DEF SameView
    <3>2. \A f \in F : f[2] \in Int
      BY <3>1
    <3>3. Late(F, srv[m], FALSE) /\ FALSE \in BOOLEAN
      BY <3>1, LateNone
    <3>4. conn'[m] = conn[m] /\ master'[m] = master[m]
      BY <1>1, <1>4
    <3> QED BY <1>1, <1>2, <3>1, <3>2, <3>3, <3>4, OwnLink
  <2>2. CASE ~srv[m].backlog
    <3>1. conn[m].link # "up"
      BY <1>1, <2>2, DataIs
    <3>2. master[m] = None
      BY <3>1 DEF Answering
    <3>3. conn'[m] = Closed
      BY <1>1, <1>4, <3>2, DataIs
    <3> QED BY <3>3, NoLink
  <2> QED BY <2>1, <2>2
<1>7. \A t \in Servers : t # m => master'[t] = master[t]
  BY <1>1
<1>8. /\ KeepsSolo(m, r, master'[m] = None \/ ~r.backlog)
      /\ KeepsSecond(m, r, master'[m] = None \/ ~r.backlog)
      /\ master'[m] = None /\ r.mode = "psync" =>
            \A h \in H \cup F : h[1] = r.replid => h[2] <= r.offset
  BY <1>1 DEF Answering, Prepares
<1>9. FactsOK(H \cup F, X \cup {}, ids', given')
  BY <1>1, <1>2
<1>10. Advances(H, X, F, {}, m, r)
  BY <1>1, <1>2, <1>5, <1>6, <1>7, <1>8, <1>9 DEF Advances
<1> QED BY <1>1, <1>10, DataStep

\* What a master answers leads the replica on, whatever it asked.
LEMMA AnswerRight ==
  ASSUME IInv, NEW H, NEW X, Data(H, X), NEW s \in Servers, NEW m \in Servers,
         NEW q, q = srv[m], NEW a, a = masterAnaSyncRequest(q, srv[s]), a # Full,
         NEW r, r = CreateBacklog(q), a.offset >= r.boff, NEW F, q.backlog => F = {}
  PROVE  Right(H \cup F, ids, r, srv[s], a)
<1> DEFINE R == srv[s]
<1>1. /\ q \in ServerState(given) /\ StreamOK(q) /\ ServerData(H, X, ids, q)
      /\ R \in ServerState(given) /\ StreamOK(R) /\ ServerData(H, X, ids, R)
      /\ R.mode \in {"psync", "xsync"} /\ FactsOK(H, X, ids, given) /\ Solo(s) \in BOOLEAN
  BY DataIs
<1>2. HasPsync(q) => Settled(PsyncIds(q), R, Solo(s))
  BY DEF Data, SoloOK
<1>3. ~R.backlog => Solo(s)
  BY DEF Solo
<1>4. CASE R.mode = "psync"
  <2>1. a = masterAnaPsyncRequest(q, R.replid, R.offset + 1)
    BY <1>4 DEF masterAnaSyncRequest
  <2> HIDE DEF R
  <2>2. q.backlog /\ Right(H, ids, q, R, a)
    BY <1>1, <1>2, <1>3, <1>4, <2>1, PsyncRight
  <2>3. r = q /\ H \cup F = H
    BY <2>2 DEF CreateBacklog
  <2> QED BY <2>2, <2>3 DEF R
<1>5. CASE R.mode = "xsync"
  <2>1. a = masterAnaXsyncRequest(q, R.executed, R.force)
    BY <1>5 DEF masterAnaSyncRequest
  <2> HIDE DEF R
  <2>2. Right(H, ids, r, R, a)
    BY <1>1, <1>5, <2>1, XsyncRight
  <2>3. AnswerOK(H, ids, R, a)
    BY <2>2 DEF Right
  <2>4. AnswerOK(H \cup F, ids, R, a)
    BY <1>5, <2>3 DEF AnswerOK
  <2>5. Right(H \cup F, ids, r, R, a)
    BY <2>2, <2>4 DEF Right
  <2> QED BY <2>5 DEF R
<1> QED BY <1>1, <1>4, <1>5

\* A request of a replica, and its answer.
LEMMA SyncData ==
  ASSUME IInv, NEW H, NEW X, Data(H, X), NEW s \in Servers, Sync(s)
  PROVE  \E K, Z : Data(K, Z)'
<1> DEFINE m == master[s]
           q == srv[m]
           a == masterAnaSyncRequest(q, srv[s])
           full == (a = Full /\ ~q.backlog)
           r == CreateBacklog(IF full THEN SetReplId(q, ids + 1) ELSE q)
           limited == a # Full /\ a.limit # NoLimit
           c == [link |-> "wait", attached |-> ~limited,
                 chan |-> IF a = Full THEN <<FullResync(r, m)>>
                           ELSE <<Reply(r, m, a)>> \o Backlog(r, a)]
<1>1. /\ m # None /\ (master[m] # None => conn[m].link = "up")
      /\ a # Full => a.offset >= r.boff
      /\ srv' = [srv EXCEPT ![m] = r]
      /\ ids' = IF r.replid = q.replid THEN ids ELSE ids + 1
      /\ conn' = [conn EXCEPT ![s] = c]
      /\ master' = master /\ given' = given
  BY DEF Sync, history
<1>2. /\ m \in Servers /\ q \in ServerState(given) /\ StreamOK(q) /\ ids \in Nat /\ ids + 1 \in Nat
      /\ srv[s] \in ServerState(given) /\ StreamOK(srv[s])
  BY <1>1, DataIs
<1>3. q.replid \in 1..ids
  BY <1>2, DataIs DEF ServerData, IdsOK
<1>4. /\ r.replid = IF full THEN ids + 1 ELSE q.replid
      /\ ids' = IF full THEN ids + 1 ELSE ids
      /\ r.mode = q.mode /\ r.offset = q.offset /\ r.from = q.from /\ r.delta = q.delta
      /\ ~full => r = CreateBacklog(q)
      /\ full => r = CreateBacklog(SetReplId(q, ids + 1))
  <2> HIDE DEF q, a
  <2>1. ids + 1 # q.replid
    BY <1>2, <1>3
  <2>2. CASE full
    <3>1. r = CreateBacklog(SetReplId(q, ids + 1))
      BY <2>2
    <3> DEFINE u == SetReplId(q, ids + 1)
    <3>2. /\ u \in ServerState(given) /\ u.replid = ids + 1 /\ u.mode = q.mode
          /\ u.offset = q.offset /\ u.from = q.from /\ u.delta = q.delta
      BY <1>2, SetReplIdIs
    <3> HIDE DEF u
    <3>3. /\ r.replid = u.replid /\ r.mode = u.mode /\ r.offset = u.offset
          /\ r.from = u.from /\ r.delta = u.delta
      BY <3>1, <3>2, CreateBacklogIs DEF u
    <3> HIDE DEF r, full
    <3> QED BY <1>1, <2>1, <2>2, <3>1, <3>2, <3>3
  <2>3. CASE ~full
    <3>1. r = CreateBacklog(q)
      BY <2>3
    <3>2. /\ r.replid = q.replid /\ r.mode = q.mode /\ r.offset = q.offset
          /\ r.from = q.from /\ r.delta = q.delta
      BY <1>2, <3>1, CreateBacklogIs
    <3> HIDE DEF r, full
    <3> QED BY <1>1, <2>3, <3>1, <3>2
  <2> QED BY <2>2, <2>3
<1> HIDE DEF r
<1>5. PICK F : Prepares(H, X, F, m, r)
  <2> HIDE DEF a
  <2>1. CASE q.backlog
    <3>1. r = q /\ ids' = ids
      BY <1>4, <2>1 DEF CreateBacklog
    <3>2. Prepares(H, X, {}, m, r)
      BY <1>1, <1>2, <2>1, <3>1, PreparesSame
    <3> QED BY <3>2
  <2>2. CASE ~q.backlog /\ full
    BY <1>1, <1>2, <1>4, <2>2, PreparesNew
  <2>3. CASE ~q.backlog /\ ~full
    BY <1>1, <1>2, <1>4, <2>3, PreparesCreated
  <2> QED BY <2>1, <2>2, <2>3
<1>6. /\ r \in ServerState(given) /\ StreamOK(r) /\ r.backlog
      /\ ServerData(H \cup F, X \cup {}, ids', r)
      /\ q.backlog => F = {}
  BY <1>5 DEF Prepares
<1>7. LinkData(H \cup F, X \cup {}, ids', c, srv[s], r)
  <2>1. CASE a = Full
    <3>1. c = [link |-> "wait", attached |-> TRUE, chan |-> <<FullResync(r, m)>>]
      BY <2>1
    <3> HIDE DEF c, m
    <3> QED BY <1>6, <3>1, FullLink
  <2>2. CASE a # Full
    <3>1. a.offset >= r.boff /\ ~full
      BY <1>1, <2>2
    <3>2. r = CreateBacklog(q) /\ ids' = ids /\ r.replid = q.replid
      BY <1>4, <3>1
    <3> HIDE DEF full
    <3>3. Partial(a, given, q, srv[s])
      <4> HIDE DEF q, a, m
      <4>1. a = masterAnaSyncRequest(q, srv[s])
        BY DEF a
      <4> QED BY <1>2, <2>2, <4>1, AnswerIs
    <3>4. Partial(a, given, r, srv[s])
      <4> HIDE DEF a, q
      <4> QED BY <1>4, <3>2, <3>3 DEF Partial
    <3>5. c = [link |-> "wait", attached |-> (a.limit = NoLimit),
               chan |-> <<Reply(r, m, a)>> \o Backlog(r, a)]
      BY <2>2
    <3>6. Right(H \cup F, ids, r, srv[s], a)
      <4>1. q = srv[m] /\ a = masterAnaSyncRequest(q, srv[s])
        OBVIOUS
      <4> HIDE DEF c, a, q, m
      <4> QED BY <1>2, <1>6, <2>2, <3>1, <3>2, <4>1, AnswerRight
    <3> HIDE DEF c, a, m
    <3>7. Right(H \cup F, ids', r, srv[s], a)
      BY <3>2, <3>6
    <3> QED BY <1>2, <1>6, <3>4, <3>5, <3>7, RightLink
  <2> QED BY <2>1, <2>2
<1> HIDE DEF c, full, a
<1>8. Answering(H, X, F, s, m, r, c)
  BY <1>1, <1>2, <1>5, <1>7 DEF Answering
<1> QED BY <1>8, AnsweringStep

----------------------------------------------------------------------------
(* The beginning and every step.                                           *)

\* A server as it starts has nothing to say.
LEMMA NewData ==
  ASSUME NEW s \in Servers, NEW N \in Nat, NEW id \in 1..N, NEW b \in BOOLEAN,
         NEW r, r = New(s, id, b)
  PROVE  ServerData({}, {}, N, r)
<1>1. /\ r.mode = (IF b THEN "xsync" ELSE "psync") /\ r.from = 1 /\ r.prev = Unset
      /\ r.replid = id /\ r.replid2 = 0 /\ r.offset = 0 /\ ~r.backlog /\ ~r.stale
      /\ r.items = <<>> /\ r.idx = {} /\ r.executed = {}
  BY DEF New, NoId
<1>2. r.prev.mode = "unset"
  BY <1>1 DEF Unset
<1>3. Window(r) = {0}
  BY <1>1 DEF Window
<1>4. ItemsOK(r)
  BY <1>1, <1>3 DEF ItemsOK
<1>5. GtidFacts({}, r)
  BY <1>1 DEF GtidFacts, GtidsAt, Known
<1>6. IdFacts({}, r)
  BY <1>1, <1>2 DEF IdFacts, InPsync
<1>7. ShapeOK(r)
  BY <1>1, <1>2 DEF ShapeOK
<1>8. IdsOK(N, r)
  BY <1>1 DEF IdsOK
<1>9. Joined({}, PsyncIds(r))
  BY DEF Joined
<1> QED BY <1>4, <1>5, <1>6, <1>7, <1>8, <1>9 DEF ServerData

\* The servers as they start.
LEMMA InitData == Init => Data({}, {})
<1> SUFFICES ASSUME Init PROVE Data({}, {})
  OBVIOUS
<1>1. PICK enabled \in [Servers -> BOOLEAN] :
         srv = [s \in Servers |-> New(s, Number[s], enabled[s])]
  BY DEF Init
<1>2. conn = [s \in Servers |-> Closed] /\ ids = Cardinality(Servers)
  BY DEF Init
<1>3. PICK N \in Nat : N = ids
  BY <1>2, ConstantsAssumption, FS_CardinalityType
<1>4. \A s \in Servers : /\ srv[s] = New(s, Number[s], enabled[s])
                         /\ Number[s] \in 1..N /\ enabled[s] \in BOOLEAN
  BY <1>1, <1>2, <1>3, NumberIs
<1>5. \A s \in Servers : ServerData({}, {}, ids, srv[s])
  BY <1>3, <1>4, NewData
<1>6. FactsOK({}, {}, ids, given)
  BY DEF FactsOK
<1>7. \A s \in Servers : srv[s].replid = Number[s] /\ srv[s].replid2 = NoId /\ srv[s].prev = Unset
  <2> SUFFICES ASSUME NEW s \in Servers
               PROVE  srv[s].replid = Number[s] /\ srv[s].replid2 = NoId /\ srv[s].prev = Unset
    OBVIOUS
  <2>1. srv[s] = New(s, Number[s], enabled[s])
    BY <1>4
  <2> QED BY <2>1 DEF New
<1>8. \A s \in Servers : HasPsync(srv[s]) => PsyncIds(srv[s]).replid2 = NoId
  BY <1>7 DEF HasPsync, PsyncIds, Unset
<1>9. SoloOK({})
  BY <1>7, <1>8, NumberIs DEF SoloOK, Settled
<1>10. \A s \in Servers : conn[s].link = "down"
  BY <1>2 DEF Closed
<1>11. \A s \in Servers :
          LinkData({}, {}, ids, conn[s], srv[s], srv[IF master[s] = None THEN s ELSE master[s]])
  BY <1>10 DEF LinkData
<1> QED BY <1>5, <1>6, <1>9, <1>11 DEF Data

\* Nothing of the invariant is about pings, disruptions or behind.
LEMMA StutterData ==
  ASSUME NEW H, NEW X, Data(H, X), UNCHANGED vars
  PROVE  Data(H, X)'
<1>1. UNCHANGED <<srv, master, conn, ids, given>>
  BY DEF vars, history
<1>2. SoloOK(H)'
  BY <1>1 DEF Data, SoloOK, Solo
<1> QED BY <1>1, <1>2 DEF Data

\* What a server does by itself.
LEMMA StepData ==
  ASSUME IInv, NEW H, NEW X, Data(H, X), NEW s \in Servers, Step(s)
  PROVE  \E K, Z : Data(K, Z)'
<1>1. CASE Sync(s)
  BY <1>1, SyncData
<1>2. CASE ReadContinuePsync(s)
  BY <1>2, ReadContinuePsyncData
<1>3. CASE ReadContinueXsync(s)
  BY <1>3, ReadContinueXsyncData
<1>4. CASE ReadXcontinuePsync(s)
  BY <1>4, ReadXcontinuePsyncData
<1>5. CASE ReadXcontinueXsync(s)
  BY <1>5, ReadXcontinueXsyncData
<1>6. CASE ReadFullresync(s)
  BY <1>6, ReadFullresyncData
<1>7. CASE ReadXfullresync(s)
  BY <1>7, ReadXfullresyncData
<1>8. CASE ReadCommand(s)
  BY <1>8, ReadCommandData
<1>9. CASE ReadEof(s)
  BY <1>9, CloseData
<1>10. CASE forceXsyncFullResyncIfNeeded(s)
  BY <1>10, WrongTypeData
<1> QED BY <1>1, <1>2, <1>3, <1>4, <1>5, <1>6, <1>7, <1>8, <1>9, <1>10 DEF Step

\* What servers, clients and operators do.
LEMMA NextData ==
  ASSUME IInv, NEW H, NEW X, Data(H, X), [Next]_vars, reused' = {}, ~hidden'
  PROVE  \E K, Z : Data(K, Z)'
<1>1. CASE UNCHANGED vars
  BY <1>1, StutterData
<1>2. ASSUME NEW s \in Servers, Step(s) PROVE \E K, Z : Data(K, Z)'
  BY <1>2, StepData
<1>3. ASSUME NEW s \in Servers, Write(s) PROVE \E K, Z : Data(K, Z)'
  BY <1>3, WriteData
<1>4. ASSUME NEW s \in Servers, Ping(s) PROVE \E K, Z : Data(K, Z)'
  BY <1>4, PingData
<1>5. ASSUME NEW s \in Servers, SetEnabled(s) PROVE \E K, Z : Data(K, Z)'
  BY <1>5, SetEnabledData
<1>6. ASSUME NEW s \in Servers, Promote(s) PROVE \E K, Z : Data(K, Z)'
  BY <1>6, PromoteData
<1>7. ASSUME NEW s \in Servers, BreakLink(s) PROVE \E K, Z : Data(K, Z)'
  BY <1>7, CloseData
<1>8. ASSUME NEW s \in Servers, DropBacklog(s) PROVE \E K, Z : Data(K, Z)'
  BY <1>8, DropBacklogData
<1>9. ASSUME NEW s \in Servers, WrongType(s) PROVE \E K, Z : Data(K, Z)'
  BY <1>9, WrongTypeData
<1>10. ASSUME NEW s \in Servers, NEW m \in Servers, ReplicaOf(s, m) PROVE \E K, Z : Data(K, Z)'
  BY <1>10, ReplicaOfData
<1> QED BY <1>1, <1>2, <1>3, <1>4, <1>5, <1>6, <1>7, <1>8, <1>9, <1>10 DEF Next

\* No step takes back that a gtid was given twice or that a write went by.
LEMMA SlipsStay ==
  ASSUME [Next]_vars, reused' = {}, ~hidden'
  PROVE  reused = {} /\ ~hidden
<1>1. CASE UNCHANGED vars
  BY <1>1 DEF vars, history
<1>2. ASSUME NEW s \in Servers, Write(s) PROVE reused = {} /\ ~hidden
  <2> DEFINE x == IF srv[s].enabled THEN <<srv[s].uuid, NextGno(srv[s])>> ELSE NoGtid
  <2>1. reused' = reused \cup ({x} \cap given)
    BY <1>2, Zenon DEF Write
  <2>2. hidden' = (hidden \/ (~srv[s].backlog /\ srv[s].prev # Unset
                               /\ srv[s].from = srv[s].offset + 1))
    BY <1>2, Zenon DEF Write
  <2> HIDE DEF x
  <2>3. reused = {}
    BY <2>1
  <2>4. ~hidden
    BY <2>2, Zenon
  <2> QED BY <2>3, <2>4
<1>3. ASSUME NEW s \in Servers, Step(s) PROVE reused' = reused /\ hidden' = hidden
  <2>1. CASE Sync(s)
    BY <2>1 DEF Sync, history
  <2>2. CASE ReadContinuePsync(s)
    BY <2>2 DEF ReadContinuePsync, history
  <2>3. CASE ReadContinueXsync(s)
    BY <2>3 DEF ReadContinueXsync, history
  <2>4. CASE ReadXcontinuePsync(s)
    BY <2>4 DEF ReadXcontinuePsync
  <2>5. CASE ReadXcontinueXsync(s)
    BY <2>5 DEF ReadXcontinueXsync, history
  <2>6. CASE ReadFullresync(s)
    BY <2>6 DEF ReadFullresync
  <2>7. CASE ReadXfullresync(s)
    BY <2>7 DEF ReadXfullresync
  <2>8. CASE ReadCommand(s) \/ ReadEof(s) \/ forceXsyncFullResyncIfNeeded(s)
    BY <2>8 DEF ReadCommand, ReadEof, forceXsyncFullResyncIfNeeded, history
  <2> QED BY <1>3, <2>1, <2>2, <2>3, <2>4, <2>5, <2>6, <2>7, <2>8 DEF Step
<1>4. ASSUME NEW s \in Servers,
             \/ Ping(s) \/ SetEnabled(s) \/ Promote(s) \/ BreakLink(s) \/ DropBacklog(s)
             \/ WrongType(s) \/ \E m \in Servers : ReplicaOf(s, m)
      PROVE  reused' = reused /\ hidden' = hidden
  BY <1>4 DEF Ping, SetEnabled, Promote, BreakLink, DropBacklog, WrongType, ReplicaOf, history
<1> QED BY <1>1, <1>2, <1>3, <1>4 DEF Next

\* What the invariant claims as long as gtids name single writes.
Informed == reused = {} /\ ~hidden => \E H, X : Data(H, X)

\* Replication ids with their offsets, and gtid sets, stand for data: in every
\* backlog, at every server, and in every answer on its way to a replica.
THEOREM DataInvariance == Spec => []Informed
<1>1. Init => Informed
  BY InitData DEF Informed
<1>2. IInv /\ Informed /\ [Next]_vars => Informed'
  <2> SUFFICES ASSUME IInv, Informed, [Next]_vars, reused' = {}, ~hidden'
               PROVE  \E H, X : Data(H, X)'
    BY DEF Informed
  <2>1. PICK H, X : Data(H, X)
    BY SlipsStay DEF Informed
  <2> QED BY <2>1, NextData
<1> QED BY <1>1, <1>2, Invariance, PTL DEF Spec

----------------------------------------------------------------------------
(* SameData.                                                               *)

\* A set of numbers has a smallest one.
LEMMA Smallest ==
  ASSUME NEW T \in SUBSET Nat, T # {}
  PROVE  \E n \in T : \A k \in T : ~(k < n)
<1> DEFINE R == OpToRel(<, Nat)
<1>1. \E n \in T : \A k \in T : ~(<<k, n>> \in R)
  <2> HIDE DEF R
  <2>1. IsWellFoundedOn(R, Nat)
    BY NatLessThanWellFounded DEF R
  <2> QED BY <2>1, WFMin
<1>2. PICK n \in T : \A k \in T : ~(<<k, n>> \in R)
  BY <1>1
<1>3. ASSUME NEW k \in T PROVE ~(k < n)
  <2>1. n \in Nat /\ k \in Nat /\ ~(<<k, n>> \in R)
    BY <1>2
  <2> QED BY <2>1 DEF OpToRel
<1> QED BY <1>3

\* The writes of the first items of I, for every number of them.
Tape(I, w, N) ==
    w = [n \in 0..N |-> IF n = 0 THEN <<>>
                        ELSE IF I[n].write = 0 THEN w[n - 1] ELSE Append(w[n - 1], I[n].write)]

\* There is such a function, so that Writes picks one.
LEMMA TapeExists ==
  ASSUME NEW I, NEW N \in Nat
  PROVE  \E w : Tape(I, w, N)
<1> DEFINE Bad == {n \in Nat : ~\E w : Tape(I, w, n)}
<1>1. SUFFICES ASSUME Bad # {} PROVE FALSE
  OBVIOUS
<1>2. PICK n \in Bad : \A k \in Bad : ~(k < n)
  <2> HIDE DEF Bad
  <2>1. Bad \in SUBSET Nat
    BY DEF Bad
  <2> QED BY <1>1, <2>1, Smallest
<1>3. CASE n = 0
  <2> DEFINE w == [k \in 0..0 |-> <<>>]
  <2>1. Tape(I, w, 0)
    BY DEF Tape
  <2> QED BY <1>3, <2>1
<1>4. CASE n # 0
  <2>1. n \in Nat /\ n - 1 \in Nat /\ n - 1 < n
    BY <1>4
  <2>2. PICK v : Tape(I, v, n - 1)
    BY <1>2, <2>1
  <2> DEFINE w == [k \in 0..n |-> IF k = 0 THEN <<>>
                                  ELSE IF I[k].write = 0 THEN v[k - 1]
                                  ELSE Append(v[k - 1], I[k].write)]
  <2>3. ASSUME NEW k \in 0..(n - 1) PROVE w[k] = v[k]
    <3>1. k \in 0..n
      BY <2>1
    <3> QED BY <2>2, <3>1 DEF Tape
  <2>4. ASSUME NEW k \in 0..n, k # 0 PROVE w[k - 1] = v[k - 1]
    <3>1. k - 1 \in 0..(n - 1)
      BY <2>1, <2>4
    <3> HIDE DEF w
    <3> QED BY <2>3, <3>1
  <2>5. w = [k \in 0..n |-> IF k = 0 THEN <<>>
                            ELSE IF I[k].write = 0 THEN w[k - 1]
                            ELSE Append(w[k - 1], I[k].write)]
    BY <2>4
  <2> HIDE DEF w
  <2>6. Tape(I, w, n)
    BY <2>5 DEF Tape
  <2> QED BY <2>6
<1> QED BY <1>3, <1>4

\* What Writes is.
LEMMA WritesIs ==
  ASSUME NEW I, NEW N \in Nat, N = Len(I)
  PROVE  \E w : Tape(I, w, N) /\ Writes(I) = w[N]
<1> DEFINE w == CHOOSE w : Tape(I, w, N)
<1>1. Tape(I, w, N)
  BY TapeExists
<1>2. Writes(I) = w[N]
  BY DEF Writes, Tape
<1> QED BY <1>1, <1>2

\* A write more at the end.
LEMMA AppendAfter ==
  ASSUME NEW d \in Seq(Nat), NEW s \in Seq(Nat), NEW x \in Nat
  PROVE  Append(s, x) \in Seq(Nat) /\ d \o Append(s, x) = Append(d \o s, x)
<1>1. d \o Append(s, x) \in Seq(Nat) /\ Append(d \o s, x) \in Seq(Nat)
  OBVIOUS
<1>2. Len(d \o Append(s, x)) = Len(Append(d \o s, x))
  OBVIOUS
<1>3. \A i \in 1..Len(Append(d \o s, x)) : (d \o Append(s, x))[i] = Append(d \o s, x)[i]
  OBVIOUS
<1> QED BY <1>1, <1>2, <1>3

\* Items I, N of them, each of which goes on from what the one before it, or d
\* at first, has written.
Successive(I, N, d) ==
    \A k \in 1..N : /\ I[k].write \in Nat /\ I[k].data \in Seq(Nat)
                    /\ I[k].data = IF k = 1 THEN d ELSE DataAfter(I[k - 1])

\* Who runs items that continue each other has in the end what the last of them
\* says.
LEMMA WritesRun ==
  ASSUME NEW I, NEW N \in Nat, N = Len(I), NEW d \in Seq(Nat), Successive(I, N, d)
  PROVE  d \o Writes(I) = IF N = 0 THEN d ELSE DataAfter(I[N])
<1> DEFINE Upto(k) == IF k = 0 THEN d ELSE DataAfter(I[k])
<1>1. PICK w : Tape(I, w, N) /\ Writes(I) = w[N]
  BY WritesIs
<1>2. w[0] = <<>>
  BY <1>1 DEF Tape
<1>3. ASSUME NEW k \in 1..N
      PROVE  w[k] = IF I[k].write = 0 THEN w[k - 1] ELSE Append(w[k - 1], I[k].write)
  <2>1. k \in 0..N /\ k # 0
    OBVIOUS
  <2> QED BY <1>1, <2>1 DEF Tape
<1>4. ASSUME NEW k \in 1..N
      PROVE  Upto(k) = IF I[k].write = 0 THEN Upto(k - 1) ELSE Append(Upto(k - 1), I[k].write)
  <2>1. I[k].data = Upto(k - 1)
    <3>1. k = 1 <=> k - 1 = 0
      OBVIOUS
    <3> QED BY <3>1 DEF Successive
  <2> QED BY <2>1 DEF DataAfter
<1> DEFINE Bad == {k \in 0..N : ~(w[k] \in Seq(Nat) /\ d \o w[k] = Upto(k))}
<1>5. Bad = {}
  <2> SUFFICES ASSUME Bad # {} PROVE FALSE
    OBVIOUS
  <2>1. PICK n \in Bad : \A k \in Bad : ~(k < n)
    <3>1. Bad \in SUBSET Nat
      OBVIOUS
    <3> HIDE DEF Bad
    <3> QED BY <3>1, Smallest
  <2>2. CASE n = 0
    <3>1. <<>> \in Seq(Nat) /\ d \o <<>> = d
      OBVIOUS
    <3> QED BY <1>2, <2>2, <3>1
  <2>3. CASE n # 0
    <3>1. n \in 1..N /\ n - 1 \in 0..N /\ n - 1 < n
      BY <2>3
    <3>2. w[n - 1] \in Seq(Nat) /\ d \o w[n - 1] = Upto(n - 1)
      BY <2>1, <3>1
    <3>3. PICK s \in Seq(Nat) : s = w[n - 1]
      BY <3>2
    <3>4. PICK x \in Nat : x = I[n].write
      BY <3>1 DEF Successive
    <3>5. Append(s, x) \in Seq(Nat) /\ d \o Append(s, x) = Append(d \o s, x)
      BY AppendAfter
    <3>6. w[n] = IF x = 0 THEN s ELSE Append(s, x)
      BY <1>3, <3>1, <3>3, <3>4
    <3>7. Upto(n) = IF x = 0 THEN Upto(n - 1) ELSE Append(Upto(n - 1), x)
      BY <1>4, <3>1, <3>4
    <3> HIDE DEF Upto
    <3>8. w[n] \in Seq(Nat) /\ d \o w[n] = Upto(n)
      BY <3>2, <3>3, <3>5, <3>6, <3>7
    <3> QED BY <3>8
  <2> QED BY <2>2, <2>3
<1>6. d \o w[N] = Upto(N)
  <2>1. N \in 0..N /\ N \notin Bad
    BY <1>5
  <2> QED BY <2>1
<1> QED BY <1>1, <1>6

\* What is on its way to an attached replica, and from where on it runs it.
LEMMA SentRest ==
  ASSUME NEW s, NEW G, conn[s] \in Connection(G), ChanOK(conn[s]), conn[s].attached
  PROVE  LET c == conn[s]
             L == Rest(c)
         IN  /\ Sent(s) = [k \in 1..Len(L) |-> L[k].item]
             /\ Len(Sent(s)) = Len(L)
             /\ Start(c, srv[s]).data = IF IsFull(c) THEN Head(c.chan).data ELSE srv[s].data
<1> DEFINE c == conn[s]
           L == Rest(c)
<1>1. /\ c.chan \in Seq(Messages(G)) /\ Len(c.chan) \in Nat
      /\ c.chan # << >> => Head(c.chan) = c.chan[1] /\ Len(c.chan) >= 1
  BY ConnectionTypes
<1>2. /\ L \in Seq(Messages(G)) /\ Len(L) \in Nat
      /\ \A k \in 1..Len(L) : L[k] \in Messages(G) /\ L[k].type = "cmd"
      /\ c.link = "wait" => /\ c.chan # << >> /\ Head(c.chan).type \in Answer
  BY RestIs
<1>3. c.link # "wait" => c.chan = <<>> \/ Head(c.chan).type = "cmd"
  <2>1. c.link # "wait" => L = c.chan
    BY DEF Rest
  <2> HIDE DEF L, c
  <2> QED BY <1>1, <1>2, <2>1
<1>4. Commands(s) = L
  <2>1. c.link = "wait" => c.chan # << >> /\ Head(c.chan).type # "cmd"
    BY <1>2 DEF Answer
  <2> QED BY <1>3, <2>1, Zenon DEF Commands, Rest
<1>5. IsFull(c) <=> c.link = "wait" /\ Head(c.chan).type \in {"fullresync", "xfullresync"}
  BY <1>2, <1>3 DEF IsFull
<1>6. Start(c, srv[s]).data = IF IsFull(c) THEN Head(c.chan).data ELSE srv[s].data
  <2>1. CASE c.link = "wait"
    <3>1. Start(c, srv[s]).data = Becomes(srv[s], Head(c.chan)).data
      BY <2>1 DEF Start
    <3> QED BY <1>5, <2>1, <3>1 DEF Becomes
  <2>2. CASE c.link # "wait"
    <3>1. Start(c, srv[s]).data = Standing(srv[s]).data
      BY <2>2 DEF Start
    <3> QED BY <1>5, <2>2, <3>1 DEF Standing
  <2> QED BY <2>1, <2>2
<1> HIDE DEF L, c
<1>7. DOMAIN L = 1..Len(L)
  BY <1>2
<1>8. Sent(s) = [k \in 1..Len(L) |-> L[k].item]
  BY <1>4, <1>7 DEF Sent
<1>9. \A k \in 1..Len(L) : L[k].item \in ItemsOf(G)
  BY <1>2, MessageTypes
<1>10. Len([k \in 1..Len(L) |-> L[k].item]) = Len(L)
  BY <1>2, <1>9
<1> QED BY <1>6, <1>8, <1>10 DEF c, L

Carried(I, L) == I = [k \in 1..Len(L) |-> L[k].item] /\ Len(I) = Len(L)
OnlyCommands(L) == \A k \in 1..Len(L) : L[k].type = "cmd"
Pends(G, H, X, z, L, m, I) ==
    /\ z.data \in Seq(Nat) /\ L \in Seq(Messages(G)) /\ OnlyCommands(L)
    /\ PendingOK(H, X, z, L) /\ Ends(z, L, m) /\ Carried(I, L)

\* The items on the way of an attached replica s of m are m's writes that s
\* lacks, one after the other.
LEMMA PendingRun ==
  ASSUME NEW G, NEW H, NEW X, NEW z, NEW L, NEW m, NEW I, Pends(G, H, X, z, L, m, I)
  PROVE  z.data \o Writes(I) = m.data
<1>0. /\ z.data \in Seq(Nat) /\ L \in Seq(Messages(G)) /\ OnlyCommands(L)
      /\ PendingOK(H, X, z, L) /\ Ends(z, L, m) /\ Carried(I, L)
  BY DEF Pends
<1>1. PICK N \in Nat : N = Len(L)
  BY <1>0
<1>2. ASSUME NEW k \in 1..N
      PROVE  I[k] = L[k].item /\ I[k].write \in Nat /\ I[k].data \in Seq(Nat)
  <2>1. L[k] \in Messages(G) /\ L[k].type = "cmd"
    BY <1>0, <1>1 DEF OnlyCommands
  <2>2. I[k] = L[k].item /\ L[k].item \in ItemsOf(G)
    BY <1>1, <2>1, <1>0, MessageTypes DEF Carried
  <2> QED BY <2>2 DEF ItemsOf
<1>3. ASSUME NEW k \in 1..N
      PROVE  I[k].data = IF k = 1 THEN z.data ELSE DataAfter(I[k - 1])
  <2>1. /\ k = 1 => FirstOK(z, L[k].item)
        /\ k > 1 /\ L[k - 1].type = "cmd" => NextItemOK(z, L[k - 1].item, L[k].item)
    BY <1>0, <1>1 DEF PendingOK, OnlyCommands
  <2>2. CASE k = 1
    BY <1>2, <2>1, <2>2 DEF FirstOK
  <2>3. CASE k # 1
    <3>1. k > 1 /\ k - 1 \in 1..N
      BY <2>3
    <3>2. L[k - 1].type = "cmd" /\ I[k - 1] = L[k - 1].item /\ I[k] = L[k].item
      BY <1>0, <1>1, <1>2, <3>1 DEF OnlyCommands
    <3> QED BY <2>1, <2>3, <3>1, <3>2 DEF NextItemOK
  <2> QED BY <2>2, <2>3
<1>4. z.data \o Writes(I) = IF N = 0 THEN z.data ELSE DataAfter(I[N])
  <2>1. Successive(I, N, z.data)
    BY <1>2, <1>3 DEF Successive
  <2>2. N = Len(I)
    BY <1>0, <1>1 DEF Carried
  <2>3. PICK d \in Seq(Nat) : d = z.data
    BY <1>0
  <2> QED BY <2>1, <2>2, <2>3, WritesRun
<1>5. m.data = IF N = 0 THEN z.data ELSE DataAfter(I[N])
  <2>1. CASE N = 0
    <3>1. L = <<>>
      BY <1>0, <1>1, <2>1, EmptySeq
    <3> QED BY <1>0, <2>1, <3>1 DEF Ends
  <2>2. CASE N # 0
    <3>1. L # <<>> /\ N \in 1..N
      BY <1>0, <1>1, <2>2
    <3> QED BY <1>0, <1>1, <1>2, <2>2, <3>1 DEF Ends, NextItemOK
  <2> QED BY <2>1, <2>2
<1> QED BY <1>4, <1>5

\* As long as gtids name single writes, a master and any replica among its own
\* have the same writes in the same order once the replica has read what is on
\* its way: after mode changes on either side, promotions, broken links, lost
\* backlogs, full resyncs, and every continuation that masterAnaPsyncRequest
\* and masterAnaXsyncRequest grant (xredis_gtid_repl.c).
THEOREM SameDataTheorem == Spec => []SameData
<1>1. ASSUME IInv, Informed, NEW s \in Servers, conn[s].attached, reused = {}, ~hidden
      PROVE  (IF IsFull(conn[s]) THEN Head(conn[s].chan).data ELSE srv[s].data) \o Writes(Sent(s))
                = srv[master[s]].data
  <2> DEFINE c == conn[s]
             L == Rest(c)
             z == Start(c, srv[s])
             I == Sent(s)
  <2>1. PICK H, X : Data(H, X)
    BY <1>1 DEF Informed
  <2>2. /\ srv[s] \in ServerState(given) /\ c \in Connection(given) /\ ChanOK(c)
        /\ c.link # "down" /\ LinkData(H, X, ids, c, srv[s], srv[master[s]])
    BY <1>1, <2>1, DataIs
  <2>3. /\ Carried(I, L)
        /\ z.data = IF IsFull(c) THEN Head(c.chan).data ELSE srv[s].data
    BY <1>1, <2>2, SentRest DEF Carried
  <2>4. L \in Seq(Messages(given)) /\ OnlyCommands(L)
    BY <1>1, <2>2, RestIs DEF OnlyCommands
  <2>5. PendingOK(H, X, z, L) /\ Ends(z, L, srv[master[s]])
    BY <1>1, <2>2 DEF LinkData
  <2>6. z.data \in Seq(Nat)
    <3>1. srv[s].data \in Seq(Nat)
      BY <2>2, ServerTypes
    <3>2. IsFull(c) => Head(c.chan) \in Messages(given)
      <4>1. IsFull(c) => c.chan # <<>>
        BY DEF IsFull
      <4>2. c.chan # <<>> => Head(c.chan) = c.chan[1] /\ 1 \in 1..Len(c.chan)
        BY <2>2, ConnectionTypes
      <4> QED BY <2>2, <4>1, <4>2, ConnectionTypes
    <3>3. IsFull(c) => Head(c.chan).data \in Seq(Nat)
      BY <3>2, MessageTypes DEF IsFull
    <3> QED BY <2>3, <3>1, <3>3
  <2> HIDE DEF c, L, z, I
  <2>7. z.data \o Writes(I) = srv[master[s]].data
    <3>1. Pends(given, H, X, z, L, srv[master[s]], I)
      BY <2>3, <2>4, <2>5, <2>6 DEF Pends
    <3> QED BY <3>1, PendingRun
  <2>8. z.data = IF IsFull(conn[s]) THEN Head(conn[s].chan).data ELSE srv[s].data
    BY <2>3 DEF c
  <2> QED BY <2>7, <2>8, Zenon DEF I
<1>2. IInv /\ Informed => SameData
  BY <1>1 DEF SameData
<1> QED BY <1>2, Invariance, DataInvariance, PTL
=============================================================================
