# Formal model of xredis-gtid

TLA+ modules, TLC configurations and TLAPS proofs for the gtid library and the
xredis replication code of this repository (`src/`). Redis itself is not in the
repository; what this code relies on of it is modelled from its use here and
marked external in `PROJECT.json`.

## The system

Every write of a master gets a *gtid*, a pair of the server's uuid and a number
(gno). A server keeps the set of gtids it has executed and the set of those it
gave up for lost; together they are its `gtid.set`. A replica in *xsync* mode asks
to continue with its `gtid.set` instead of an offset; the master finds in an index
of its backlog where everything the replica lacks begins, and each side takes what
the other has and it will never get for lost. A server may run in plain *psync*
mode, and change its mode at run time, with replicas following.

### Components

| Component | State | Operations | What makes it correct |
|---|---|---|---|
| interval skip list, `uuidSet` (`gtid.c`) | `[start,end]` nodes, level links, `tail`, counts | Add, Remove, Raise, Next, Dup, Merge, Diff, Contains, encode/decode | it is a set; its nodes are disjoint and not adjacent; `tail` is the last node |
| `gtidSet` (`gtid.c`, `gtid.h`) | list of uuidSets, `current` uuidSet, `curnext` cursor, `cached` | Add, Remove, Merge, Diff, Related, Next with cursor, encode/decode | the cursor is never behind the current uuidSet; no pointer outlives its uuidSet; the text form is exact |
| `gtidSeq` (`gtid.c`) | segments of consecutive gnos with 16-bit offsets, free list, counters | Append, Trim, Xsync, Psync | the index is the stream's; searches are exact; the cache is bounded |
| server state (`xredis_gtid.c`) | `gtid_executed`, `gtid_lost`, `uuid` | GTID, GTIDX, own writes, AddLost, Reset | a gno is given once; a command runs once; a lost one does not run |
| replication stream (`xredis_gtid_rs.c`) | current and previous mode, offsets, backlog, `gtid_seq` | feed, Switch2Psync/2Xsync, Reset2Psync/2Xsync, UpdateXsync, create/resize/free backlog | index and backlog agree; a request is answered in one mode |
| handshake (`xredis_gtid_repl.c`) | request, answer, connection | PSYNC, XSYNC; CONTINUE, XCONTINUE, FULLRESYNC, XFULLRESYNC | a replica gets what it lacks and nothing twice; the gap bound holds; all converge |
| RDB fields (`xredis_gtid_rdb.c`) | three auxiliary fields | save, load | the sets survive a restart; a save that failed says so |
| AOF (`xredis_gtid_aof.c`) | none | rewrite expiry arguments | absolute times |
| forced full resync, INFO | `uuid_interested`, an indicator | wrong type errors, cron, INFO | a replica that knows it differs gets the master's data |
| `gtid_util.c` | none | number formatting | - |

The parts interact as follows. A client's write reaches
`propagateArgsPrepareToFeed`, which takes a gno from `gtid_executed` and rewrites the
write to a GTID command; `ctrip_replicationFeedSlaves` appends its offset to
`gtid_seq`, feeds backlog and replicas, and trims the index to the backlog. A
replica's stream goes through `gtidCommand` and on to its own replicas unchanged.
On a request the master combines `serverGtidSetGet`, `gtidSeqXsync` and
`locateServerReplMode`; the answer can grow `gtid_lost`, and
`serverReplStreamUpdateXsync` then closes the server's other replica links and its
own master link, so that everybody asks again. All of a server is one thread; what
makes the code hard is the order of messages *between* servers, the order of legal
calls within one (cursor, index and mode outlive the call they were set by), the
boundaries (offset of a mode change, trimmed segments, wrapped backlog, full cells)
and convergence after several servers have thrown each other out. `PROJECT.json`
lists these hazards by line.

## Modules

| Module | Models |
|---|---|
| `GnoSet` | abstract: every uuidSet is a plain set of gnos, every operation atomic |
| `GtidIntervals` | the interval list at the level of nodes and tail; one action per uuidSet function; Merge and Diff one iteration per step |
| `GtidIntervalsProofs` | its theorems |
| `GtidSets` | gtidSets of such lists: the list of uuidSets and the pointers into it, the functions on one and two sets, text form, RDB fields |
| `GtidIndex` | abstract: an index is a set of (uuid, gno, offset) entries; the two questions asked of it |
| `GtidSeq` | segments, cells, partial trimming, pool of free segments, the two searches |
| `GtidSeqProofs` | its theorems |
| `ServerGtid` | `gtid_executed`, `gtid_lost`, `curnext` of one server; one action per command or call |
| `ServerGtidProofs` | its theorems |
| `ReplStream` | one server's stream: backlog window, index (`GtidIndex`), modes, and the answers to every possible request |
| `ReplStreamProofs` | its theorems |
| `XsyncRepl` | several servers: requests, answers, streams, disconnections, REPLICAOF, broken links, restarts |
| `XsyncReplProofs` | its theorems |
| `ModeSwitch` | several servers that change modes and roles: every answer in either mode, replication ids, offsets, the renewal of `server.uuid`, the forced full resync |
| `ModeSwitchProofs` | its theorems, but for `SameData` |
| `ModeSwitchDataProofs`, `ModeSwitchSyncDataProofs` | `SameData`: its invariant under every step but `Sync`; `Sync` and the theorem |
| `MC*` | constants for TLC |

How they stack: `GtidIntervals` implements `GnoSet`, so `ServerGtid`, `ReplStream` and
`XsyncRepl` use plain sets; `GtidSeq` implements `GtidIndex`, so `ReplStream` uses
`GtidIndex` and `XsyncRepl` a list of gtids. `XsyncRepl` gives the gnos of own writes
by the cursor of `ServerGtid` (the same operators, per server), so that it has what follows
when the cursor is stale; `ReplStream` takes commands with a gtid that is new and replicated
ones whose gtid is known. `GtidSets` extends
`GtidIntervals` and is evaluated on every pair of lists the latter reaches. `ModeSwitch`
composes what `ReplStream` says of one server's modes into several servers; it leaves
gaps to `XsyncRepl`, which in turn stays in xsync mode. Without gaps no gtid is ever lost and
no cursor is ever set, so that its next gno is one after the greatest executed one (`NextGno`).

### Correspondence with the code

* **GtidIntervals.** `gsl[l].nodes` is the bottom level of the skip list, `tail` the
  cached pointer. A search `while (x->forwards[i] && cond)` is `LastOf` the header and
  the nodes the condition lets pass; this is right whatever the levels, since each
  level is a sublist of the one below. `gtidIntervalSkipListAdd` is fast path,
  new node or join; `Remove` is split or span. `loop` is the walk of a merge or diff
  between two iterations; `old` remembers what the destination held (history).
* **GtidSets.** Operators only, one per function: none of them has a state of its own. A
  pointer is the uuid of what it points to. A text is a sequence of uuidSets of one- or
  two-number intervals with its length in bytes, which is what the room in the buffer
  depends on. The RDB is its fields; once one fails, so do the ones after it. A server in no
  replication history (`rsi` is NULL) saves none, and reports success.
* **GtidSeq.** `segs` runs from `firstseg` to `lastseg`; `pool` holds the capacities of
  the free segments and the four counters. The casts to 16 bits are `% (SegoffMax + 1)`.
  `next` is `master_repl_offset + 1`: what is appended is where the stream ends.
* **ServerGtid.** `curnext` is the cursor of `gtid_executed`, `aborted` a failed assert of
  `gtidSetCurrentUuidSetSetNextGno`, `ran` how often the dataset ran a command (history;
  a reset installs a dataset and the sets that describe it). `ResetSets` keeps the order
  of the two resets: the first compares with the old `gtid_lost`. Own gtids may come in by
  GTID and GTIDX ADD at any time; `returned` has those that did so at or after a cursor, which
  does not move, and `removed` says that GTIDX REMOVE took own gnos away while no cursor was set
  (both history). A server that has aborted takes no step.
* **ReplStream.** `stream` is what the backlog's bytes are (history), `mode`/`prev` are
  `repl_mode` and `prev_repl_mode`. The masterAna functions are operators that return the
  answer; `masterReplySyncRequest` acts on it. Invariants quantify over all requests.
  PSYNC requests are assumed to name a replication id the server accepts. A replicated
  command whose gtid is known does not run but is forwarded and indexed (`CommandIgnored`);
  every server is taken to know the commands it is sent, so that GTIDX REMOVE is left out.
* **XsyncRepl.** `conn[s]` is the connection of replica `s` to its master: the request it
  sent, whether the master counts it among its slaves, and the messages not yet read.
  A kicked replica still reads what was sent before (`writeToClient` before
  `freeClient`). `curnext` is each server's cursor; a step that would fail the assert on it
  does not happen, since that server stops and the others see their links break. An XCONTINUE
  may bring a new MASTER.UUID, REPLID or REPLOFF, which closes the replicas' connections also
  when no gtid is lost: these values are not modelled and the choice is free (`moved`).
  A restart keeps both sets, or loses both when the RDB has no gtid field; that a server keeps
  its uuid then is redis' configuration, and assumed. `written`, `reused`, `forgotten` and
  `returned` (own gtids a master sent back at or after the cursor) are history.
* **ModeSwitch.** `srv[s]` is a server, with the globals of the code as fields (`New` lists
  them); each Switch and Reset function is an operator on it. A replica's request and the
  master's answer are one step (`Sync`): between them only REPLICAOF or a broken link can
  change the replica. Each `Read...` is one branch of the replica's reply handling,
  followed by what redis does next. The gap is 0, so `gtid.lost` is always empty. Operators
  make trees of replicas, no rings. A stale index that would abort the master (finding 2)
  is left out of `Sync`'s guard.

## Runs

| Run | Bounds | Shows |
|---|---|---|
| `intervals` | 2 lists, gnos 1..6; gtidSets of 2 uuids made of them | lists stay canonical, the tail is last, searches are right, merges and diffs make progress only, and all implement sets. Six gnos give three nodes per list: one call can join or cut two and unlink one between. On each pair of lists: gtidSets are sets of gtids under every function and keep their pointers live; a set fits its buffer with numbers of 19 digits and is decoded node for node; a save is restored, or reports its failure at whichever field, or has no gtid field for want of a replication history |
| `gtid_seq` | 2 uuids, gnos 1..4, 5 bytes, span 3, deltas to 2, 1 cell per new segment | segments are well formed and ordered, counters exact, cache bounded, both searches exact for every request, all implement a plain index. Every cause of a segment switch and every kind of trim occurs |
| `server_gtid` | 2 uuids, own gnos 1..3, gnos 1..2 of the other, snapshots of a run of executed and a run of lost gnos | when the assert on the cursor can fail, freshness, at-most-once, lost stays lost; own gtids come back by any command. The cursor concerns own gnos only; three are a cursor, one behind it and one after it |
| `own_gtids_return` | the same, without the bound on the other uuid | *violated*: the assert of `gtid.h:124` |
| `repl_stream` | 3 gtids of 2 uuids, commands of 1 or 2 bytes, backlog 3, stream 5, 2 snapshots, 1 offset to install, gaps 0 and 1 | index and backlog agree; a continued replica gets exactly what it lacks, in one mode, within the gap. The stream exceeds the backlog by the longest command, so it wraps; modes shift several times |
| `stale_index` | the same, stream 6, offsets 0 and 2 | *violated*: `serverAssert(offset >= server.repl_backlog_off)` |
| `xsync_three` | 3 servers, 2 writes each, gap 1, backlog 2, 2 disruptions; from new servers, and from a state with a former master that was resynced without its writes (`FormerMaster` tells the way to it, 39 steps and 11 disruptions) | agreement, exactly once, bounded divergence, reuse of gtids only after they were dropped; chains and rings of replicas, stale backlogs, kicked replicas, own gtids that come back at a cursor. Servers are symmetric. The theorems cover more disruptions |
| `own_gno_again` | the same, from the former master only | *violated*: a replica is sent a new write under a gtid it has |
| `xsync_converges` | 3 servers, 1 write each, gap 1, 2 disruptions, fairness, no symmetry | convergence below a master with a gtid |
| `empty_master` | the same | *violated*: endless full resyncs below a master without any |
| `mode_switch` | 3 servers as a star or a chain, any of them in either mode; 1 write, 1 PING, backlog 2, 2 disruptions | same data, offsets, replication ids and master's uuid at both ends of every link, also through a server in between |
| `mode_switch_pair` | 2 servers, 2 writes, 1 PING, 3 disruptions, fairness | a gtid is reused only by a server that was given another's history; a follower is continued through a change of mode; all end up connected. Three disruptions are a change of mode, a second one that returns to the first, and a swap of roles or a lost backlog between |

`CHECK_DEADLOCK FALSE` is set for `XsyncRepl` and `ModeSwitch`: with their writes and disruptions
used up and all replicas in sync the system rests. It is set for `server_gtid`, as a server whose
assert failed has stopped.

**Fairness.** Only `FairSpec` of `XsyncRepl` and of `ModeSwitch` assume any: weak fairness
of each server's own steps. A replica without a link retries in `replicationCron` every second,
and requests, answers and streams are read by the event loop of a running server.
Clients, operators, broken links and restarts are not fair, and they are bounded, so
that "when nothing goes wrong any more" happens.

### Findings

1. *Cursor behind own gtids* (`own_gtids_return`). A growth of `gtid.lost` sets the
   cursor; own gtids that enter `gtid.executed` otherwise (a GTID command with the
   server's uuid, after a restart from an older RDB for instance) do not move it; the
   next growth passes the check on the cursor and fails the assert on the set. Without a
   next growth the gno is given twice: own gno 1 lost (cursor 2), GTID of own gno 2, and the next
   own write is 2 again. `NextIsFresh` and `RunsOnce` except such gtids (`returned`).
2. *Stale index* (`stale_index`). The index is trimmed only by commands with a gno.
   After a PUBLISH or PING that wraps the backlog the index still offers an offset
   before it, which only psync mode checks.
3. *Empty master* (`empty_master`). Master without gtids, replica, sub-replica with old
   writes: the replica accepts the sub-replica, learns of lost gtids, reconnects to the
   master, which finds the sets unrelated; the full resync empties the replica's sets and
   drops the sub-replica, and so on.
4. *Own gno again* (`own_gno_again`). The first finding's cursor without any operator
   command: former master A full resyncs from C without its writes 1 and 2, then continues from B,
   which has both but only 2 in its backlog. A counts 1 as lost (cursor 2), executes 2 from the
   stream, is promoted and gives 2 to a new write. B, now its replica, ignores that write as one
   it has, logs it as critical, and the two datasets differ from then on.

### Limits of the properties

`returned` excepts from `NextIsFresh` and `RunsOnce` of `ServerGtid`, and from `ExactlyOnce`,
`DivergenceBounded` and `UniqueUnlessForgotten` of `XsyncRepl`, the gtids of findings 1 and 4: own
ones that came back at or after a cursor, and no others. `removed` excepts from `NextIsFresh` and
`LostNeverRuns` own gnos given again after GTIDX REMOVE.

Four behaviours of the code are excluded from a property of `ModeSwitch`, each by a
history variable and no wider than the behaviour itself:

* *Hidden writes* (`hidden`, `SameData`). Without a backlog a write does not move
  `master_repl_offset`. If the mode has just changed, the byte the mode begins at is then
  still the next one, and a replica of the previous mode is continued there: XSYNC by
  CONTINUE, as `masterAnaXsyncRequest` adjusts the continue point to `from`, or PSYNC by
  XCONTINUE, whose set includes the gtids the replica never sees. The write is lost on it.
* *Stale delta* (`stale`, `OffsetsAligned`). `serverReplStreamReset2Xsync` leaves
  `gtid_reploff_delta` as it was; it is right again after the next partial resync.
* *Kept uuids* (`dropped`, `GtidNamesOneWrite`). `server.uuid` is renewed only if the
  previous mode is xsync. A full resync to psync, or a PSYNC answered by XCONTINUE, takes the
  gtids of the uuid away but not the uuid; the next change to xsync reuses them. `SameData`
  does not speak of such runs (`reused`).
* *A replica without gtids* (`FollowersContinue`) is not related to its master.

`serverReplStreamSwitch2Psync` clears the delta before `shiftServerReplMode` saves it, so
that a previous xsync mode is always remembered with a delta of 0. A replica that is
continued in that mode is told another offset than it had; it is aligned again when it
follows to psync, as that answer carries the master's.

## Proofs

The theorems hold for all values of the constants under the modules' assumptions
(`MaxGnoAssumption`, `ConstantsAssumption`, `SizesAssumption`), which the runs evaluate.

**GtidIntervalsProofs.** The inductive invariant `IInv` says that every list is *good*
(typed, separated, tail last) and that a walk in progress is half done. The tail must be
part of it: without it, Add's fast path could extend a node that overlaps the next.
`AddCorrect` and `RemoveCorrect` say that on a good list the operation yields the right
set of gnos and a good list; each rests on a lemma about where the searches stop
(`AddSearch`, `RemoveSearch`) and one per case. From them: each action keeps
`IInv`; the run's five invariants follow; and `Refinement` maps every step to a step of
`GnoSet` or a stutter, an iteration being a stutter until the last one, at which the whole
merge or diff takes place. Termination of a walk is not claimed.

**GtidSeqProofs.** `IInv` says that each segment is a `GoodSegment`, that segments are in
stream order, and that the pool fits the segments (`PoolFits`). A good segment's cells are
at least one byte apart; this and the bound on the stream bound the number of cells.
`SegmentSize <= SegoffMax + 1` is what keeps an offset from being truncated: a segment that
spans more is left for a new one first. The counters are sums and the pool after a trim
is a loop, both recursive functions; `RecursionExists` and `UpTo` (a least counterexample)
stand in for induction, `SumFirst` and `SumLast` give the sum of one term more. One lemma per action
shows that `IInv` is kept (`AppendKeeps`, `TrimKeeps`, ...). `Refinement` rests on
what an append, a trim and a new backlog do to the set of entries. `XsyncTheorem` and
`PsyncTheorem` follow from `IInv` alone: `CellOrder` says that cells are in stream order,
`StopIs` and `LastIs` where the backward walks stop, and `LackingIs` that what a replica
lacks is the rest of that segment and every later one.

**ServerGtidProofs.** `UpdateCorrect` says what the cursor is after the update function.
The invariant says of executed own gnos that each is before the next gno or came back at or
after the cursor (`CursorOK`, `CursorInv`), of the lost ones that they are before the next gno
(unless `removed`), and of a command (`RanInv`) that it has run only if it is in `gtid.executed`,
once unless it came back. The exception has to be in the invariant: it is what remains true of the
cursor while own gtids come back. `CursorTheorem`, `FreshTheorem` and `RunsOnceTheorem` assume
nothing about own gtids. `LostTheorem`, about an action property, assumes `SnapshotsDisjoint`: no
snapshot a reset installs calls a gtid both executed and lost. The snapshots of the run are like
that.

**ReplStreamProofs.** The run's invariants are not inductive. `IInv` adds `ModesOK`, where
the modes begin: a command at or after `mode.from` was written in the current mode, one
between `prev.from` and there in the previous one, and none straddles `mode.from`; and
`IndexKnown`: every gtid in the index is in `gtid.set`, and without a backlog there is no
index. `IndexFaithful` is then kept by each action, a change of mode restarting the
index or the era. The three properties of the answers follow from `IInv` alone, for every
request: `NeedIsAbove` and `LackedIsNew` say that the entries from the continue point on are
none of the replica's, `SentIsIndexed` that what the backlog sends from there are those
entries, `XsyncAnswer` and `PsyncAnswer` what is answered in which mode. `GapTheorem` needs
`Gtids` finite, since it compares cardinalities.

**XsyncReplProofs.** The five invariants of `XsyncRepl`, for any number of servers, follow
from `IInv`, which says what each connection promises (`Linked`). A request that waits
tells the replica's sets as they are: a server that waits has a master, so it takes no
writes; reads end the wait; and as long as it is not connected itself it answers nobody
(NOMASTERLINK), so that its `gtid.lost` cannot grow. Only the first unread message can be
an answer. What is on its way is new to the replica whether it is still attached or
not, since a connection that was closed is read to its end. An attached replica has, with
what is on its way, the master's set, and differs in what it has executed by the gap at
most. `Linked` speaks of the sets of both ends, and so has to be kept when either moves: one
lemma per message a connection can get or lose (`LinkedFed`, `LinkedKicked`,
`LinkedPartial`, `LinkedXcontinue`, ...) and one per action, which puts together what
happens to the acting server, to its replicas (`SlavesAre`) and to everybody else
(`OtherLinked`). `XsyncSuffix` says what `gtidSeqXsync` leaves out, and that takes `LogOK`:
the backlog has only commands its server has executed, each once, but for those in `returned`.
`WritesKnown`, a write is known to its server or forgotten, and what is known of the cursor (an own
gtid is before the next gno or in `returned`, a lost one before it) make `UniqueUnlessForgotten`
inductive: a gno is new to its server, and then to all, or its gtid came back.
`Servers` is assumed finite, since gaps are cardinalities.

**ModeSwitchProofs.** `IInv` is the type (`Typed`, offsets being any integers),
`GtidNamesOneWrite`, and `ServerOK` of every server:

* `StreamOK`: a backlog ends at the server's offset, neither the index nor the mode begins
  after it, and psync mode counts without a delta.
* `NamesOK`: a server has executed every gtid of its uuid, or the uuid has outlived its
  `gtid.set` (`dropped`); uuids given out are no newer than its own; and a psync server
  that was not in xsync before has given no gtid of its uuid. This last part is what the condition
  `prev.mode = "xsync"` of the renewal rests on. With `NextIsFresh`, that the next gno is above
  all executed ones of the uuid, it makes `GtidNamesOneWrite` inductive.
* `Linked`: what the connection to its master promises. Only the first unread message is an
  answer, and only while the replica waits (`ChanOK`). If the master still has it among
  its replicas, then a connected one counts the stream as the master does, the commands on
  their way added (`Following`), and a waiting one will do so once it has read its
  answer (`Answered`). `OffsetsAligned` and `MasterUuidKnown` are read off `Linked`.

Three lemmas say how a step affects everybody at once: one server and its connection change
and its replicas are disconnected (`ReplacesOK`), a command enters a stream and those
of the replicas (`FeedsOK`), a replica is answered (`RepliedOK`). `PsyncAnswer` and
`XsyncAnswer` say what each partial answer is, from where the request falls
(`LocateIs`). With them there is one lemma per action. That a chain of replicas knows the uuid of
the first master depends on each server between telling its replicas or dropping
them; `Linked` names it as the master's master's (`MasterUuid`), so `UpdatedIs` and
`SameMasterUuid` are needed for every action that changes a server that has replicas.
`Servers` is assumed finite, as the replication ids at the start are counted.

**ModeSwitchDataProofs, ModeSwitchSyncDataProofs.** `SameData`: in psync mode writes carry no gtid, so that a master
grants a continuation by a replication id and an offset alone, and in xsync mode by a set of gtids
alone. That this is enough is a claim about the whole past: whoever holds the same id at the same
offset, or the same set, has the same writes. The invariant `Data(H, X)` says it of two sets of
facts: `H` of facts `<<replication id, offset, data>>` and `X` of facts `<<gtid set, data>>`, each
functional (`FactsOK`). `Informed` claims that there are such `H` and `X` as long as no gtid was
given twice and no write was hidden; each action lemma (`WriteData`, `SyncData`, ...) gives
the new ones, most often the old ones with one fact more. `Data` holds of

* every server (`ServerData`), at every offset its backlog retains: the item from there leads
  from what the server had to what it had next (`ItemOK`), and what it had is a fact of its
  mode then, under the replication id of the mode at psync offsets, under the gtids it had
  at xsync ones. The byte a mode begins at belongs to both. What a server had is read off the
  items: each carries the data and gtids of its writer (`Item`, a history component), and the
  gtids at an offset are those of the server but for the ones the index has after it;
* its second replication id (`Joined`): what is known of it below its offset is known of the
  first too, which is what makes it safe to continue a replica that asks with it;
* all servers (`SoloOK`): no two of those that may extend the history of a replication id
  (without a master, or without a backlog yet) have the same one; no fact about a psync master's id
  lies beyond its offset; and nobody's second id reaches beyond what such a server has;
* every connection (`LinkData`): what the replica is once it has read its answer (`Start`) is a
  fact, each command on its way goes on from the one before it (`PendingOK`), and if the replica is
  still attached the last one ends at what the master has (`Ends`).

`SyncData` is the largest part. `Prepares` says what becomes of the master, which may make a backlog
and a new id; `PsyncRight` and `XsyncRight` that each partial answer starts the replica at an
offset of the window at which the master had what the replica has (`Right`, `PsyncPoint`), by the
id or through `Joined` in psync, and by `LackingIs` in xsync: the master's gtids at the continue
point are the replica's set. The writes that follow are `BacklogCarries`'. `DataStep` then puts the
acting server, its replicas and everybody else together. The theorem itself reads `SameData` off
`LinkData`: `Writes` is a recursive function, and `TapeExists` and `WritesRun` (again by a least
counterexample) say that running items that continue each other yields what the last one says.
No assumption is made but those of `ModeSwitch`.

**Only model-checked.**

* Liveness: `Converges` and `AllConverge` hold under fairness, which the prover does not reach.
* `GtidSets` (`SetsAgree`, `CodecExact`, `RdbRestores`): its functions walk lists of uuidSets and
  buffers by folds, and what a fold computes is induction over data.
* `FollowersContinue` of `ModeSwitch`: `Data` says that a continuation that is granted is
  right, not that one is granted. It takes an invariant of what a follower missed
  (`behind`), which is not stated yet.
* `TypeOK` of `ModeSwitch`, for its bounds only (lengths of datasets, mode changes missed);
  `Typed` and `StreamOK` have the rest.

## Plan

Done: `GtidIntervals`, `GtidSeq`, `ServerGtid`, `ReplStream`, `XsyncRepl` and `ModeSwitch`, each
with proofs; `GnoSet`, `GtidIndex`, `GtidSets`. Next, in this order:

1. `FollowersContinue` from `Data`, with what a replica that is one mode behind still has in
   common with its master. Then an abstract specification of what replication promises (every
   server's set only grows but for full resyncs), with `XsyncRepl` shown to implement it.
2. `IntervalSkipList`: the forward pointers of every level, with `node_count` and
   `gno_count`, shown to implement `GtidIntervals`.
3. `BacklogRing`: the copy out of the ring buffer; the offset of a transaction's MULTI;
   GTIDX SEQ LOCATE.

## Not modelled

Parsing of requests and replies; INFO and statistics; AOF rewriting (each command's expiry
argument, no state of its own); number formatting (`gtid_util.c`, stateless: `GtidSets` takes
numbers as values of a given width). Mode changes together with gaps: `ModeSwitch` has none
and `XsyncRepl` no modes. Matching of a replication id across `+CONTINUE <id>` is redis' own and
modelled as the code relies on it. What is under `ENABLE_SWAP`: the models follow a build
without it. `serverGtidSetAddExecuted`, `serverGtidSetRemoveExecuted` and
`serverGtidSetRemoveLost`, which nothing calls. A gno of `LLONG_MAX`, where `end+1` overflows:
the models stay below it.
