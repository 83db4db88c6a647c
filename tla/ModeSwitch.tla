----------------------------- MODULE ModeSwitch -----------------------------
(***************************************************************************)
(* Servers that change their replication mode: gtid-enabled is turned on   *)
(* and off, replicas are promoted and masters demoted, and every replica   *)
(* follows its master from psync to xsync and back (xredis_gtid_rs.c, and  *)
(* both sides of the handshake in xredis_gtid_repl.c): XSYNC answered by   *)
(* CONTINUE and PSYNC by XCONTINUE, a previous mode continued up to where  *)
(* it ends, replication ids, offsets and their alignment, the renewal of   *)
(* server.uuid.                                                            *)
(*                                                                         *)
(* A command is one byte.  gtid-xsync-max-gap is 0, so that gtid.lost      *)
(* stays empty: gaps are the subject of ReplStream and XsyncRepl.  A       *)
(* replica asks and its master answers in one step: from when it has asked *)
(* until it is answered nothing but REPLICAOF or a broken link changes a   *)
(* replica.  What redis does is modelled as the code and the tests in src/ *)
(* rely on it.                                                             *)
(***************************************************************************)
EXTENDS Integers, Sequences, FiniteSets

CONSTANTS Servers,
          None,            \* no master
          MaxWrites,       \* bound on the writes of all servers
          MaxPings,        \* bound on the commands without a gtid in xsync
          BacklogSize,     \* server.repl_backlog_size
          MaxDisruptions   \* bound on config changes, REPLICAOFs, broken
                           \* links, lost backlogs and wrong type errors

ASSUME ConstantsAssumption ==
    /\ IsFiniteSet(Servers) /\ None \notin Servers
    /\ MaxWrites \in Nat /\ MaxPings \in Nat /\ MaxDisruptions \in Nat
    /\ BacklogSize \in Nat \ {0}

VARIABLES srv,          \* the state of each server, see New below
          master,       \* server.masterhost, or None
          conn,         \* the replica's connection to its master
          ids,          \* replication ids made so far
          writes,       \* writes so far
          pings,
          disruptions,
          given,        \* gtids given to a write so far (history)
          reused,       \* gtids given to two writes (history)
          dropped,      \* uuids that outlived their gtid.set (history)
          hidden,       \* a write without a backlog left the offset where the
                        \* mode begins (history)
          behind        \* mode changes of its master a replica has missed,
                        \* Unknown if it has not been following it (history)

bounds == <<writes, pings, disruptions>>
history == <<given, reused, dropped, hidden>>
vars == <<srv, master, conn, ids, bounds, history, behind>>

Unknown == 9
NoId == 0         \* the cleared replid2
NoUuid == <<>>    \* clearMasterUuid
Unset == [mode |-> "unset"]
NoGtid == <<>>

\* A server as it starts.
New(s, id, enabled) ==
    [enabled |-> enabled,                               \* server.gtid_enabled
     uuid |-> <<s, 0>>, muuid |-> NoUuid,               \* server.uuid, master_uuid
     executed |-> {},                                   \* server.gtid_executed
     mode |-> IF enabled THEN "xsync" ELSE "psync",     \* server.repl_mode
     from |-> 1,
     prev |-> Unset,                                    \* server.prev_repl_mode
     replid |-> id, replid2 |-> NoId, off2 |-> -1,
     offset |-> 0,                                      \* server.master_repl_offset
     delta |-> 0,                                       \* server.gtid_reploff_delta
     stale |-> FALSE,                                   \* delta is of another stream (history)
     backlog |-> FALSE,                                 \* whether there is one
     boff |-> 0, items |-> <<>>,                        \* from repl_backlog_off on
     idx |-> {},                                        \* server.gtid_seq
     wrong |-> FALSE,                                   \* fullresync_indicator moved
     force |-> FALSE,                                   \* uuid_interested is "?"
     data |-> <<>>]                                     \* the writes it has run

----------------------------------------------------------------------------
(* The stream of a server r.                                               *)

\* A command of the server r, with what r has when it writes it (history).
Item(r, x, w) == [gtid |-> x, write |-> w, data |-> r.data, executed |-> r.executed]

TrimIndex(I, boff) == {e \in I : e.offset >= boff}

\* ctrip_replicationFeedSlaves, ctrip_replicationFeedSlavesFromMasterStream:
\* without a backlog there is no stream.
Feed(r, item) ==
    LET full == Len(r.items) = BacklogSize
        boff == IF full THEN r.boff + 1 ELSE r.boff
        e == [uuid |-> item.gtid[1], gno |-> item.gtid[2], offset |-> r.offset + 1]
    IN  IF ~r.backlog THEN r
        ELSE [r EXCEPT !.offset = @ + 1, !.boff = boff,
                       !.items = Append(IF full THEN Tail(@) ELSE @, item),
                       !.idx = IF item.gtid = NoGtid THEN @ ELSE TrimIndex(@ \cup {e}, boff)]

CreateBacklog(r) ==
    IF r.backlog THEN r
    ELSE [r EXCEPT !.backlog = TRUE, !.boff = r.offset + 1, !.items = <<>>, !.idx = {}]

\* ctrip_resetReplicationBacklog, after master_repl_offset became reploff.
RestartAt(r, reploff) ==
    [r EXCEPT !.offset = reploff, !.items = <<>>, !.idx = {},
              !.boff = IF r.backlog THEN reploff + 1 ELSE @]

\* ctrip_getMasterReploff
MasterReploff(r) == r.offset + r.delta

\* getMasterUuid
getMasterUuid(r, m) == IF m = None THEN r.uuid ELSE r.muuid

----------------------------------------------------------------------------
(* Mode changes of a server r.                                             *)

\* shiftServerReplMode.  What only one of the modes saves is saved in both.
shiftServerReplMode(r, mode) ==
    [r EXCEPT !.mode = mode, !.from = r.offset + 1,
              !.prev = [mode |-> r.mode, from |-> r.from, replid |-> r.replid,
                        replid2 |-> r.replid2, off2 |-> r.off2, delta |-> r.delta]]

resetServerReplMode(r, mode) ==
    [r EXCEPT !.mode = mode, !.from = r.offset + 1, !.prev = Unset]

SetReplId(r, id) == [r EXCEPT !.replid = id, !.replid2 = NoId, !.off2 = -1]

\* Mutant: the offset is not aligned with the master's.
Switch2PsyncUnaligned(r, id, reploff) ==
    [SetReplId(shiftServerReplMode([r EXCEPT !.delta = 0], "psync"), id)
        EXCEPT !.muuid = NoUuid, !.force = FALSE]

serverReplStreamSwitch2Psync(r, id, reploff) ==
    LET aligned == IF r.offset = reploff THEN r ELSE RestartAt(r, reploff)
    IN  [SetReplId(shiftServerReplMode([aligned EXCEPT !.delta = 0, !.stale = FALSE], "psync"), id)
            EXCEPT !.muuid = NoUuid, !.force = FALSE]

serverReplStreamSwitch2Xsync(r, id, reploff, muuid, executed) ==
    [SetReplId(shiftServerReplMode(r, "xsync"), id)
        EXCEPT !.delta = reploff - r.offset, !.stale = FALSE, !.muuid = muuid, !.force = FALSE,
               !.executed = executed, !.idx = {}]

\* Mutant: the backlog survives the full resync.
Reset2PsyncKeepsBacklog(r, id, reploff) ==
    [SetReplId(resetServerReplMode([r EXCEPT !.offset = reploff], "psync"), id)
        EXCEPT !.muuid = NoUuid, !.force = FALSE, !.delta = 0, !.stale = FALSE]

serverReplStreamReset2Psync(r, id, reploff) ==
    [SetReplId(resetServerReplMode(RestartAt(r, reploff), "psync"), id)
        EXCEPT !.muuid = NoUuid, !.force = FALSE, !.delta = 0, !.stale = FALSE]

serverReplStreamReset2Xsync(r, id, reploff, muuid, executed) ==
    [SetReplId(resetServerReplMode(RestartAt(r, reploff), "xsync"), id)
        EXCEPT !.muuid = muuid, !.force = FALSE, !.executed = executed, !.stale = r.delta # 0]

\* Mutant: the uuid of an earlier history is kept.
KeepUuid(r) == r.uuid

\* The uuid of a server that turns to xsync by itself.
RenewedUuid(r) ==
    IF r.prev.mode = "xsync" THEN <<r.uuid[1], r.uuid[2] + 1>> ELSE r.uuid

EnabledMode(r) == IF r.enabled THEN "xsync" ELSE "psync"

\* serverReplStreamSwitchIfNeeded, to the mode gtid-enabled asks for, with a
\* new replication id.
serverReplStreamSwitchIfNeeded(r, id) ==
    IF r.mode = EnabledMode(r) THEN r
    ELSE IF EnabledMode(r) = "psync" THEN serverReplStreamSwitch2Psync(r, id, r.offset)
    ELSE LET uuid == RenewedUuid(r)
         IN  serverReplStreamSwitch2Xsync([r EXCEPT !.uuid = uuid], id, r.offset, uuid, {})

----------------------------------------------------------------------------
(* The master m's answer to a replica.                                     *)

Index == INSTANCE GtidIndex WITH
    Uuids <- Servers \X (0..MaxDisruptions), MaxGno <- MaxWrites,
    MaxOffset <- MaxWrites + MaxPings, idx <- {}, next <- 1

GtidOf(e) == <<e.uuid, e.gno>>
Gtids(I) == {GtidOf(e) : e \in I}

\* Mutant: a request at the byte the mode begins at belongs to that mode.
LocateWithoutSwitch(m, mode, offset) ==
    CASE offset >= m.from -> IF mode = m.mode THEN "cur" ELSE "invalid"
      [] OTHER            -> IF m.prev = Unset \/ m.prev.mode # mode \/ offset < m.prev.from
                             THEN "invalid" ELSE "prev"

locateServerReplMode(m, mode, offset) ==
    CASE offset > m.from -> IF mode = m.mode THEN "cur" ELSE "invalid"
      [] offset = m.from -> IF mode = m.mode THEN "cur"
                            ELSE IF m.prev = Unset THEN "invalid" ELSE "switch"
      [] OTHER           -> IF m.prev = Unset \/ m.prev.mode # mode \/ offset < m.prev.from
                            THEN "invalid" ELSE "prev"

Full == [type |-> "full"]

Continue(id, reploff, offset, limit) ==
    [type |-> "continue", replid |-> id, reploff |-> reploff, offset |-> offset, limit |-> limit]

Xcontinue(id, reploff, offset, limit, cont) ==
    [type |-> "xcontinue", replid |-> id, reploff |-> reploff, offset |-> offset,
     limit |-> limit, cont |-> cont]

NoLimit == -1

\* Mutant: the last byte of the previous mode is not sent.
PrevLimitShort(m, offset) == m.from - offset - 1

\* How many bytes of the previous mode are left from offset on.
PrevLimit(m, offset) == m.from - offset

\* redis, for a request in the current mode.
masterTryPartialResynchronization(m, id, offset) ==
    IF id = m.replid \/ (id = m.replid2 /\ offset <= m.off2)
    THEN Continue(m.replid, -1, offset, NoLimit)
    ELSE Full

\* Mutant: the id of the current mode is taken for the previous one's.
AcceptsPrevAny(m, id, offset) == offset <= m.from

\* Whether a psync history that goes on after m's previous mode has that id.
AcceptsPrev(m, id, offset) ==
    \/ id = m.prev.replid /\ offset <= m.from
    \/ id = m.prev.replid2 /\ offset <= m.prev.off2

masterAnaPsyncRequest(m, id, offset) ==
    LET type == locateServerReplMode(m, "psync", offset)
        xsync == Gtids(Index!From(m.idx, offset))
    IN  IF \/ ~m.backlog \/ offset < m.boff \/ offset > m.boff + Len(m.items)
           \/ type = "invalid"
           \/ type # "cur" /\ ~AcceptsPrev(m, id, offset) THEN Full
        ELSE CASE type = "cur" -> masterTryPartialResynchronization(m, id, offset)
               [] type = "prev" -> Continue(m.prev.replid, -1, offset, PrevLimit(m, offset))
               [] type = "switch" -> Xcontinue(m.replid, m.delta + offset - 1, offset, NoLimit,
                                               m.executed \ xsync)

gtidSetRelated(m, S) == \E x \in S : x[1] = m.uuid \/ \E y \in m.executed : y[1] = x[1]

\* uuidSetNext of the replica's set S, per uuid.
Need(S) == [u \in Servers \X (0..MaxDisruptions) |->
              CHOOSE n \in 1..(MaxWrites + 1) :
                  /\ \A g \in n..MaxWrites : <<u, g>> \notin S
                  /\ n > 1 => <<u, n - 1>> \in S]

\* Where the continue point of a replica with set S is.
ContinuePoint(m, lacking) ==
    IF lacking # {}
    THEN (CHOOSE e \in lacking : \A f \in lacking : e.offset <= f.offset).offset
    ELSE IF m.backlog /\ m.mode = "psync" THEN m.from ELSE m.offset + 1

\* Without a gap cont is S, and nobody loses anything.
masterAnaXsyncRequest(m, S, force) ==
    LET lacking == Index!Lacking(m.idx, Need(S))
        offset == ContinuePoint(m, lacking)
        type == locateServerReplMode(m, "xsync", offset)
        cont == m.executed \ Gtids(lacking)
    IN  IF \/ force \/ ~gtidSetRelated(m, S)
           \/ m.mode = "psync" /\ offset < m.boff
           \/ type = "invalid"
           \/ cont # S THEN Full
        ELSE CASE type = "prev" -> Xcontinue(m.prev.replid, m.prev.delta + offset - 1, offset,
                                             PrevLimit(m, offset), cont)
               [] type = "switch" -> Continue(m.replid, offset - 1, offset, NoLimit)
               [] type = "cur" -> Xcontinue(m.replid, m.delta + offset - 1, offset, NoLimit, cont)

\* ctrip_slaveTryPartialResynchronizationWrite, or redis' PSYNC with the cached
\* master: the answer of m to s.
masterAnaSyncRequest(m, s) ==
    IF s.mode = "psync" THEN masterAnaPsyncRequest(m, s.replid, s.offset + 1)
    ELSE masterAnaXsyncRequest(m, s.executed, s.force)

----------------------------------------------------------------------------
(* Connections.                                                            *)

\* The replica's repl_state, whether its master has it in server.slaves, and
\* what the master has sent and the replica has not read.
Closed == [link |-> "down", attached |-> FALSE, chan |-> <<>>]

Command(item) == [type |-> "cmd", item |-> item]
Eof == [type |-> "eof"]

Slaves(m) == {s \in Servers : master[s] = m /\ conn[s].attached}

\* disconnectSlaves: what was sent before is still read.
Kick(c, m) == [s \in Servers |-> IF s \in Slaves(m)
                                 THEN [c[s] EXCEPT !.attached = FALSE, !.chan = Append(@, Eof)]
                                 ELSE c[s]]

\* The server m feeds an item to its stream and its replicas.
FeedAll(c, m, r, item) ==
    /\ srv' = [srv EXCEPT ![m] = Feed(r, item)]
    /\ conn' = [s \in Servers |-> IF s \in Slaves(m)
                                  THEN [c[s] EXCEPT !.chan = Append(@, Command(item))]
                                  ELSE c[s]]

\* The replicas of m, and m, have another history to follow.
Forget(m) == [s \in Servers |-> IF s = m \/ master[s] = m THEN Unknown ELSE behind[s]]

\* One more mode of m to follow, for its replicas.
Missed(m) == [s \in Servers |-> IF master[s] = m /\ behind[s] # Unknown THEN behind[s] + 1
                                ELSE behind[s]]

----------------------------------------------------------------------------
(* Clients.                                                                *)

\* The gno after every own one.
NextGno(r) == 1 + Cardinality({g \in 1..MaxWrites : \E h \in g..MaxWrites :
                                                       <<r.uuid, h>> \in r.executed})

\* propagateArgsPrepareToFeed: a master's write gets a gtid if gtids are
\* enabled.
Write(s) ==
    LET r == srv[s]
        x == IF r.enabled THEN <<r.uuid, NextGno(r)>> ELSE NoGtid
        ran == [r EXCEPT !.data = Append(@, writes + 1),
                         !.executed = IF x = NoGtid THEN @ ELSE @ \cup {x}]
    IN  /\ master[s] = None /\ writes < MaxWrites
        /\ FeedAll(conn, s, ran, Item(r, x, writes + 1))
        /\ writes' = writes + 1
        /\ given' = given \cup ({x} \ {NoGtid})
        /\ reused' = reused \cup ({x} \cap given)
        /\ hidden' = (hidden \/ (~r.backlog /\ r.prev # Unset /\ r.from = r.offset + 1))
        /\ UNCHANGED <<master, ids, pings, disruptions, dropped, behind>>

\* The PING of a master to its replicas, or PUBLISH.
Ping(s) ==
    /\ master[s] = None /\ srv[s].backlog /\ pings < MaxPings
    /\ FeedAll(conn, s, srv[s], Item(srv[s], NoGtid, 0))
    /\ pings' = pings + 1
    /\ UNCHANGED <<master, ids, writes, disruptions, history, behind>>

----------------------------------------------------------------------------
(* What operators do, and what may go wrong.                               *)

Disruption == disruptions < MaxDisruptions /\ disruptions' = disruptions + 1

\* CONFIG SET gtid-enabled: a master changes its mode at once, a replica when
\* it is promoted.
SetEnabled(s) ==
    LET r == [srv[s] EXCEPT !.enabled = ~@]
    IN  /\ Disruption
        /\ IF master[s] = None
           THEN /\ srv' = [srv EXCEPT ![s] = serverReplStreamSwitchIfNeeded(r, ids + 1)]
                /\ conn' = Kick(conn, s)
                /\ ids' = ids + 1
                /\ behind' = Missed(s)
           ELSE srv' = [srv EXCEPT ![s] = r] /\ UNCHANGED <<conn, ids, behind>>
        /\ UNCHANGED <<master, writes, pings, history>>

\* redis: the replicas of the former master may go on with the new one.
shiftReplicationId(r, id) ==
    [r EXCEPT !.replid = id, !.replid2 = r.replid, !.off2 = r.offset + 1]

\* REPLICAOF NO ONE
Promote(s) ==
    LET r == srv[s]
    IN  /\ master[s] # None
        /\ Disruption
        /\ srv' = [srv EXCEPT ![s] = IF r.mode = EnabledMode(r) THEN shiftReplicationId(r, ids + 1)
                                     ELSE serverReplStreamSwitchIfNeeded(r, ids + 1)]
        /\ ids' = ids + 1
        /\ master' = [master EXCEPT ![s] = None]
        /\ conn' = [Kick(conn, s) EXCEPT ![s] = Closed]
        /\ behind' = Forget(s)
        /\ UNCHANGED <<writes, pings, history>>

\* The servers m gets its writes through, m included.
Above(m) ==
    LET up[n \in 0..Cardinality(Servers)] ==
            IF n = 0 THEN m ELSE IF up[n - 1] = None THEN None ELSE master[up[n - 1]]
    IN  {up[n] : n \in DOMAIN up}

\* REPLICAOF host port.  Operators make no rings of replicas: to swap two
\* servers they promote the replica first.
ReplicaOf(s, m) ==
    /\ s # m /\ s \notin Above(m) /\ m # master[s]
    /\ Disruption
    /\ master' = [master EXCEPT ![s] = m]
    /\ conn' = [Kick(conn, s) EXCEPT ![s] = Closed]
    /\ behind' = Forget(s)
    /\ UNCHANGED <<srv, ids, writes, pings, history>>

BreakLink(s) ==
    /\ conn[s].link # "down"
    /\ Disruption
    /\ conn' = [conn EXCEPT ![s] = Closed]
    /\ behind' = IF conn[s].link = "wait" THEN [behind EXCEPT ![s] = Unknown] ELSE behind
    /\ UNCHANGED <<srv, master, ids, writes, pings, history>>

\* A master without replicas frees its backlog after a while (redis, through
\* ctrip_freeReplicationBacklog).
DropBacklog(s) ==
    /\ master[s] = None /\ Slaves(s) = {} /\ srv[s].backlog
    /\ Disruption
    /\ srv' = [srv EXCEPT ![s] = [SetReplId(@, ids + 1) EXCEPT
                                     !.backlog = FALSE, !.items = <<>>, !.idx = {}]]
    /\ ids' = ids + 1
    /\ behind' = Forget(s)
    /\ UNCHANGED <<master, conn, writes, pings, history>>

\* ctrip_afterErrorReply: a command of the master's stream failed with a wrong
\* type, so the data differ.
WrongType(s) ==
    /\ conn[s].link = "up" /\ srv[s].mode = "xsync" /\ ~srv[s].wrong
    /\ Disruption
    /\ srv' = [srv EXCEPT ![s].wrong = TRUE]
    /\ UNCHANGED <<master, conn, ids, writes, pings, history, behind>>

----------------------------------------------------------------------------
(* The handshake.                                                          *)

\* What a full resync sends: +FULLRESYNC or +XFULLRESYNC, and the dataset.
FullResync(r, m) ==
    IF r.mode = "psync"
    THEN [type |-> "fullresync", replid |-> r.replid, reploff |-> r.offset, data |-> r.data]
    ELSE [type |-> "xfullresync", replid |-> r.replid, reploff |-> MasterReploff(r),
          muuid |-> getMasterUuid(r, master[m]), executed |-> r.executed, data |-> r.data]

\* masterSetupPartialSynchronization: the backlog from a.offset on.  A replica
\* with a limit is sent no more than that and disconnected.
Backlog(r, a) ==
    LET first == a.offset - r.boff + 1
        last == IF a.limit = NoLimit THEN Len(r.items) ELSE first + a.limit - 1
        items == SubSeq(r.items, first, last)
    IN  [i \in DOMAIN items |-> Command(items[i])] \o IF a.limit = NoLimit THEN <<>> ELSE <<Eof>>

Reply(r, m, a) ==
    IF a.type = "continue" THEN [type |-> "continue", replid |-> a.replid, reploff |-> a.reploff]
    ELSE [type |-> "xcontinue", replid |-> a.replid, reploff |-> a.reploff, cont |-> a.cont,
          muuid |-> getMasterUuid(r, master[m])]

\* A replica without a link asks, and the master answers if it has no master
\* itself or is connected to it (-NOMASTERLINK otherwise).  redis makes a new
\* history for the replica that creates the backlog with a full resync.  An
\* answer from before the backlog, which only a stale index gives, aborts the
\* master (XsyncInBacklog of ReplStream) and is left out.
Sync(s) ==
    LET m == master[s]
        a == masterAnaSyncRequest(srv[m], srv[s])
        r == CreateBacklog(IF a = Full /\ ~srv[m].backlog THEN SetReplId(srv[m], ids + 1)
                           ELSE srv[m])
        limited == a # Full /\ a.limit # NoLimit
    IN  /\ m # None /\ conn[s].link = "down"
        /\ master[m] # None => conn[m].link = "up"
        /\ a # Full => a.offset >= r.boff
        /\ srv' = [srv EXCEPT ![m] = r]
        /\ ids' = IF r.replid = srv[m].replid THEN ids ELSE ids + 1
        /\ conn' = [conn EXCEPT ![s] =
                      [link |-> "wait", attached |-> ~limited,
                       chan |-> IF a = Full THEN <<FullResync(r, m)>>
                                ELSE <<Reply(r, m, a)>> \o Backlog(r, a)]]
        /\ behind' = IF limited THEN behind ELSE [behind EXCEPT ![s] = 0]
        /\ UNCHANGED <<master, bounds, history>>

Reads(s, type) == conn[s].chan # <<>> /\ Head(conn[s].chan).type = type

\* The connections once s has read a message, having disconnected its own
\* replicas or not.
Read(s, kick) ==
    conn' = [(IF kick THEN Kick(conn, s) ELSE conn) EXCEPT ![s].link = "up", ![s].chan = Tail(@)]

\* ... and has become r, with a backlog (serverReplStreamResurrectCreate).
Become(s, r) == srv' = [srv EXCEPT ![s] = CreateBacklog(r)]

\* The behind of what follows s through another history.
ForgetSlaves(s) == [Forget(s) EXCEPT ![s] = behind[s]]

\* PSYNC => CONTINUE, by redis: the replication id may be new.
ReadContinuePsync(s) ==
    LET r == srv[s]
        id == Head(conn[s].chan).replid
    IN  /\ Reads(s, "continue") /\ r.mode = "psync"
        /\ Become(s, IF id = r.replid THEN r
                     ELSE [r EXCEPT !.replid = id, !.replid2 = r.replid, !.off2 = r.offset + 1])
        /\ Read(s, id # r.replid)
        /\ UNCHANGED <<master, ids, bounds, history, behind>>

\* XSYNC => CONTINUE
ReadContinueXsync(s) ==
    LET msg == Head(conn[s].chan)
    IN  /\ Reads(s, "continue") /\ srv[s].mode = "xsync"
        /\ Become(s, serverReplStreamSwitch2Psync(srv[s], msg.replid, msg.reploff))
        /\ Read(s, TRUE)
        /\ behind' = Missed(s)
        /\ UNCHANGED <<master, ids, bounds, history>>

\* PSYNC => XCONTINUE: the replica's sets become the master's.
ReadXcontinuePsync(s) ==
    LET msg == Head(conn[s].chan)
    IN  /\ Reads(s, "xcontinue") /\ srv[s].mode = "psync"
        /\ Become(s, serverReplStreamSwitch2Xsync(srv[s], msg.replid, msg.reploff, msg.muuid,
                                                  msg.cont))
        /\ Read(s, TRUE)
        /\ behind' = Missed(s)
        /\ dropped' = dropped \cup {srv[s].uuid}
        /\ UNCHANGED <<master, ids, bounds, given, reused, hidden>>

\* Mutant: only the offset is updated.
UpdatedOffset(r, msg) == [r EXCEPT !.delta = msg.reploff - r.offset, !.stale = FALSE]

\* serverReplStreamUpdateXsync, from the master and with nothing lost.
Updated(r, msg) ==
    [r EXCEPT !.muuid = msg.muuid, !.replid = msg.replid, !.delta = msg.reploff - r.offset,
              !.stale = FALSE]

\* XSYNC => XCONTINUE
ReadXcontinueXsync(s) ==
    LET r == Updated(srv[s], Head(conn[s].chan))
    IN  /\ Reads(s, "xcontinue") /\ srv[s].mode = "xsync"
        /\ Become(s, r)
        /\ Read(s, r # srv[s])
        /\ UNCHANGED <<master, ids, bounds, history, behind>>

\* FULLRESYNC, and serverReplStreamReset2Psync after the RDB is loaded.
ReadFullresync(s) ==
    LET msg == Head(conn[s].chan)
    IN  /\ Reads(s, "fullresync")
        /\ Become(s, [serverReplStreamReset2Psync(srv[s], msg.replid, msg.reploff)
                        EXCEPT !.data = msg.data])
        /\ Read(s, TRUE)
        /\ behind' = ForgetSlaves(s)
        /\ dropped' = dropped \cup {srv[s].uuid}
        /\ UNCHANGED <<master, ids, bounds, given, reused, hidden>>

\* XFULLRESYNC, and serverReplStreamReset2Xsync after the RDB is loaded.
ReadXfullresync(s) ==
    LET msg == Head(conn[s].chan)
    IN  /\ Reads(s, "xfullresync")
        /\ Become(s, [serverReplStreamReset2Xsync(srv[s], msg.replid, msg.reploff, msg.muuid,
                                                  msg.executed)
                        EXCEPT !.data = msg.data])
        /\ Read(s, TRUE)
        /\ behind' = ForgetSlaves(s)
        /\ dropped' = dropped \cup {srv[s].uuid}
        /\ UNCHANGED <<master, ids, bounds, given, reused, hidden>>

\* A write or a PING of the stream: a GTID command whose gtid the server has
\* is ignored, and all goes on to its own replicas.
ReadCommand(s) ==
    LET item == Head(conn[s].chan).item
        r == srv[s]
        ignored == item.write = 0 \/ item.gtid \in r.executed
        ran == IF ignored THEN r
               ELSE [r EXCEPT !.data = Append(@, item.write),
                              !.executed = IF item.gtid = NoGtid THEN @ ELSE @ \cup {item.gtid}]
    IN  /\ Reads(s, "cmd")
        /\ FeedAll([conn EXCEPT ![s].chan = Tail(@)], s, ran, item)
        /\ UNCHANGED <<master, ids, bounds, history, behind>>

ReadEof(s) ==
    /\ Reads(s, "eof")
    /\ conn' = [conn EXCEPT ![s] = Closed]
    /\ UNCHANGED <<srv, master, ids, bounds, history, behind>>

\* xsyncReplicationCron: the next XSYNC asks for a full resync.
forceXsyncFullResyncIfNeeded(s) ==
    /\ srv[s].mode = "xsync" /\ srv[s].wrong
    /\ srv' = [srv EXCEPT ![s].wrong = FALSE, ![s].force = TRUE]
    /\ conn' = IF conn[s].link = "up" THEN [conn EXCEPT ![s] = Closed] ELSE conn
    /\ UNCHANGED <<master, ids, bounds, history, behind>>

----------------------------------------------------------------------------
\* A tree of replicas: a server's master has a lower number.
Number == CHOOSE f \in [Servers -> 1..Cardinality(Servers)] :
              \A s, t \in Servers : s # t => f[s] # f[t]

Init == /\ \E enabled \in [Servers -> BOOLEAN] :
              srv = [s \in Servers |-> New(s, Number[s], enabled[s])]
        /\ master \in [Servers -> Servers \cup {None}]
        /\ \A s \in Servers : IF Number[s] = 1 THEN master[s] = None
                              ELSE \E m \in Servers : master[s] = m /\ Number[m] < Number[s]
        /\ conn = [s \in Servers |-> Closed]
        /\ ids = Cardinality(Servers)
        /\ writes = 0 /\ pings = 0 /\ disruptions = 0
        /\ given = {} /\ reused = {} /\ dropped = {} /\ hidden = FALSE
        /\ behind = [s \in Servers |-> Unknown]

\* What a server does by itself, in its event loop and its cron.
Step(s) == \/ Sync(s)
           \/ ReadContinuePsync(s) \/ ReadContinueXsync(s)
           \/ ReadXcontinuePsync(s) \/ ReadXcontinueXsync(s)
           \/ ReadFullresync(s) \/ ReadXfullresync(s)
           \/ ReadCommand(s) \/ ReadEof(s) \/ forceXsyncFullResyncIfNeeded(s)

Next == \E s \in Servers :
           \/ Step(s) \/ Write(s) \/ Ping(s)
           \/ SetEnabled(s) \/ Promote(s) \/ BreakLink(s) \/ DropBacklog(s) \/ WrongType(s)
           \/ \E m \in Servers : ReplicaOf(s, m)

Spec == Init /\ [][Next]_vars

\* A replica without a link tries again every second (replicationCron), a
\* master answers what it reads, and a replica reads what it is sent.
FairSpec == Spec /\ \A s \in Servers : WF_vars(Step(s))

----------------------------------------------------------------------------
(* Properties.                                                             *)

ReplIds == 0..(Cardinality(Servers) + 2 * MaxDisruptions + Cardinality(Servers))
Uuids == Servers \X (0..MaxDisruptions)
AllGtids == Uuids \X (1..MaxWrites)

\* Type invariant: among the rest, a backlog ends where the server's offset is.
TypeOK ==
    /\ \A s \in Servers :
         LET r == srv[s]
         IN  /\ r.uuid \in Uuids /\ r.muuid \in Uuids \cup {NoUuid}
             /\ r.executed \subseteq AllGtids /\ Len(r.data) <= MaxWrites
             /\ r.mode \in {"psync", "xsync"} /\ r.prev.mode \in {"unset", "psync", "xsync"} \ {r.mode}
             /\ {r.replid, r.replid2} \subseteq ReplIds
             /\ r.offset \in Nat /\ r.from \in 1..(r.offset + 1)
             /\ r.mode = "psync" => r.delta = 0
             /\ IF r.backlog THEN r.boff + Len(r.items) = r.offset + 1 /\ Len(r.items) <= BacklogSize
                ELSE r.items = <<>> /\ r.idx = {}
             /\ conn[s].link \in {"down", "wait", "up"}
             /\ behind[s] \in 0..MaxDisruptions \cup {Unknown}
             /\ master[s] \in (Servers \cup {None}) \ {s}
    /\ reused \subseteq given /\ given \subseteq AllGtids
    /\ writes \in 0..MaxWrites /\ pings \in 0..MaxPings /\ disruptions \in 0..MaxDisruptions

\* What a master has sent a replica of its own, but for the answer before it.
Commands(s) ==
    LET chan == conn[s].chan
    IN  IF chan # <<>> /\ Head(chan).type # "cmd" THEN Tail(chan) ELSE chan
Writes(items) ==
    LET ws[n \in 0..Len(items)] ==
            IF n = 0 THEN <<>>
            ELSE IF items[n].write = 0 THEN ws[n - 1] ELSE Append(ws[n - 1], items[n].write)
    IN  ws[Len(items)]
Sent(s) == [i \in DOMAIN Commands(s) |-> Commands(s)[i].item]
IsFull(c) == c.chan # <<>> /\ Head(c.chan).type \in {"fullresync", "xfullresync"}

\* As long as a master has a replica among its own, both have the same writes
\* in the same order once the replica has read what is on its way, whatever
\* modes and roles they came from and however the replica was continued: in
\* psync writes have no gtid, and only offsets and replication ids tell.
SameData ==
    \A s \in Servers : conn[s].attached /\ reused = {} /\ ~hidden =>
        (IF IsFull(conn[s]) THEN Head(conn[s].chan).data ELSE srv[s].data) \o Writes(Sent(s))
            = srv[master[s]].data

\* A connected replica in either mode counts the stream as its master does:
\* the same replication id, and once it has read what is on its way the same
\* gtid_master_repl_offset.
OffsetsAligned ==
    \A s \in Servers : conn[s].attached /\ conn[s].link = "up" =>
        LET m == srv[master[s]]
        IN  /\ srv[s].mode = m.mode
            /\ srv[s].replid = m.replid
            /\ srv[s].stale \/ MasterReploff(srv[s]) + Len(Sent(s)) = MasterReploff(m)

\* A connected xsync replica knows the uuid of the server whose writes it gets,
\* through every server in between.
MasterUuidKnown ==
    \A s \in Servers : conn[s].attached /\ conn[s].link = "up" /\ srv[s].mode = "xsync" =>
        srv[s].muuid = getMasterUuid(srv[master[s]], master[master[s]])

\* Two writes get the same gtid only if the server was given another's history
\* in between, which may leave it its uuid and take its gtids.
GtidNamesOneWrite == \A x \in reused : x[1] \in dropped

\* What a replica lacks of its master, if the backlog still has it.
Continuable(s) ==
    LET m == srv[master[s]]
    IN  /\ m.backlog
        /\ srv[s].mode = "psync" => srv[s].offset + 1 >= m.boff
        /\ \E n \in 1..(Len(m.items) + 1) :
              srv[s].data \o Writes(SubSeq(m.items, n, Len(m.items))) = m.data

\* A replica that follows its master through a change of mode, with whatever
\* it had not read yet, is continued: it takes a second change, a lost backlog
\* or a forced resync to make it a full one.  (A replica that has no gtid in
\* common with its master is not related to it.)
FollowersContinue ==
    [][\A s \in Servers :
          /\ conn[s].link = "down" /\ conn'[s].link = "wait" /\ IsFull(conn'[s])
          /\ behind[s] \in {0, 1} /\ Continuable(s)
          => srv[s].mode = "xsync" /\ (srv[s].force \/ srv[s].executed = {})]_vars

Converged(s) == conn[s].attached /\ conn[s].link = "up" /\ conn[s].chan = <<>>

\* When nothing goes wrong any more, every replica below a master ends up
\* connected, in whatever modes they were.
Converges == <>[](\A s \in Servers : master[s] # None => Converged(s))
=============================================================================
