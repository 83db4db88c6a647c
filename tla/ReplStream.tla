----------------------------- MODULE ReplStream -----------------------------
(***************************************************************************)
(* One server's replication stream (xredis_gtid_rs.c) and its answers to   *)
(* the replicas that ask to continue it (the masterAna*Request functions   *)
(* of xredis_gtid_repl.c): the backlog window, the gtid_seq index over it, *)
(* the current and the previous replication mode and where they begin.     *)
(*                                                                         *)
(* The index is the plain one of module GtidIndex, which GtidSeq           *)
(* implements.  A gtid is a pair of a uuid and a gno, and a gtid.set a set *)
(* of gtids.  Replication ids are left out: a PSYNC request only says      *)
(* whether the id it names is one the server accepts up to that offset.    *)
(* The server may be a master or a replica with replicas of its own: both  *)
(* feed the same stream.  A transaction is one command, at the offset of    *)
(* its MULTI.  Every server knows the commands it is sent, and no gtid      *)
(* leaves the sets but by a reset: GTIDX REMOVE is left out.                *)
(***************************************************************************)
EXTENDS Integers, FiniteSets

CONSTANTS Uuids,        \* source ids
          Self,         \* server.uuid
          MaxGno,       \* bound on the gnos
          Gtids,        \* the gtids there are
          MaxOffset,    \* bound on the stream
          BacklogSize,  \* server.repl_backlog_size
          MaxSize,      \* largest command
          Snapshots,    \* the executed and lost sets a switch or a reset can
                        \* install
          Reploffs,     \* the offsets they can install
          Gaps          \* the maxgap values of the requests

ASSUME ConstantsAssumption ==
    /\ MaxGno \in Nat \ {0} /\ MaxOffset \in Nat \ {0}
    /\ BacklogSize \in Nat \ {0} /\ MaxSize \in Nat \ {0}
    /\ Self \in Uuids /\ Gtids \subseteq Uuids \X (1..MaxGno) /\ IsFiniteSet(Gtids)
    /\ Snapshots \subseteq [executed : SUBSET Gtids, lost : SUBSET Gtids]
    /\ Reploffs \subseteq 0..(MaxOffset - 1) /\ Gaps \subseteq Nat

VARIABLES executed,  \* server.gtid_executed
          lost,      \* server.gtid_lost
          mode,      \* server.repl_mode
          prev,      \* server.prev_repl_mode
          backlog,   \* whether server.repl_backlog and gtid_seq exist
          off,       \* server.repl_backlog_off
          next,      \* server.master_repl_offset + 1
          idx,       \* server.gtid_seq, as in GtidIndex
          stream     \* what the backlog's bytes are (history)

sets == <<executed, lost>>
modes == <<mode, prev>>
vars == <<executed, lost, mode, prev, backlog, off, next, idx, stream>>

Index == INSTANCE GtidIndex

NoGtid == <<>>
GtidOf(e) == <<e.uuid, e.gno>>
Unset == [mode |-> "unset", from |-> -1]

\* serverGtidSetGet
M == executed \cup lost

----------------------------------------------------------------------------
(* Feeding the stream.                                                     *)

Max(a, b) == IF a < b THEN b ELSE a

\* replicationFeedSlaves: the backlog keeps the last BacklogSize bytes.
OffAfter(size) == Max(off, next + size - BacklogSize)

Feed(size, gtid) ==
    /\ next + size <= MaxOffset + 1     \* bound
    /\ next' = next + size
    /\ off' = OffAfter(size)
    /\ stream' = {c \in stream \cup {[offset |-> next, size |-> size,
                                      gtid |-> gtid, mode |-> mode.mode]} :
                    c.offset + c.size > off'}

\* Mutant: the offset is taken after the feed.
TouchAfterFeed(u, g) ==
    idx' = {e \in idx \cup {[uuid |-> u, gno |-> g, offset |-> next']} : e.offset >= off'}

\* gtidSeqAppend before the feed, gtidSeqTrim after it.
TouchIndex(u, g) ==
    idx' = {e \in idx \cup {[uuid |-> u, gno |-> g, offset |-> next]} : e.offset >= off'}

\* A command with a gtid: the server's own write, or one its master or a
\* client sent as GTID u:g, in either mode.  The gtid is new to the server
\* (serverGtidSetContains).  Without a backlog there is no stream.
CommandWithGtid(x, size) ==
    /\ x \notin M
    /\ executed' = executed \cup {x}
    /\ IF backlog THEN Feed(size, x) /\ TouchIndex(x[1], x[2])
       ELSE UNCHANGED <<off, next, idx, stream>>
    /\ UNCHANGED <<lost, modes, backlog>>

\* A command the server's master sent and the server ignores, as its gtid is in
\* the set: it is forwarded to the server's own replicas, and indexed, all the
\* same (ctrip_replicationFeedSlavesFromMasterStream).
CommandIgnored(x, size) ==
    /\ x \in M /\ backlog
    /\ Feed(size, x) /\ TouchIndex(x[1], x[2])
    /\ UNCHANGED <<sets, modes, backlog>>

\* A command without: PUBLISH, PING, or any write while gtids are disabled.
\* The index is not touched.
CommandWithout(size) ==
    /\ backlog
    /\ Feed(size, NoGtid)
    /\ UNCHANGED <<sets, modes, backlog, idx>>

----------------------------------------------------------------------------
(* The backlog and the index.                                              *)

ctrip_createReplicationBacklog ==
    /\ ~backlog
    /\ backlog' = TRUE /\ off' = next /\ idx' = {} /\ stream' = {}
    /\ UNCHANGED <<sets, modes, next>>

ctrip_resizeReplicationBacklog ==
    /\ backlog
    /\ off' = next /\ idx' = {} /\ stream' = {}
    /\ UNCHANGED <<sets, modes, backlog, next>>

ctrip_freeReplicationBacklog ==
    /\ backlog
    /\ backlog' = FALSE /\ idx' = {} /\ stream' = {}
    /\ UNCHANGED <<sets, modes, off, next>>

\* Mutant: the index outlives the bytes it points at.
RestartKeepsIndex(reploff) ==
    /\ next' = reploff + 1
    /\ off' = IF backlog THEN reploff + 1 ELSE off
    /\ stream' = {}
    /\ UNCHANGED <<backlog, idx>>

\* ctrip_resetReplicationBacklog, after master_repl_offset became reploff.
BacklogRestartsAt(reploff) ==
    /\ next' = reploff + 1
    /\ off' = IF backlog THEN reploff + 1 ELSE off
    /\ idx' = {} /\ stream' = {}
    /\ UNCHANGED backlog

----------------------------------------------------------------------------
(* Mode changes.                                                           *)

\* Mutant: the mode begins at the last byte of the one before.
ShiftOneEarly(m) ==
    /\ mode.mode # m
    /\ prev' = mode
    /\ mode' = [mode |-> m, from |-> next' - 1]

shiftServerReplMode(m) ==
    /\ mode.mode # m
    /\ prev' = mode
    /\ mode' = [mode |-> m, from |-> next']

resetServerReplMode(m) ==
    /\ prev' = Unset
    /\ mode' = [mode |-> m, from |-> next']

\* gtid-enabled turned off, or +CONTINUE from the master: the stream goes on
\* from reploff, and the backlog is dropped if that is not where it was.
serverReplStreamSwitch2Psync(reploff) ==
    /\ IF reploff + 1 = next THEN UNCHANGED <<backlog, off, next, idx, stream>>
       ELSE BacklogRestartsAt(reploff)
    /\ shiftServerReplMode("psync")
    /\ UNCHANGED sets

\* gtid-enabled turned on (with empty sets), or +XCONTINUE to a psync replica.
serverReplStreamSwitch2Xsync(s) ==
    /\ executed' = s.executed /\ lost' = s.lost
    /\ idx' = {}
    /\ UNCHANGED <<backlog, off, next, stream>>
    /\ shiftServerReplMode("xsync")

\* Full resync or restart.
serverReplStreamReset2Psync(reploff) ==
    /\ BacklogRestartsAt(reploff)
    /\ resetServerReplMode("psync")
    /\ UNCHANGED sets

serverReplStreamReset2Xsync(s, reploff) ==
    /\ BacklogRestartsAt(reploff)
    /\ resetServerReplMode("xsync")
    /\ executed' = s.executed /\ lost' = s.lost

----------------------------------------------------------------------------
(* Locating a request.                                                     *)

\* Mutant: the offset the mode begins at is still the previous mode's.
LocatePrevInclusive(m, offset) ==
    IF offset > mode.from THEN IF m = mode.mode THEN "cur" ELSE "invalid"
    ELSE IF prev.mode = m /\ offset >= prev.from THEN "prev"
    ELSE IF m = mode.mode THEN "cur" ELSE "invalid"

locateServerReplMode(m, offset) ==
    IF offset > mode.from THEN IF m = mode.mode THEN "cur" ELSE "invalid"
    ELSE IF offset = mode.from
    THEN IF m = mode.mode THEN "cur" ELSE IF prev = Unset THEN "invalid" ELSE "switch"
    ELSE IF prev = Unset \/ offset < prev.from \/ m # prev.mode THEN "invalid" ELSE "prev"

\* The answer to a request: what to do, from which offset on, up to which
\* (Forever if the stream just goes on), what the replica is told to count as
\* had (cont) and what the server itself takes for lost (mlost).
Forever == MaxOffset + 2
Full == [action |-> "full"]

\* gtidSetRelated: a common uuid.  The own uuidSet of the server always
\* exists, possibly empty.
gtidSetRelated(S) == \E x \in S : x[1] = Self \/ \E y \in M : y[1] = x[1]

\* uuidSetNext of the replica's set, per uuid.
Need(S) == [u \in Uuids |->
              CHOOSE n \in 1..(MaxGno + 1) :
                  /\ \A g \in n..MaxGno : <<u, g>> \notin S
                  /\ n > 1 => <<u, n - 1>> \in S]

\* Mutant: the gap counts what the replica lacks only.
GapOneSided(mexec, sexec) == Cardinality(mexec \ sexec)

Gap(mexec, sexec) == Cardinality(mexec \ sexec) + Cardinality(sexec \ mexec)

\* masterAnaXsyncRequest, for a replica with gtid.set S of which slost is
\* lost.
masterAnaXsyncRequest(S, slost, maxgap) ==
    LET lacking == Index!Lacking(idx, Need(S))
        xsync == {GtidOf(e) : e \in lacking}
        offset == IF lacking # {}
                  THEN (CHOOSE e \in lacking : \A f \in lacking : e.offset <= f.offset).offset
                  ELSE IF backlog /\ mode.mode = "psync" THEN mode.from ELSE next
        type == locateServerReplMode("xsync", offset)
        cont == M \ xsync
        gap == Gap(executed \ xsync, S \ slost)
    IN  IF \/ ~gtidSetRelated(S)
           \/ mode.mode = "psync" /\ offset < off
           \/ type = "invalid"
           \/ gap > maxgap
        THEN Full
        ELSE [action |-> IF type = "switch" THEN "continue" ELSE "xcontinue",
              offset |-> offset,
              limit |-> IF type = "prev" THEN mode.from ELSE Forever,
              cont |-> cont,
              mlost |-> S \ cont]

\* masterAnaPsyncRequest, for a replica whose replication id is good up to
\* that offset.  "nop" leaves the answer to redis, which continues.
masterAnaPsyncRequest(offset) ==
    LET type == locateServerReplMode("psync", offset)
        xsync == {GtidOf(e) : e \in Index!From(idx, offset)}
    IN  IF ~backlog \/ offset < off \/ offset > next \/ type = "invalid" THEN Full
        ELSE [action |-> IF type = "prev" THEN "continue"
                         ELSE IF type = "switch" THEN "xcontinue" ELSE "nop",
              offset |-> offset,
              limit |-> IF type = "prev" THEN mode.from ELSE Forever,
              cont |-> IF type = "switch" THEN M \ xsync ELSE {},
              mlost |-> {}]

\* masterReplySyncRequest: take mlost for lost (serverReplStreamUpdateXsync),
\* then set the replica up, with a new backlog if there was none.
masterReplySyncRequest(result) ==
    /\ result.action \in {"xcontinue", "continue"}
    /\ lost' = lost \cup result.mlost
    /\ IF backlog THEN UNCHANGED <<backlog, off, idx, stream>>
       ELSE backlog' = TRUE /\ off' = next /\ idx' = {} /\ stream' = {}
    /\ UNCHANGED <<executed, modes, next>>

\* XCONTINUE from this server's own master, or GTIDX ADD LOST: what it will not
\* get is lost.
AddLost(delta) ==
    /\ delta \cap M = {}
    /\ lost' = lost \cup delta
    /\ UNCHANGED <<executed, modes, backlog, off, next, idx, stream>>

----------------------------------------------------------------------------
Init == /\ executed = {} /\ lost = {}
        /\ mode \in [mode : {"psync", "xsync"}, from : {1}] /\ prev = Unset
        /\ backlog = FALSE /\ off = 0 /\ next = 1
        /\ idx = {} /\ stream = {}

Requests == {r \in [S : SUBSET Gtids, slost : SUBSET Gtids, maxgap : Gaps] : r.slost \subseteq r.S}
AnaXsync(r) == masterAnaXsyncRequest(r.S, r.slost, r.maxgap)

Next == \/ \E x \in Gtids, size \in 1..MaxSize : CommandWithGtid(x, size)
        \/ \E x \in Gtids, size \in 1..MaxSize : CommandIgnored(x, size)
        \/ \E size \in 1..MaxSize : CommandWithout(size)
        \/ ctrip_createReplicationBacklog
        \/ ctrip_resizeReplicationBacklog
        \/ ctrip_freeReplicationBacklog
        \/ \E reploff \in Reploffs : serverReplStreamSwitch2Psync(reploff)
        \/ \E s \in Snapshots : serverReplStreamSwitch2Xsync(s)
        \/ \E reploff \in Reploffs : serverReplStreamReset2Psync(reploff)
        \/ \E s \in Snapshots, reploff \in Reploffs : serverReplStreamReset2Xsync(s, reploff)
        \/ \E r \in Requests : masterReplySyncRequest(AnaXsync(r))
        \/ \E offset \in 1..next : masterReplySyncRequest(masterAnaPsyncRequest(offset))
        \/ \E x \in Gtids : AddLost({x})

Spec == Init /\ [][Next]_vars

----------------------------------------------------------------------------
(* Properties.                                                             *)

\* Type invariant.
Modes == [mode : {"psync", "xsync"}, from : 1..(MaxOffset + 1)]
TypeOK ==
    /\ executed \subseteq Gtids /\ lost \subseteq Gtids
    /\ mode \in Modes /\ prev \in Modes \cup {Unset}
    /\ backlog \in BOOLEAN
    /\ off \in 0..(MaxOffset + 1) /\ next \in 1..(MaxOffset + 1)
    /\ idx \subseteq Index!Entry
    /\ stream \subseteq [offset : 1..MaxOffset, size : 1..MaxSize,
                         gtid : Gtids \cup {NoGtid}, mode : {"psync", "xsync"}]

\* The commands of the backlog in a range of offsets, and their gtids.
Commands(first, end) == {c \in stream : c.offset >= first /\ c.offset < end}
Sent(first, end) == {c.gtid : c \in Commands(first, end)} \ {NoGtid}

\* Whatever offset the index gives for a gtid, if the backlog still holds it
\* the command at that offset is that gtid's; and every gtid the backlog holds
\* whole since the current xsync history began is in the index.
IndexFaithful ==
    LET era == IF mode.mode = "xsync" THEN mode.from ELSE prev.from
    IN  /\ \A e \in idx : e.offset >= off =>
              \E c \in stream : c.offset = e.offset /\ c.gtid = GtidOf(e)
        /\ \A c \in stream :
              c.gtid # NoGtid /\ c.offset >= off /\ c.offset >= era =>
                 \E e \in idx : c.offset = e.offset /\ c.gtid = GtidOf(e)

\* The answers in a state, to a replica of either mode.
XAnswers == {[r |-> r, a |-> AnaXsync(r)] : r \in Requests}
PAnswers == {masterAnaPsyncRequest(offset) : offset \in 1..next}
Accepted(a) == a # Full /\ a.offset >= off

\* A replica that is told to continue in xsync mode ends up with exactly the
\* server's gtid.set: what it is told to count as had and what the stream still
\* holds are disjoint and together are all the server has; and nothing it has
\* already is sent again.
ContinueExact ==
    /\ \A x \in XAnswers : Accepted(x.a) /\ x.a.action = "xcontinue" =>
          /\ x.a.cont \cup Sent(x.a.offset, Forever) = M
          /\ x.a.cont \cap Sent(x.a.offset, Forever) = {}
          /\ x.r.S \cap Sent(x.a.offset, Forever) = {}
    /\ \A a \in PAnswers : Accepted(a) /\ a.action = "xcontinue" =>
          /\ a.cont \cup Sent(a.offset, Forever) = M
          /\ a.cont \cap Sent(a.offset, Forever) = {}

\* No replica is sent a byte of the other mode: up to the limit, everything
\* from its offset on was written in the mode it was told to continue in.
ModePure ==
    \A a \in {x.a : x \in XAnswers} \cup PAnswers : Accepted(a) =>
        LET told == IF a.action = "xcontinue" THEN "xsync" ELSE "psync"
        IN  \A c \in Commands(a.offset, a.limit) :
               c.mode = told /\ c.offset + c.size <= a.limit

\* When the server continues a replica, what one of them executed and the
\* other never will is bounded by the gap the replica asked for.
GapBounded ==
    \A x \in XAnswers : Accepted(x.a) =>
        LET sexec == x.r.S \ x.r.slost
            sent == Sent(x.a.offset, Forever)
        IN  Cardinality(executed \ (sexec \cup sent))
               + Cardinality(sexec \ executed) <= x.r.maxgap

\* A replica that continues is answered from the backlog:
\* serverAssert(offset >= server.repl_backlog_off) in
\* masterSetupPartialSynchronization.  The psync answers and the xsync ones in
\* psync mode check it first.
XsyncInBacklog ==
    mode.mode = "xsync" /\ backlog => \A x \in XAnswers : x.a # Full => x.a.offset >= off
=============================================================================
