------------------------------ MODULE XsyncRepl -----------------------------
(***************************************************************************)
(* Servers in xsync mode that replicate to one another: the XSYNC request, *)
(* the XCONTINUE and XFULLRESYNC answers, the streams of commands, and the *)
(* disconnections that follow a change of gtid.lost.  Any server may be    *)
(* made a master or a replica of any other at any time (REPLICAOF), so     *)
(* there are old masters with writes of their own and chains of replicas.  *)
(*                                                                         *)
(* A server's uuid is the server; the backlog and its index are the last   *)
(* LogSize commands with a gtid.  What redis does is kept to the minimum   *)
(* the code in src/ relies on: connections are FIFO and may break, a       *)
(* replica without its own master link refuses to be synced with, and a    *)
(* full resync drops the replica's backlog and its own replicas.           *)
(*                                                                         *)
(* The gno of an own write comes from the cursor of module ServerGtid.  A  *)
(* step in which the assert on it fails does not happen: that server has   *)
(* stopped, and for the others its links break.                            *)
(***************************************************************************)
EXTENDS Integers, Sequences, FiniteSets

CONSTANTS Servers,
          None,            \* no master
          MaxGno,          \* bound on the writes of a server
          MaxGap,          \* gtid-xsync-max-gap
          LogSize,         \* commands the backlog holds
          MaxDisruptions   \* bound on REPLICAOFs, broken links, restarts
                           \* and lost backlogs

ASSUME ConstantsAssumption ==
    /\ IsFiniteSet(Servers) /\ None \notin Servers
    /\ MaxGno \in Nat \ {0} /\ MaxGap \in Nat
    /\ LogSize \in Nat \ {0} /\ MaxDisruptions \in Nat

Gtids == Servers \X (1..MaxGno)

VARIABLES executed,     \* server.gtid_executed
          lost,         \* server.gtid_lost
          curnext,      \* server.gtid_executed->curnext, 0 when not set
          log,          \* gtids of the backlog, oldest first
          master,       \* server.masterhost, or None
          conn,         \* the replica's connection to its master
          disruptions,
          written,      \* gtids given to a write so far (history)
          reused,       \* gtids given to two writes (history)
          forgotten,    \* own gtids dropped in a full resync, or in a restart
                        \* from an RDB without gtid fields (history)
          returned      \* own gtids that a server's master sent back to it,
                        \* at or after its cursor (history)

sets == <<executed, lost, curnext>>
history == <<written, reused, forgotten, returned>>
vars == <<sets, log, master, conn, disruptions, history>>

\* serverGtidSetGet
M(s) == executed[s] \cup lost[s]

\* A connection: the replica's repl_state, the XSYNC request it sent, whether
\* the master has it in server.slaves, and what the master has sent and the
\* replica has not read.
Closed == [link |-> "down", S |-> {}, slost |-> {}, attached |-> FALSE, chan |-> <<>>]

Command(x) == [type |-> "cmd", gtid |-> x]
Eof == [type |-> "eof"]

\* Closed by the master: what was sent before is still read.
Kicked(c) == [c EXCEPT !.attached = FALSE, !.chan = Append(@, Eof)]

Slaves(m) == {s \in Servers : master[s] = m /\ conn[s].attached}

----------------------------------------------------------------------------
(* The stream.                                                             *)

\* Mutant: it keeps one more.
PushOneMore(l, x) == LET k == Append(l, x) IN IF Len(k) > LogSize + 1 THEN Tail(k) ELSE k

\* The backlog keeps the last LogSize commands.
Push(l, x) == LET k == Append(l, x) IN IF Len(k) > LogSize THEN Tail(k) ELSE k

\* ctrip_replicationFeedSlaves, ctrip_replicationFeedSlavesFromMasterStream
Feed(c, m, x) ==
    /\ log' = [log EXCEPT ![m] = Push(@, x)]
    /\ conn' = [s \in Servers |-> IF s \in Slaves(m)
                                  THEN [c[s] EXCEPT !.chan = Append(@, Command(x))]
                                  ELSE c[s]]

----------------------------------------------------------------------------
(* The gno of the next own write: of server s with executed set x, lost    *)
(* set l and cursor c.                                                     *)

\* One after the greatest own gno.
uuidSetNext(s, x) == 1 + Cardinality({g \in 1..MaxGno : \E h \in g..MaxGno : <<s, h>> \in x})

gtidSetCurrentUuidSetNext(s, x, c) == IF c = 0 THEN uuidSetNext(s, x) ELSE c

\* serverGtidSetCurrrentUuidSetUpdateNextGno
UpdateNextGno(s, x, l, c) ==
    IF gtidSetCurrentUuidSetNext(s, x, c) < uuidSetNext(s, l) THEN uuidSetNext(s, l) ELSE c

\* assert(uuidSetNext(gtid_set->current,0) <= curnext), when it is reached.
NextGnoAssert(s, x, l, c) ==
    gtidSetCurrentUuidSetNext(s, x, c) < uuidSetNext(s, l) => uuidSetNext(s, x) <= uuidSetNext(s, l)

\* What a growth of gtid.lost by delta does to the sets (nothing if delta is
\* empty).
serverGtidSetAddLost(s, delta) ==
    LET l == lost[s] \cup delta
    IN  /\ NextGnoAssert(s, executed[s], l, curnext[s])
        /\ lost' = [lost EXCEPT ![s] = l]
        /\ curnext' = [curnext EXCEPT ![s] = UpdateNextGno(s, executed[s], l, @)]

\* Mutant: the new sets start without a cursor.
ResetWithoutCursor(s, oldlost, x, l) ==
    /\ executed' = [executed EXCEPT ![s] = x]
    /\ lost' = [lost EXCEPT ![s] = l]
    /\ curnext' = [curnext EXCEPT ![s] = 0]

\* serverGtidSetResetExecuted, which still sees the old lost set, and then
\* serverGtidSetResetLost.
ResetSets(s, oldlost, x, l) ==
    /\ executed' = [executed EXCEPT ![s] = x]
    /\ lost' = [lost EXCEPT ![s] = l]
    /\ curnext' = [curnext EXCEPT ![s] = UpdateNextGno(s, x, l, UpdateNextGno(s, x, oldlost, 0))]

NextGno(s) == gtidSetCurrentUuidSetNext(s, executed[s], curnext[s])

\* A client writes to a master.
Write(s) ==
    LET x == <<s, NextGno(s)>>
    IN  /\ master[s] = None /\ x \in Gtids
        /\ executed' = [executed EXCEPT ![s] = @ \cup {x}]
        /\ curnext' = [curnext EXCEPT ![s] = 0]
        /\ Feed(conn, s, x)
        /\ written' = written \cup {x}
        /\ reused' = reused \cup ({x} \cap written)
        /\ UNCHANGED <<lost, master, disruptions, forgotten, returned>>

----------------------------------------------------------------------------
(* What may go wrong.                                                      *)

Disruption == disruptions < MaxDisruptions /\ disruptions' = disruptions + 1

\* REPLICAOF host port, or REPLICAOF NO ONE.
ReplicaOf(s, m) ==
    /\ m # s /\ m # master[s]
    /\ Disruption
    /\ master' = [master EXCEPT ![s] = m]
    /\ conn' = [conn EXCEPT ![s] = Closed]
    /\ UNCHANGED <<sets, log, history>>

BreakLink(s) ==
    /\ conn[s].link # "down"
    /\ Disruption
    /\ conn' = [conn EXCEPT ![s] = Closed]
    /\ UNCHANGED <<sets, log, master, history>>

\* The backlog of a server without replicas is freed after a while, or it is
\* resized.
DropBacklog(s) ==
    /\ log[s] # <<>>
    /\ Disruption
    /\ log' = [log EXCEPT ![s] = <<>>]
    /\ UNCHANGED <<sets, master, conn, history>>

\* Own gtids that s has and will not have in X.
Forgets(s, X) == forgotten' = forgotten \cup ({x \in M(s) : x[1] = s} \ X)

\* A clean restart: the backlog and the connections are gone.  The RDB that was
\* saved has both sets (serverReplStreamReset2Xsync), or, of a master that was
\* in no replication history, no gtid field (rsi is NULL in
\* rdbSaveInfoAuxFieldsGtid): then the sets are the empty ones of a new server.
Restart(s) ==
    /\ Disruption
    /\ \/ ResetSets(s, {}, executed[s], lost[s]) /\ UNCHANGED forgotten
       \/ /\ master[s] = None /\ log[s] = <<>>
          /\ ResetSets(s, {}, {}, {}) /\ Forgets(s, {})
    /\ log' = [log EXCEPT ![s] = <<>>]
    /\ conn' = [r \in Servers |-> IF r \in {s} \cup Slaves(s) THEN Closed ELSE conn[r]]
    /\ UNCHANGED <<master, written, reused, returned>>

----------------------------------------------------------------------------
(* The request and its answer.                                             *)

\* ctrip_slaveTryPartialResynchronizationWrite
Request(s) ==
    /\ master[s] # None /\ conn[s].link = "down"
    /\ conn' = [conn EXCEPT ![s] = [Closed EXCEPT !.link = "wait", !.S = M(s), !.slost = lost[s]]]
    /\ UNCHANGED <<sets, log, master, disruptions, history>>

gtidSetRelated(m, S) == \E x \in S : x[1] = m \/ \E y \in M(m) : y[1] = x[1]

\* gno < uuidSetNext of the replica's set.
HadBy(S, x) == \E y \in S : y[1] = x[1] /\ x[2] <= y[2]

\* Mutant: from the first command the replica lacks, whatever it has after it.
XsyncFromFirst(l, S) ==
    LET had == {i \in DOMAIN l : \A j \in 1..i : HadBy(S, l[j])}
    IN  SubSeq(l, Cardinality(had) + 1, Len(l))

\* gtidSeqXsync: the commands after the last one the replica has.
gtidSeqXsync(l, S) ==
    LET had == {i \in DOMAIN l : \E j \in i..Len(l) : HadBy(S, l[j])}
    IN  SubSeq(l, Cardinality(had) + 1, Len(l))

SetOf(l) == {l[i] : i \in DOMAIN l}

\* Mutant: the gap counts what the replica lacks only.
GapOneSided(mexec, sexec) == Cardinality(mexec \ sexec)

Gap(mexec, sexec) == Cardinality(mexec \ sexec) + Cardinality(sexec \ mexec)

\* Mutant: the replicas are not told that gtid.lost has changed.
UpdateKeepsSlaves(m, updated, trigger) ==
    IF ~updated THEN conn
    ELSE [s \in Servers |-> IF s = m /\ trigger # None THEN Closed ELSE conn[s]]

\* Mutant: the server does not ask its own master again.
UpdateKeepsMaster(m, updated, trigger) ==
    IF ~updated THEN conn
    ELSE [s \in Servers |-> IF s \in Slaves(m) \ {trigger} THEN Kicked(conn[s]) ELSE conn[s]]

\* serverReplStreamUpdateXsync: the connections once gtid.lost of m has grown
\* because of the replica trigger, or gtid.lost, master.uuid, replid or the
\* offset has changed because of its master (trigger is None).  Every other
\* replica is disconnected, and m asks its own master again.
UpdateXsync(m, updated, trigger) ==
    IF ~updated THEN conn
    ELSE [s \in Servers |-> IF s = m /\ trigger # None THEN Closed
                            ELSE IF s \in Slaves(m) \ {trigger} THEN Kicked(conn[s])
                            ELSE conn[s]]

\* The master answers; its own master, if it has one, must be connected
\* (-NOMASTERLINK: the replica tries again later).
NoMasterLink(s) ==
    LET m == master[s]
    IN  /\ m # None /\ conn[s].link = "wait" /\ conn[s].chan = <<>>
        /\ master[m] # None /\ conn[m].link # "up"
        /\ conn' = [conn EXCEPT ![s] = Closed]
        /\ UNCHANGED <<sets, log, master, disruptions, history>>

\* masterAnaXsyncRequest, masterReplySyncRequest, masterSetupPartialSynchronization
\* and replicationSetupSlaveForXFullResync.
Answer(s) ==
    LET m == master[s]
        S == conn[s].S
        xsync == gtidSeqXsync(log[m], S)
        cont == M(m) \ SetOf(xsync)
        mlost == S \ cont
        partial == /\ gtidSetRelated(m, S)
                   /\ Gap(executed[m] \ SetOf(xsync), S \ conn[s].slost) <= MaxGap
    IN  /\ m # None /\ conn[s].link = "wait" /\ conn[s].chan = <<>>
        /\ master[m] # None => conn[m].link = "up"
        /\ IF partial
           THEN /\ serverGtidSetAddLost(m, mlost)
                /\ conn' = [UpdateXsync(m, mlost # {}, s) EXCEPT
                              ![s].attached = TRUE,
                              ![s].chan = <<[type |-> "xcontinue", cont |-> cont]>>
                                          \o [i \in DOMAIN xsync |-> Command(xsync[i])]]
           ELSE /\ conn' = [conn EXCEPT
                              ![s].attached = TRUE,
                              ![s].chan = <<[type |-> "xfullresync",
                                             executed |-> executed[m], lost |-> lost[m]]>>]
                /\ UNCHANGED <<lost, curnext>>
        /\ UNCHANGED <<executed, log, master, disruptions, history>>

----------------------------------------------------------------------------
(* The replica reads.                                                      *)

Reads(s, type) == conn[s].chan # <<>> /\ Head(conn[s].chan).type = type

\* The connections c once s has read a message.
Read(c, s) == [c EXCEPT ![s].link = "up", ![s].chan = Tail(@)]

\* ctrip_slaveTryPartialResynchronizationRead, XSYNC => XCONTINUE: what the
\* master has and will not send is lost.  The answer's MASTER.UUID, REPLID and
\* REPLOFF may tell something new as well.
ReadXcontinue(s) ==
    LET slost == Head(conn[s].chan).cont \ M(s)
    IN  /\ Reads(s, "xcontinue")
        /\ serverGtidSetAddLost(s, slost)
        /\ \E moved \in BOOLEAN : conn' = Read(UpdateXsync(s, slost # {} \/ moved, None), s)
        /\ UNCHANGED <<executed, log, master, disruptions, history>>

\* XSYNC => XFULLRESYNC, and serverReplStreamReset2Xsync after the RDB is
\* loaded.
ReadXfullresync(s) ==
    LET full == Head(conn[s].chan)
    IN  /\ Reads(s, "xfullresync")
        /\ ResetSets(s, lost[s], full.executed, full.lost)
        /\ log' = [log EXCEPT ![s] = <<>>]
        /\ conn' = Read([r \in Servers |-> IF r \in Slaves(s) THEN Kicked(conn[r]) ELSE conn[r]], s)
        /\ Forgets(s, full.executed \cup full.lost)
        /\ UNCHANGED <<master, disruptions, written, reused, returned>>

\* gtidCommand, which ignores what it has; the bytes go on to the replica's own
\* replicas, and into the index, either way.
ReadCommand(s) ==
    LET x == Head(conn[s].chan).gtid
        comesBack == x[1] = s /\ x \notin M(s) /\ curnext[s] \in 1..x[2]
    IN  /\ Reads(s, "cmd")
        /\ executed' = [executed EXCEPT ![s] = IF x \in M(s) THEN @ ELSE @ \cup {x}]
        /\ Feed(Read(conn, s), s, x)
        /\ returned' = IF comesBack THEN returned \cup {x} ELSE returned
        /\ UNCHANGED <<lost, curnext, master, disruptions, written, reused, forgotten>>

ReadEof(s) ==
    /\ Reads(s, "eof")
    /\ conn' = [conn EXCEPT ![s] = Closed]
    /\ UNCHANGED <<sets, log, master, disruptions, history>>

----------------------------------------------------------------------------
Init == /\ executed = [s \in Servers |-> {}] /\ lost = [s \in Servers |-> {}]
        /\ log = [s \in Servers |-> <<>>]
        /\ \E m \in Servers : master = [s \in Servers |-> IF s = m THEN None ELSE m]
        /\ curnext = [s \in Servers |-> 0]
        /\ conn = [s \in Servers |-> Closed]
        /\ disruptions = 0
        /\ written = {} /\ reused = {} /\ forgotten = {} /\ returned = {}

\* What a server does by itself, in its event loop and its cron.
Step(s) == \/ Request(s) \/ NoMasterLink(s) \/ Answer(s)
           \/ ReadXcontinue(s) \/ ReadXfullresync(s) \/ ReadCommand(s) \/ ReadEof(s)

Next == \/ \E s \in Servers : Step(s) \/ Write(s) \/ BreakLink(s) \/ DropBacklog(s) \/ Restart(s)
        \/ \E s \in Servers, m \in Servers \cup {None} : ReplicaOf(s, m)

Spec == Init /\ [][Next]_vars

\* A replica without a link tries again every second (replicationCron), a
\* master answers what it reads, and a replica reads what it is sent.
FairSpec == Spec /\ \A s \in Servers : WF_vars(Step(s))

----------------------------------------------------------------------------
(* Properties.                                                             *)

Messages == [type : {"xcontinue"}, cont : SUBSET Gtids]
            \cup [type : {"xfullresync"}, executed : SUBSET Gtids, lost : SUBSET Gtids]
            \cup [type : {"cmd"}, gtid : Gtids] \cup {Eof}

\* Type invariant: among the rest, no gtid is both executed and lost.
TypeOK ==
    /\ \A s \in Servers :
         /\ executed[s] \subseteq Gtids /\ lost[s] \subseteq Gtids
         /\ executed[s] \cap lost[s] = {}
         /\ curnext[s] \in 0..(MaxGno + 1)
         /\ Len(log[s]) <= LogSize /\ SetOf(log[s]) \subseteq Gtids
         /\ master[s] \in (Servers \cup {None}) \ {s}
         /\ LET c == conn[s]
            IN  /\ c.link \in {"down", "wait", "up"} /\ c.attached \in BOOLEAN
                /\ c.slost \subseteq c.S /\ c.S \subseteq Gtids
                /\ SetOf(c.chan) \subseteq Messages
    /\ written \subseteq Gtids /\ reused \subseteq Gtids
    /\ forgotten \subseteq Gtids /\ returned \subseteq Gtids
    /\ disruptions \in 0..MaxDisruptions

\* What a replica will have executed, and will have in all, once it has read
\* what its master has sent so far.
Sent(s) == {m.gtid : m \in {n \in SetOf(conn[s].chan) : n.type = "cmd"}}
WillExecute(s) == Sent(s) \cup IF Reads(s, "xfullresync") THEN Head(conn[s].chan).executed
                               ELSE executed[s]
HasBeforeSent(s) == CASE Reads(s, "xfullresync") -> Head(conn[s].chan).executed
                                                   \cup Head(conn[s].chan).lost
                      [] Reads(s, "xcontinue") -> M(s) \cup Head(conn[s].chan).cont
                      [] OTHER -> M(s)

\* As long as a master has a replica among its own, the two agree on the
\* gtid.set: what the replica has, what it is told to count as had and what is
\* on its way to it are together what the master has.  Whoever's gtid.lost
\* grows meanwhile, the other learns of it or is disconnected.
GtidSetsAgree ==
    \A s \in Servers : conn[s].attached =>
        HasBeforeSent(s) \cup Sent(s) = M(master[s])

\* No replica is sent a command it has, or one it was told to count as had, and
\* none twice: gtidCommand calls it critical when a replica has to ignore one.
\* Only a gtid that came back to its server at or after a cursor, and may be
\* given to a second write, is excepted (see Unheard).
ExactlyOnce ==
    \A s \in Servers : conn[s].attached =>
        /\ Sent(s) \cap HasBeforeSent(s) \subseteq returned
        /\ \A i, j \in DOMAIN conn[s].chan :
              /\ i # j /\ conn[s].chan[i].type = "cmd" /\ conn[s].chan[i] = conn[s].chan[j]
              => conn[s].chan[i].gtid \in returned

\* gtid-xsync-max-gap: a replica and its master differ by so many commands at
\* most, however often and wherever it was resynced before (gtids that may be
\* those of two writes do not count).
DivergenceBounded ==
    \A s \in Servers : conn[s].attached =>
        LET m == executed[master[s]]
        IN  Cardinality(((m \ WillExecute(s)) \cup (WillExecute(s) \ m)) \ returned) <= MaxGap

\* Two writes get the same gtid only if the server lost the first in a full
\* resync from a master that did not have it, or in a restart from an RDB
\* without gtid fields.  And a server that knows a gtid again, as executed or as
\* lost, gives it only if it came back from a master while a cursor was set.
UniqueUnlessForgotten ==
    /\ reused \subseteq forgotten
    /\ \A s \in Servers : <<s, NextGno(s)>> \in M(s) => <<s, NextGno(s)>> \in returned

\* ExactlyOnce without the exception: what the log line of gtidCommand takes for
\* granted, "[CRITICAL] gtid command already execute" on a replica.
Unheard == \A s \in Servers : conn[s].attached => Sent(s) \cap HasBeforeSent(s) = {}

Converged(s) == conn[s].link = "up" /\ conn[s].attached /\ conn[s].chan = <<>> /\ M(s) = M(master[s])

\* The master at the head of the chain of s: none if s is in a ring of replicas.
Heads(s) == {h \in Servers :
    \E n \in 1..Cardinality(Servers) : \E up \in [0..n -> Servers] :
        /\ up[0] = s /\ up[n] = h /\ master[h] = None
        /\ \A i \in 1..n : up[i] = master[up[i - 1]]}

\* When nothing goes wrong any more, every replica below a master ends up
\* connected and with its gtid.set: replicas that had writes of their own do
\* not go on throwing each other out, nor a server in the middle of a chain its
\* replicas and its master.
\* (A master that has no gtid at all is unrelated to every replica that has
\* one: see AllConverge.)
Converges == <>[](\A s \in Servers : (\E h \in Heads(s) : M(h) # {}) => Converged(s))

\* The same below any master: "reconnect with master to sync repl stream
\* update" does bring the gtids a server takes for lost to its master.
AllConverge == <>[](\A s \in Servers : Heads(s) # {} => Converged(s))
=============================================================================
