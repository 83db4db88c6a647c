----------------------------- MODULE ServerGtid -----------------------------
(***************************************************************************)
(* One server's gtid state (xredis_gtid.c, with the `current` uuidSet of   *)
(* gtid.c and gtid.h): which commands it has executed, which it gave up    *)
(* for lost, and the gno its next own write gets.  gtidSets are maps from  *)
(* uuid to sets of gnos here; how a uuidSet stores its gnos is module      *)
(* GtidIntervals.                                                          *)
(*                                                                         *)
(* Every action is one command or one call of the replication code; the    *)
(* server is single threaded.  Own writes happen while the server is a     *)
(* master and gtid-enabled, the rest in any role.  Gtids of the server's   *)
(* own uuid also enter and leave gtid_executed otherwise than by its own   *)
(* writes: by a GTID command (from a client, or from the master's stream   *)
(* after a full resync or an old RDB took them away) and by GTIDX.         *)
(***************************************************************************)
EXTENDS Integers

CONSTANTS Uuids,      \* source ids
          Self,       \* server.uuid
          MaxGno,     \* bound on the gnos
          Snapshots   \* the executed and lost sets a reset can install

Gnos == 1..MaxGno
GtidSets == [Uuids -> SUBSET Gnos]

ASSUME ConstantsAssumption ==
    /\ MaxGno \in Nat \ {0}
    /\ Self \in Uuids
    /\ Snapshots \subseteq [executed : GtidSets, lost : GtidSets]

VARIABLES executed,  \* server.gtid_executed
          lost,      \* server.gtid_lost
          curnext,   \* server.gtid_executed->curnext, 0 when not set
          ran,       \* how often the dataset ran each command (history)
          aborted,   \* an assert of gtidSetCurrentUuidSetSetNextGno failed
          returned,  \* own gnos that entered gtid_executed by a GTID command
                     \* or GTIDX ADD, at or after the cursor (history)
          removed    \* GTIDX REMOVE took own gnos away and no cursor was set,
                     \* nor has been compared with gtid.lost since (history)

vars == <<executed, lost, curnext, ran, aborted, returned, removed>>

----------------------------------------------------------------------------
(* Reading the sets.                                                       *)

\* uuidSetNext without update: one after the greatest gno.
uuidSetNext(S) == IF S = {} THEN 1
                  ELSE (CHOOSE g \in S : \A h \in S : h <= g) + 1

\* gtidSetCurrentUuidSetNext without update, for a cursor c over set x.
gtidSetCurrentUuidSetNext(x, c) == IF c = 0 THEN uuidSetNext(x[Self]) ELSE c

\* Mutant: gtids in gtid.lost are taken for new ones.
ContainsExecutedOnly(u, g) == g \in executed[u]

serverGtidSetContains(u, g) == g \in executed[u] \/ g \in lost[u]

EmptyGtidSet == [u \in Uuids |-> {}]

Plus(x, u, S) == [x EXCEPT ![u] = @ \cup S]
Minus(x, u, S) == [x EXCEPT ![u] = @ \ S]
gtidSetMerge(x, y) == [u \in Uuids |-> x[u] \cup y[u]]

----------------------------------------------------------------------------
(* serverGtidSetCurrrentUuidSetUpdateNextGno, over an executed set x, a    *)
(* lost set l and a cursor c.                                              *)

\* Mutant: the cursor skips one gno too many.
UpdateSkipsOne(x, l, c) ==
    IF gtidSetCurrentUuidSetNext(x, c) <= uuidSetNext(l[Self])
    THEN uuidSetNext(l[Self]) + 1
    ELSE c

\* Mutant: the cursor always follows gtid.lost.
UpdateAlways(x, l, c) == uuidSetNext(l[Self])

UpdateNextGno(x, l, c) ==
    IF gtidSetCurrentUuidSetNext(x, c) < uuidSetNext(l[Self])
    THEN uuidSetNext(l[Self])
    ELSE c

\* assert(uuidSetNext(gtid_set->current,0) <= curnext), when it is reached.
NextGnoAssert(x, l, c) ==
    gtidSetCurrentUuidSetNext(x, c) < uuidSetNext(l[Self])
        => uuidSetNext(x[Self]) <= uuidSetNext(l[Self])

\* The effect on the cursor of a step that ends with that call.
UpdateWith(x, l, c) ==
    /\ executed' = x
    /\ lost' = l
    /\ curnext' = UpdateNextGno(x, l, c)
    /\ aborted' = ~NextGnoAssert(x, l, c)
    /\ removed' = FALSE

----------------------------------------------------------------------------
(* Commands.                                                               *)

Run(u, g) == ran' = [ran EXCEPT ![u][g] = @ + 1]

\* Gnos S of u enter gtid_executed; the cursor does not move past own ones.
Enter(u, S) ==
    returned' = returned \cup {g \in S : u = Self /\ curnext \in 1..g}

\* Mutant: the cursor stays set after it was used.
OwnWriteKeepsCursor ==
    LET gno == gtidSetCurrentUuidSetNext(executed, curnext)
    IN  /\ gno \in Gnos
        /\ executed' = Plus(executed, Self, {gno})
        /\ Run(Self, gno)
        /\ UNCHANGED <<lost, curnext, aborted, returned, removed>>

\* A write of a master's client: propagateArgsPrepareToFeed allocates its gno
\* (gtidSetCurrentUuidSetNext with update) and rewrites it to a GTID command.
OwnWrite ==
    LET gno == gtidSetCurrentUuidSetNext(executed, curnext)
    IN  /\ gno \in Gnos     \* bound
        /\ executed' = Plus(executed, Self, {gno})
        /\ curnext' = 0
        /\ Run(Self, gno)
        /\ UNCHANGED <<lost, aborted, returned, removed>>

\* GTID u:g from the master's stream or from a client.  A command the set
\* contains is ignored, and an unknown one or one with the wrong number of
\* arguments rejected; neither changes anything.  Otherwise it runs (failing
\* or not) and its gtid is added.
gtidCommand(u, g) ==
    /\ ~serverGtidSetContains(u, g)
    /\ executed' = Plus(executed, u, {g})
    /\ Run(u, g)
    /\ Enter(u, {g})
    /\ UNCHANGED <<lost, curnext, aborted, removed>>

\* GTIDX ADD EXECUTED / LOST
GtidxAddExecuted(u, S) ==
    /\ UpdateWith(Plus(executed, u, S), lost, curnext)
    /\ Enter(u, S)
    /\ UNCHANGED ran

GtidxAddLost(u, S) ==
    /\ UpdateWith(executed, Plus(lost, u, S), curnext)
    /\ UNCHANGED <<ran, returned>>

\* GTIDX REMOVE EXECUTED / LOST: the cursor is left alone.  The operator who
\* removes a gtid says that its command may run again.
GtidxRemoveExecuted(u, S) ==
    /\ executed' = Minus(executed, u, S)
    /\ ran' = [ran EXCEPT ![u] = [g \in Gnos |-> IF g \in S THEN 0 ELSE @[g]]]
    /\ returned' = IF u = Self THEN returned \ S ELSE returned
    /\ removed' = (removed \/ (u = Self /\ curnext = 0))
    /\ UNCHANGED <<lost, curnext, aborted>>

GtidxRemoveLost(u, S) ==
    /\ lost' = Minus(lost, u, S)
    /\ UNCHANGED <<executed, curnext, ran, aborted, returned, removed>>

----------------------------------------------------------------------------
(* Calls of the replication code.                                          *)

\* Mutant: the cursor is not moved past the new lost gtids.
AddLostOnly(delta) ==
    /\ \A u \in Uuids : delta[u] \cap (executed[u] \cup lost[u]) = {}
    /\ lost' = gtidSetMerge(lost, delta)
    /\ UNCHANGED <<executed, curnext, ran, aborted, returned, removed>>

\* serverReplStreamUpdateXsync, with what a replica has and this server has
\* not, or with what the master will not send this server.
serverGtidSetAddLost(delta) ==
    /\ \A u \in Uuids : delta[u] \cap (executed[u] \cup lost[u]) = {}
    /\ UpdateWith(executed, gtidSetMerge(lost, delta), curnext)
    /\ UNCHANGED <<ran, returned>>

\* serverGtidSetResetExecuted, which still compares with the old gtid.lost,
\* then serverGtidSetResetLost: a new gtid_executed has no cursor yet.
ResetSets(x, l) ==
    LET c == UpdateNextGno(x, lost, 0)
    IN  /\ executed' = x
        /\ lost' = l
        /\ curnext' = UpdateNextGno(x, l, c)
        /\ aborted' = ~(NextGnoAssert(x, lost, 0) /\ NextGnoAssert(x, l, c))

\* Switch to xsync, full resync or restart: the dataset and both sets are
\* replaced together.
Reset(s) ==
    /\ ResetSets(s.executed, s.lost)
    /\ ran' = [u \in Uuids |-> [g \in Gnos |-> IF g \in s.executed[u] THEN 1 ELSE 0]]
    /\ returned' = {} /\ removed' = FALSE

----------------------------------------------------------------------------
Init == /\ executed = EmptyGtidSet
        /\ lost = EmptyGtidSet
        /\ curnext = 0
        /\ ran = [u \in Uuids |-> [g \in Gnos |-> 0]]
        /\ aborted = FALSE
        /\ returned = {} /\ removed = FALSE

Next == /\ ~aborted
        /\ \/ OwnWrite
           \/ \E u \in Uuids, g \in Gnos : gtidCommand(u, g)
           \/ \E u \in Uuids, start, end \in Gnos :
                 \/ GtidxAddExecuted(u, start..end)
                 \/ GtidxAddLost(u, start..end)
                 \/ GtidxRemoveExecuted(u, start..end)
                 \/ GtidxRemoveLost(u, start..end)
           \/ \E delta \in GtidSets : serverGtidSetAddLost(delta)
           \/ \E s \in Snapshots : Reset(s)

Spec == Init /\ [][Next]_vars

----------------------------------------------------------------------------
(* Properties.                                                             *)

\* Type invariant.
TypeOK ==
    /\ executed \in GtidSets
    /\ lost \in GtidSets
    /\ curnext \in 0..(MaxGno + 1)
    /\ ran \in [Uuids -> [Gnos -> Nat]]
    /\ aborted \in BOOLEAN
    /\ returned \subseteq Gnos /\ removed \in BOOLEAN

\* What gtidSetCurrentUuidSetSetNextGno asserts: the gno it is given is not
\* behind the current uuidSet.
NeverAborts == ~aborted

\* That assert only fails on an own gno that came back while a cursor before it
\* was set, and is not before the greatest lost one either.  Own writes, resets,
\* growths of gtid.lost and removals never leave a cursor that makes it fail.
AbortsOnReturn == aborted => \E g \in returned : uuidSetNext(lost[Self]) <= g

\* The gno the server's next own write gets is greater than every own gno in
\* gtid_executed and in gtid_lost: a replica that knows one of those would ignore
\* the write as already executed.  It may be that of a command that came back
\* while the cursor was set, and not be past gtid_lost after a GTIDX REMOVE.
NextIsFresh ==
    LET next == gtidSetCurrentUuidSetNext(executed, curnext)
    IN  /\ \A g \in executed[Self] : g < next \/ g \in returned
        /\ removed \/ \A g \in lost[Self] : g < next

\* No command runs twice on the same dataset, however own writes, replicated
\* commands, lost sets and resets interleave: but one that came back while the
\* cursor was set may, as the own write that is given its gno again.
RunsOnce ==
    \A u \in Uuids, g \in Gnos : ran[u][g] <= 1 \/ (u = Self /\ g \in returned)

\* A command that was given up for lost does not run while it counts as lost,
\* neither replicated nor as an own write that gets its gno (unless GTIDX REMOVE
\* has taken the server's count back behind it).
LostNeverRuns ==
    [][\A u \in Uuids, g \in Gnos :
           ran'[u][g] > ran[u][g] /\ g \in lost[u]
               => g \notin lost'[u] \/ (u = Self /\ removed)]_vars
=============================================================================
