-------------------------- MODULE ReplStreamProofs --------------------------
(***************************************************************************)
(* Proofs about ReplStream, for every set of gtids, sizes, snapshots,      *)
(* offsets and gaps.                                                       *)
(***************************************************************************)
EXTENDS ReplStream, FiniteSetTheorems, WellFoundedInduction, TLAPS

\* The commands of the backlog, against where the modes begin.
ModesOK ==
    /\ mode.from <= next
    /\ prev.mode # mode.mode
    /\ \A c \in stream :
          /\ c.offset + c.size <= next
          /\ c.offset >= mode.from => c.mode = mode.mode
          /\ c.offset < mode.from => c.offset + c.size <= mode.from
          /\ c.offset < mode.from /\ prev # Unset /\ c.offset >= prev.from => c.mode = prev.mode

\* Without a backlog there is nothing to point at, and no entry of the index
\* is of another history.
IndexKnown ==
    /\ ~backlog => idx = {} /\ stream = {}
    /\ \A e \in idx : GtidOf(e) \in M

IInv == TypeOK /\ ModesOK /\ IndexFaithful /\ IndexKnown

----------------------------------------------------------------------------
(* Types.                                                                  *)

LEMMA CommandTypes ==
  ASSUME TypeOK, NEW c \in stream
  PROVE  /\ c.offset \in 1..MaxOffset /\ c.size \in 1..MaxSize
         /\ c.gtid \in Gtids \cup {NoGtid}
BY DEF TypeOK

LEMMA EntryTypes ==
  ASSUME TypeOK, NEW e \in idx
  PROVE  e.uuid \in Uuids /\ e.gno \in 1..MaxGno /\ e.offset \in 1..MaxOffset
BY DEF TypeOK, Index!Entry

LEMMA ModeTypes ==
  ASSUME TypeOK
  PROVE  /\ mode.mode \in {"psync", "xsync"} /\ mode.from \in 1..(MaxOffset + 1)
         /\ prev.mode \in {"psync", "xsync", "unset"} /\ prev.from \in Int
         /\ prev # Unset => prev.mode # "unset"
BY DEF TypeOK, Modes, Unset

LEMMA GtidTypes ==
  ASSUME NEW x \in Gtids
  PROVE  x = <<x[1], x[2]>> /\ x[1] \in Uuids /\ x[2] \in 1..MaxGno /\ x # NoGtid
BY ConstantsAssumption DEF NoGtid

----------------------------------------------------------------------------
(* Feeding the stream.                                                     *)

\* A fed stream keeps to its modes and its types.
LEMMA FeedStream ==
  ASSUME IInv, NEW size \in 1..MaxSize, NEW x \in Gtids \cup {NoGtid},
         Feed(size, x), UNCHANGED modes
  PROVE  /\ ModesOK'
         /\ off' \in 0..(MaxOffset + 1) /\ next' \in 1..(MaxOffset + 1)
         /\ next \in 1..MaxOffset
         /\ stream' \subseteq [offset : 1..MaxOffset, size : 1..MaxSize,
                               gtid : Gtids \cup {NoGtid}, mode : {"psync", "xsync"}]
<1> DEFINE new == [offset |-> next, size |-> size, gtid |-> x, mode |-> mode.mode]
<1>1. /\ next \in 1..MaxOffset /\ next' = next + size /\ next' \in 1..(MaxOffset + 1)
  BY ConstantsAssumption DEF IInv, TypeOK, Feed
<1>2. off' \in 0..(MaxOffset + 1)
  BY <1>1, ConstantsAssumption DEF IInv, TypeOK, Feed, OffAfter, Max
<1>3. stream' \subseteq stream \cup {new}
  BY DEF Feed
<1>4. new \in [offset : 1..MaxOffset, size : 1..MaxSize,
               gtid : Gtids \cup {NoGtid}, mode : {"psync", "xsync"}]
  BY <1>1, ModeTypes DEF IInv
<1>5. ModesOK'
  <2>1. mode' = mode /\ prev' = prev
    BY DEF modes
  <2>2. ASSUME NEW c \in stream'
        PROVE  /\ c.offset + c.size <= next'
               /\ c.offset >= mode.from => c.mode = mode.mode
               /\ c.offset < mode.from => c.offset + c.size <= mode.from
               /\ c.offset < mode.from /\ prev # Unset /\ c.offset >= prev.from => c.mode = prev.mode
    <3>1. CASE c \in stream
      BY <3>1, <1>1, CommandTypes, ModeTypes DEF IInv, ModesOK
    <3>2. CASE c = new
      BY <3>2, <1>1, ModeTypes DEF IInv, ModesOK
    <3> QED BY <3>1, <3>2, <1>3
  <2>3. mode.from <= next' /\ prev.mode # mode.mode
    BY <1>1, ModeTypes DEF IInv, ModesOK
  <2> QED BY <2>1, <2>2, <2>3 DEF ModesOK
<1> QED BY <1>1, <1>2, <1>3, <1>4, <1>5 DEF IInv, TypeOK

\* A command with a gtid is forwarded: its gtid is in the sets by then.
LEMMA IndexedFeedKeeps ==
  ASSUME IInv, NEW x \in Gtids, NEW size \in 1..MaxSize,
         backlog, Feed(size, x), TouchIndex(x[1], x[2]),
         executed' \subseteq Gtids, M \subseteq M', x \in M',
         UNCHANGED <<lost, modes, backlog>>
  PROVE  IInv'
<1>1. lost' = lost /\ mode' = mode /\ prev' = prev /\ backlog' = backlog
  BY DEF modes
<1> DEFINE new == [offset |-> next, size |-> size, gtid |-> x, mode |-> mode.mode]
           entry == [uuid |-> x[1], gno |-> x[2], offset |-> next]
<1>2. Feed(size, x) /\ idx' = {e \in idx \cup {entry} : e.offset >= off'}
  BY DEF TouchIndex
<1>3. stream' = {c \in stream \cup {new} : c.offset + c.size > off'}
  BY <1>2 DEF Feed
<1>4. /\ ModesOK' /\ off' \in 0..(MaxOffset + 1) /\ next' \in 1..(MaxOffset + 1)
      /\ next \in 1..MaxOffset
      /\ stream' \subseteq [offset : 1..MaxOffset, size : 1..MaxSize,
                            gtid : Gtids \cup {NoGtid}, mode : {"psync", "xsync"}]
  BY <1>2, <1>1, FeedStream DEF modes
<1>5. x = <<x[1], x[2]>> /\ x[1] \in Uuids /\ x[2] \in 1..MaxGno
  BY GtidTypes
<1>6. TypeOK'
  <2>1. idx' \subseteq Index!Entry
    BY <1>2, <1>4, <1>5 DEF IInv, TypeOK, Index!Entry
  <2> QED BY <2>1, <1>4, <1>1 DEF IInv, TypeOK, Index!Entry
<1>7. entry.offset = new.offset /\ new.gtid = GtidOf(entry)
  BY <1>5 DEF GtidOf
<1>8. off \in Int /\ off' \in Int /\ off' >= off
  BY <1>2, <1>4, ConstantsAssumption DEF IInv, TypeOK, Feed, OffAfter, Max
<1>9. ASSUME NEW e \in idx', e.offset >= off'
      PROVE  \E c \in stream' : c.offset = e.offset /\ c.gtid = GtidOf(e)
  <2>1. CASE e = entry
    <3>1. new \in stream'
      BY <2>1, <1>3, <1>4, <1>8, <1>9
    <3> QED BY <2>1, <3>1, <1>7
  <2>2. CASE e \in idx
    <3>1. e.offset \in Int
      BY <2>2, EntryTypes DEF IInv
    <3>2. PICK c \in stream : c.offset = e.offset /\ c.gtid = GtidOf(e)
      BY <2>2, <3>1, <1>8, <1>9 DEF IInv, IndexFaithful
    <3>3. c \in stream'
      BY <3>1, <3>2, <1>3, <1>8, <1>9, CommandTypes DEF IInv
    <3> QED BY <3>2, <3>3
  <2> QED BY <2>1, <2>2, <1>2
<1> DEFINE era == IF mode.mode = "xsync" THEN mode.from ELSE prev.from
<1>10. ASSUME NEW c \in stream', c.gtid # NoGtid, c.offset >= off', c.offset >= era
      PROVE  \E e \in idx' : c.offset = e.offset /\ c.gtid = GtidOf(e)
  <2>1. CASE c = new
    <3>1. entry \in idx'
      BY <2>1, <1>2, <1>10
    <3> QED BY <2>1, <3>1, <1>7
  <2>2. CASE c \in stream
    <3>1. c.offset \in Int
      BY <2>2, CommandTypes DEF IInv
    <3>2. PICK e \in idx : c.offset = e.offset /\ c.gtid = GtidOf(e)
      BY <2>2, <3>1, <1>8, <1>10 DEF IInv, IndexFaithful
    <3>3. e \in idx'
      BY <3>2, <1>2, <1>10
    <3> QED BY <3>2, <3>3
  <2> QED BY <2>1, <2>2, <1>3
<1>11. IndexFaithful'
  BY <1>9, <1>10, <1>1 DEF IndexFaithful, GtidOf
<1>12. IndexKnown'
  <2>1. GtidOf(entry) = x
    BY <1>7
  <2> QED BY <2>1, <1>2, <1>1 DEF IInv, IndexKnown, GtidOf
<1> QED BY <1>4, <1>6, <1>11, <1>12 DEF IInv

LEMMA CommandWithGtidKeeps ==
  ASSUME IInv, NEW x \in Gtids, NEW size \in 1..MaxSize, CommandWithGtid(x, size)
  PROVE  IInv'
<1>1. /\ executed' = executed \cup {x} /\ lost' = lost
      /\ mode' = mode /\ prev' = prev /\ backlog' = backlog
  BY DEF CommandWithGtid, modes
<1>2. M' = M \cup {x} /\ executed' \subseteq Gtids
  BY <1>1 DEF M, IInv, TypeOK
<1>3. CASE ~backlog
  <2>1. UNCHANGED <<off, next, idx, stream>>
    BY <1>3 DEF CommandWithGtid
  <2>2. TypeOK'
    BY <2>1, <1>1 DEF IInv, TypeOK, Index!Entry
  <2>3. ModesOK' /\ IndexFaithful'
    BY <2>1, <1>1 DEF IInv, ModesOK, IndexFaithful, GtidOf
  <2>4. IndexKnown'
    BY <2>1, <1>1, <1>2 DEF IInv, IndexKnown, GtidOf
  <2> QED BY <2>2, <2>3, <2>4 DEF IInv
<1>4. CASE backlog
  <2>1. Feed(size, x) /\ TouchIndex(x[1], x[2])
    BY <1>4 DEF CommandWithGtid
  <2> QED BY <2>1, <1>1, <1>2, <1>4, IndexedFeedKeeps DEF modes
<1> QED BY <1>3, <1>4

LEMMA CommandIgnoredKeeps ==
  ASSUME IInv, NEW x \in Gtids, NEW size \in 1..MaxSize, CommandIgnored(x, size)
  PROVE  IInv'
<1>1. /\ backlog /\ Feed(size, x) /\ TouchIndex(x[1], x[2])
      /\ executed' = executed /\ lost' = lost /\ backlog' = backlog /\ modes' = modes
  BY DEF CommandIgnored, sets
<1>2. M' = M /\ x \in M' /\ executed' \subseteq Gtids
  BY <1>1 DEF CommandIgnored, M, IInv, TypeOK
<1> QED BY <1>1, <1>2, IndexedFeedKeeps

LEMMA CommandWithoutKeeps ==
  ASSUME IInv, NEW size \in 1..MaxSize, CommandWithout(size)
  PROVE  IInv'
<1> DEFINE new == [offset |-> next, size |-> size, gtid |-> NoGtid, mode |-> mode.mode]
<1>1. /\ executed' = executed /\ lost' = lost /\ M' = M
      /\ mode' = mode /\ prev' = prev /\ backlog' = backlog /\ idx' = idx
      /\ backlog /\ Feed(size, NoGtid)
  BY DEF CommandWithout, modes, sets, M
<1>2. stream' = {c \in stream \cup {new} : c.offset + c.size > off'}
  BY <1>1 DEF Feed
<1>3. /\ ModesOK' /\ off' \in 0..(MaxOffset + 1) /\ next' \in 1..(MaxOffset + 1)
      /\ stream' \subseteq [offset : 1..MaxOffset, size : 1..MaxSize,
                            gtid : Gtids \cup {NoGtid}, mode : {"psync", "xsync"}]
  BY <1>1, FeedStream DEF modes
<1>4. TypeOK'
  BY <1>1, <1>3 DEF IInv, TypeOK, Index!Entry
<1>5. off \in Int /\ off' \in Int /\ off' >= off
  BY <1>1, <1>3, ConstantsAssumption DEF IInv, TypeOK, Feed, OffAfter, Max
<1>6. ASSUME NEW e \in idx, e.offset >= off'
      PROVE  \E c \in stream' : c.offset = e.offset /\ c.gtid = GtidOf(e)
  <2>1. e.offset \in Int
    BY EntryTypes DEF IInv
  <2>2. PICK c \in stream : c.offset = e.offset /\ c.gtid = GtidOf(e)
    BY <1>5, <1>6, <2>1 DEF IInv, IndexFaithful
  <2>3. c \in stream'
    BY <2>1, <2>2, <1>2, <1>5, <1>6, CommandTypes DEF IInv
  <2> QED BY <2>2, <2>3
<1> DEFINE era == IF mode.mode = "xsync" THEN mode.from ELSE prev.from
<1>7. ASSUME NEW c \in stream', c.gtid # NoGtid, c.offset >= off', c.offset >= era
      PROVE  \E e \in idx : c.offset = e.offset /\ c.gtid = GtidOf(e)
  <2>1. c \in stream
    BY <1>2, <1>7
  <2>2. c.offset \in Int
    BY <2>1, CommandTypes DEF IInv
  <2> QED BY <2>1, <2>2, <1>5, <1>7 DEF IInv, IndexFaithful
<1>8. IndexFaithful'
  BY <1>1, <1>6, <1>7 DEF IndexFaithful, GtidOf
<1>9. IndexKnown'
  BY <1>1 DEF IInv, IndexKnown, GtidOf
<1> QED BY <1>3, <1>4, <1>8, <1>9 DEF IInv

----------------------------------------------------------------------------
(* The backlog and the index.                                              *)

\* A state with no stream and no index, whose mode begins no later than the
\* next command.
LEMMA EmptyStream ==
  ASSUME stream = {}, idx = {}, mode.from <= next, prev.mode # mode.mode
  PROVE  ModesOK /\ IndexFaithful /\ IndexKnown
BY DEF ModesOK, IndexFaithful, IndexKnown

LEMMA BacklogKeeps ==
  ASSUME IInv, \/ ctrip_createReplicationBacklog
               \/ ctrip_resizeReplicationBacklog
               \/ ctrip_freeReplicationBacklog
  PROVE  IInv'
<1>1. /\ executed' = executed /\ lost' = lost /\ mode' = mode /\ prev' = prev
      /\ next' = next /\ backlog' \in BOOLEAN /\ off' \in {off, next} /\ idx' = {} /\ stream' = {}
  BY DEF IInv, TypeOK, ctrip_createReplicationBacklog, ctrip_resizeReplicationBacklog,
         ctrip_freeReplicationBacklog, sets, modes
<1>2. TypeOK'
  BY <1>1 DEF IInv, TypeOK, Index!Entry
<1>3. mode'.from <= next' /\ prev'.mode # mode'.mode
  BY <1>1 DEF IInv, ModesOK
<1> QED BY <1>1, <1>2, <1>3, EmptyStream DEF IInv, ModesOK, IndexFaithful, IndexKnown

----------------------------------------------------------------------------
(* Mode changes.                                                           *)

\* A stream that restarts in a new mode.
LEMMA RestartKeeps ==
  ASSUME IInv, NEW reploff \in Reploffs, BacklogRestartsAt(reploff),
         NEW m \in {"psync", "xsync"}, mode' = [mode |-> m, from |-> next'],
         prev' \in {Unset, mode}, prev'.mode # m,
         executed' \subseteq Gtids, lost' \subseteq Gtids
  PROVE  IInv'
<1>1. /\ next' = reploff + 1 /\ off' \in {reploff + 1, off}
      /\ idx' = {} /\ stream' = {} /\ backlog' = backlog
  BY DEF BacklogRestartsAt
<1>2. reploff + 1 \in 1..(MaxOffset + 1)
  BY ConstantsAssumption
<1>3. mode' \in Modes /\ mode'.from = next' /\ mode'.mode = m
  BY <1>1, <1>2 DEF Modes
<1>4. TypeOK'
  BY <1>1, <1>2, <1>3 DEF IInv, TypeOK, Index!Entry
<1> QED BY <1>1, <1>2, <1>3, <1>4 DEF IInv, ModesOK, IndexFaithful, IndexKnown

LEMMA Switch2PsyncKeeps ==
  ASSUME IInv, NEW reploff \in Reploffs, serverReplStreamSwitch2Psync(reploff)
  PROVE  IInv'
<1>1. /\ executed' = executed /\ lost' = lost /\ M' = M
      /\ mode.mode # "psync" /\ prev' = mode /\ mode' = [mode |-> "psync", from |-> next']
  BY DEF serverReplStreamSwitch2Psync, shiftServerReplMode, sets, M
<1>2. CASE reploff + 1 = next
  <2>1. UNCHANGED <<backlog, off, next, idx, stream>>
    BY <1>2 DEF serverReplStreamSwitch2Psync
  <2>2. mode.mode = "xsync"
    BY <1>1, ModeTypes DEF IInv
  <2>3. TypeOK'
    BY <1>1, <2>1 DEF IInv, TypeOK, Modes, Index!Entry
  <2>4. ModesOK'
    <3>1. ASSUME NEW c \in stream
          PROVE  /\ c.offset + c.size <= next
                 /\ ~(c.offset >= next)
                 /\ c.offset >= mode.from => c.mode = mode.mode
      BY CommandTypes DEF IInv, ModesOK, TypeOK
    <3>2. next \in Int
      BY DEF IInv, TypeOK
    <3> QED BY <1>1, <2>1, <3>1, <3>2 DEF ModesOK
  <2>5. IndexFaithful'
    BY <1>1, <2>1, <2>2 DEF IInv, IndexFaithful, GtidOf
  <2>6. IndexKnown'
    BY <1>1, <2>1 DEF IInv, IndexKnown, GtidOf
  <2> QED BY <2>3, <2>4, <2>5, <2>6 DEF IInv
<1>3. CASE reploff + 1 # next
  <2>1. BacklogRestartsAt(reploff)
    BY <1>3 DEF serverReplStreamSwitch2Psync
  <2>2. executed' \subseteq Gtids /\ lost' \subseteq Gtids
    BY <1>1 DEF IInv, TypeOK
  <2> QED BY <1>1, <2>1, <2>2, RestartKeeps
<1> QED BY <1>2, <1>3

LEMMA Switch2XsyncKeeps ==
  ASSUME IInv, NEW s \in Snapshots, serverReplStreamSwitch2Xsync(s)
  PROVE  IInv'
<1>1. /\ executed' = s.executed /\ lost' = s.lost /\ idx' = {}
      /\ UNCHANGED <<backlog, off, next, stream>>
      /\ mode.mode # "xsync" /\ prev' = mode /\ mode' = [mode |-> "xsync", from |-> next]
  BY DEF serverReplStreamSwitch2Xsync, shiftServerReplMode
<1>2. executed' \subseteq Gtids /\ lost' \subseteq Gtids
  BY <1>1, ConstantsAssumption
<1>3. TypeOK'
  BY <1>1, <1>2 DEF IInv, TypeOK, Modes, Index!Entry
<1>4. ASSUME NEW c \in stream
      PROVE  /\ c.offset + c.size <= next
             /\ ~(c.offset >= next)
             /\ c.offset >= mode.from => c.mode = mode.mode
  BY CommandTypes DEF IInv, ModesOK, TypeOK
<1>5. next \in Int
  BY DEF IInv, TypeOK
<1>6. ModesOK'
  BY <1>1, <1>4, <1>5 DEF ModesOK
<1>7. IndexFaithful'
  BY <1>1, <1>4 DEF IndexFaithful
<1>8. IndexKnown'
  BY <1>1 DEF IInv, IndexKnown
<1> QED BY <1>3, <1>6, <1>7, <1>8 DEF IInv

LEMMA ResetKeeps ==
  ASSUME IInv, NEW reploff \in Reploffs,
         \/ serverReplStreamReset2Psync(reploff)
         \/ \E s \in Snapshots : serverReplStreamReset2Xsync(s, reploff)
  PROVE  IInv'
<1>1. CASE serverReplStreamReset2Psync(reploff)
  <2>1. /\ BacklogRestartsAt(reploff) /\ executed' = executed /\ lost' = lost
        /\ prev' = Unset /\ mode' = [mode |-> "psync", from |-> next']
    BY <1>1 DEF serverReplStreamReset2Psync, resetServerReplMode, sets
  <2>2. executed' \subseteq Gtids /\ lost' \subseteq Gtids /\ prev'.mode # "psync"
    BY <2>1 DEF IInv, TypeOK, Unset
  <2> QED BY <2>1, <2>2, RestartKeeps
<1>2. CASE \E s \in Snapshots : serverReplStreamReset2Xsync(s, reploff)
  <2>1. PICK s \in Snapshots : serverReplStreamReset2Xsync(s, reploff)
    BY <1>2
  <2>2. /\ BacklogRestartsAt(reploff) /\ executed' = s.executed /\ lost' = s.lost
        /\ prev' = Unset /\ mode' = [mode |-> "xsync", from |-> next']
    BY <2>1 DEF serverReplStreamReset2Xsync, resetServerReplMode
  <2>3. executed' \subseteq Gtids /\ lost' \subseteq Gtids /\ prev'.mode # "xsync"
    BY <2>2, ConstantsAssumption DEF Unset
  <2> QED BY <2>2, <2>3, RestartKeeps
<1> QED BY <1>1, <1>2

----------------------------------------------------------------------------
(* Answers.                                                                *)

\* What a server takes for lost are gtids.
LEMMA LostTypes ==
  ASSUME \/ \E r \in Requests : masterReplySyncRequest(AnaXsync(r))
         \/ \E offset \in 1..next : masterReplySyncRequest(masterAnaPsyncRequest(offset))
  PROVE  /\ \E l \in SUBSET Gtids : lost' = lost \cup l
         /\ UNCHANGED <<executed, mode, prev, next>>
         /\ backlog => UNCHANGED <<backlog, off, idx, stream>>
         /\ ~backlog => backlog' = TRUE /\ off' = next /\ idx' = {} /\ stream' = {}
<1>1. CASE \E r \in Requests : masterReplySyncRequest(AnaXsync(r))
  <2>1. PICK r \in Requests : masterReplySyncRequest(AnaXsync(r))
    BY <1>1
  <2>2. r.S \subseteq Gtids
    BY DEF Requests
  <2>3. AnaXsync(r) # Full
    BY <2>1 DEF masterReplySyncRequest, Full
  <2>4. \E cont : AnaXsync(r).mlost = r.S \ cont
    BY <2>3 DEF AnaXsync, masterAnaXsyncRequest
  <2> QED BY <2>1, <2>2, <2>4 DEF masterReplySyncRequest, modes
<1>2. CASE \E offset \in 1..next : masterReplySyncRequest(masterAnaPsyncRequest(offset))
  <2>1. PICK offset \in 1..next : masterReplySyncRequest(masterAnaPsyncRequest(offset))
    BY <1>2
  <2>2. masterAnaPsyncRequest(offset) # Full
    BY <2>1 DEF masterReplySyncRequest, Full
  <2>3. masterAnaPsyncRequest(offset).mlost = {}
    BY <2>2 DEF masterAnaPsyncRequest
  <2> QED BY <2>1, <2>3 DEF masterReplySyncRequest, modes
<1> QED BY <1>1, <1>2

LEMMA ReplyKeeps ==
  ASSUME IInv,
         \/ \E r \in Requests : masterReplySyncRequest(AnaXsync(r))
         \/ \E offset \in 1..next : masterReplySyncRequest(masterAnaPsyncRequest(offset))
  PROVE  IInv'
<1>1. /\ lost' \subseteq Gtids /\ M \subseteq M'
      /\ executed' = executed /\ mode' = mode /\ prev' = prev /\ next' = next
  BY LostTypes DEF IInv, TypeOK, M
<1>2. CASE backlog
  <2>1. UNCHANGED <<backlog, off, idx, stream>>
    BY <1>2, LostTypes
  <2>2. TypeOK'
    BY <1>1, <2>1 DEF IInv, TypeOK, Index!Entry
  <2>3. ModesOK' /\ IndexFaithful' /\ IndexKnown'
    BY <1>1, <2>1 DEF IInv, ModesOK, IndexFaithful, IndexKnown, GtidOf
  <2> QED BY <2>2, <2>3 DEF IInv
<1>3. CASE ~backlog
  <2>1. backlog' = TRUE /\ off' = next /\ idx' = {} /\ stream' = {}
    BY <1>3, LostTypes
  <2>2. TypeOK'
    BY <1>1, <2>1 DEF IInv, TypeOK, Index!Entry
  <2>3. ModesOK' /\ IndexFaithful' /\ IndexKnown'
    BY <1>1, <2>1 DEF IInv, ModesOK, IndexFaithful, IndexKnown
  <2> QED BY <2>2, <2>3 DEF IInv
<1> QED BY <1>2, <1>3

LEMMA AddLostKeeps ==
  ASSUME IInv, NEW x \in Gtids, AddLost({x})
  PROVE  IInv'
<1>1. /\ lost' = lost \cup {x} /\ executed' = executed /\ mode' = mode /\ prev' = prev
      /\ UNCHANGED <<backlog, off, next, idx, stream>> /\ M \subseteq M'
  BY DEF AddLost, modes, M
<1>2. TypeOK'
  BY <1>1 DEF IInv, TypeOK, Index!Entry
<1> QED BY <1>1, <1>2 DEF IInv, ModesOK, IndexFaithful, IndexKnown, GtidOf

----------------------------------------------------------------------------
(* The invariant.                                                          *)

LEMMA InitInv == Init => IInv
<1> SUFFICES ASSUME Init PROVE IInv
  OBVIOUS
<1>1. mode.from = 1 /\ mode \in Modes
  BY ConstantsAssumption DEF Init, Modes
<1>2. TypeOK
  <2>1. backlog \in BOOLEAN
    BY DEF Init
  <2>2. 0 \in 0..(MaxOffset + 1) /\ 1 \in 1..(MaxOffset + 1)
    BY ConstantsAssumption
  <2> QED BY <1>1, <2>1, <2>2 DEF Init, TypeOK
<1>3. ModesOK /\ IndexFaithful /\ IndexKnown
  BY <1>1 DEF Init, ModesOK, IndexFaithful, IndexKnown, Modes, Unset
<1> QED BY <1>2, <1>3 DEF IInv

LEMMA NextInv == IInv /\ [Next]_vars => IInv'
<1> SUFFICES ASSUME IInv, [Next]_vars PROVE IInv'
  OBVIOUS
<1>1. CASE \E x \in Gtids, size \in 1..MaxSize : CommandWithGtid(x, size)
  BY <1>1, CommandWithGtidKeeps
<1>2. CASE \E size \in 1..MaxSize : CommandWithout(size)
  BY <1>2, CommandWithoutKeeps
<1>3. CASE \/ ctrip_createReplicationBacklog
           \/ ctrip_resizeReplicationBacklog
           \/ ctrip_freeReplicationBacklog
  BY <1>3, BacklogKeeps
<1>4. CASE \E reploff \in Reploffs : serverReplStreamSwitch2Psync(reploff)
  BY <1>4, Switch2PsyncKeeps
<1>5. CASE \E s \in Snapshots : serverReplStreamSwitch2Xsync(s)
  BY <1>5, Switch2XsyncKeeps
<1>6. CASE \/ \E reploff \in Reploffs : serverReplStreamReset2Psync(reploff)
           \/ \E s \in Snapshots, reploff \in Reploffs : serverReplStreamReset2Xsync(s, reploff)
  BY <1>6, ResetKeeps
<1>7. CASE \/ \E r \in Requests : masterReplySyncRequest(AnaXsync(r))
           \/ \E offset \in 1..next : masterReplySyncRequest(masterAnaPsyncRequest(offset))
  BY <1>7, ReplyKeeps
<1>8. CASE \E x \in Gtids : AddLost({x})
  BY <1>8, AddLostKeeps
<1>9. CASE \E x \in Gtids, size \in 1..MaxSize : CommandIgnored(x, size)
  BY <1>9, CommandIgnoredKeeps
<1>10. CASE UNCHANGED vars
  <2>1. UNCHANGED <<executed, lost, mode, prev, backlog, off, next, idx, stream>>
    BY <1>10 DEF vars
  <2> QED BY <2>1 DEF IInv, TypeOK, Index!Entry, ModesOK, IndexFaithful, IndexKnown, GtidOf, M
<1> QED BY <1>1, <1>2, <1>3, <1>4, <1>5, <1>6, <1>7, <1>8, <1>9, <1>10 DEF Next

LEMMA Invariant == Spec => []IInv
<1>1. Init => IInv
  BY InitInv
<1>2. IInv /\ [Next]_vars => IInv'
  BY NextInv
<1> QED BY <1>1, <1>2, PTL DEF Spec

\* Types hold for every set of gtids, sizes, snapshots and offsets.
THEOREM TypeCorrect == Spec => []TypeOK
<1>1. IInv => TypeOK
  BY DEF IInv
<1> QED BY <1>1, Invariant, PTL

\* Through every wrap of the backlog and every change of mode, gtid_seq and
\* backlog speak of the same commands.
THEOREM FaithfulTheorem == Spec => []IndexFaithful
<1>1. IInv => IndexFaithful
  BY DEF IInv
<1> QED BY <1>1, Invariant, PTL

----------------------------------------------------------------------------
(* Locating a request.                                                     *)

LEMMA Located ==
  ASSUME IInv, NEW offset \in Int, NEW m \in {"psync", "xsync"}
  PROVE  LET type == locateServerReplMode(m, offset)
         IN  /\ type \in {"prev", "switch", "cur", "invalid"}
             /\ type = "prev" => /\ prev # Unset /\ prev.mode = m /\ mode.mode # m
                                 /\ prev.from <= offset /\ offset < mode.from
             /\ type = "switch" => mode.mode # m /\ offset = mode.from
             /\ type = "cur" => mode.mode = m /\ offset >= mode.from
<1>1. /\ mode.from \in Int /\ prev.from \in Int /\ prev.mode # mode.mode
  BY ModeTypes DEF IInv, ModesOK
<1> QED BY <1>1 DEF locateServerReplMode

\* What the commands from a located offset on were written in.
LEMMA LocatedCommands ==
  ASSUME IInv, NEW offset \in Int, NEW m \in {"psync", "xsync"},
         NEW c \in stream, c.offset >= offset
  PROVE  LET type == locateServerReplMode(m, offset)
         IN  /\ type = "prev" /\ c.offset < mode.from =>
                   c.mode = m /\ c.offset + c.size <= mode.from
             /\ type = "switch" => c.mode \in {"psync", "xsync"} \ {m}
             /\ type = "cur" => c.mode = m
             /\ c.offset + c.size <= Forever
<1> DEFINE type == locateServerReplMode(m, offset)
<1>1. /\ c.offset \in Int /\ c.size \in Int
      /\ mode.from \in Int /\ prev.from \in Int /\ mode.mode \in {"psync", "xsync"}
      /\ next \in 1..(MaxOffset + 1) /\ MaxOffset \in Nat
  BY CommandTypes, ModeTypes, ConstantsAssumption DEF IInv, TypeOK
<1>2. /\ type = "prev" => /\ prev # Unset /\ prev.mode = m /\ prev.from <= offset
      /\ type = "switch" => mode.mode # m /\ offset = mode.from
      /\ type = "cur" => mode.mode = m /\ offset >= mode.from
  BY Located
<1> HIDE DEF type
<1>3. /\ c.offset + c.size <= next
      /\ c.offset >= mode.from => c.mode = mode.mode
      /\ c.offset < mode.from => c.offset + c.size <= mode.from
      /\ c.offset < mode.from /\ prev # Unset /\ c.offset >= prev.from => c.mode = prev.mode
  BY DEF IInv, ModesOK
<1>4. /\ type = "prev" /\ c.offset < mode.from => c.mode = m /\ c.offset + c.size <= mode.from
      /\ type = "switch" => c.mode \in {"psync", "xsync"} \ {m}
      /\ type = "cur" => c.mode = m
  BY <1>1, <1>2, <1>3
<1>5. c.offset + c.size <= Forever
  BY <1>1, <1>3 DEF Forever
<1> QED BY <1>4, <1>5 DEF type

----------------------------------------------------------------------------
(* The continue point.                                                     *)

\* A nonempty set of numbers has a least member.
LEMMA LeastExists ==
  ASSUME NEW S \in SUBSET Nat, S # {}
  PROVE  \E n \in S : \A k \in S : n <= k
<1>1. PICK n \in S : \A k \in S : ~(<<k, n>> \in OpToRel(<, Nat))
  BY NatLessThanWellFounded, WFMin
<1>2. ASSUME NEW k \in S PROVE n <= k
  <2>1. ~(k < n)
    BY <1>1 DEF OpToRel
  <2> QED BY <2>1
<1> QED BY <1>2

\* A replica's gnos are below what it needs.
LEMMA NeedIsAbove ==
  ASSUME NEW S \in SUBSET Gtids, NEW x \in S
  PROVE  x[2] < Need(S)[x[1]]
<1>1. x[1] \in Uuids /\ x[2] \in 1..MaxGno /\ x = <<x[1], x[2]>> /\ MaxGno \in Nat
  BY GtidTypes, ConstantsAssumption
<1> DEFINE u == x[1]
           Above(n) == \A g \in n..MaxGno : <<u, g>> \notin S
           Ns == {n \in 1..(MaxGno + 1) : Above(n)}
           P(n) == Above(n) /\ (n > 1 => <<u, n - 1>> \in S)
<1>2. MaxGno + 1 \in Ns /\ Ns \subseteq Nat
  BY <1>1
<1>3. PICK n \in Ns : \A k \in Ns : n <= k
  BY <1>2, LeastExists
<1>4. n > 1 => <<u, n - 1>> \in S
  <2> SUFFICES ASSUME n > 1, <<u, n - 1>> \notin S PROVE FALSE
    OBVIOUS
  <2>1. n \in 1..(MaxGno + 1) /\ Above(n)
    BY <1>3
  <2>2. Above(n - 1)
    <3> SUFFICES ASSUME NEW g \in (n - 1)..MaxGno PROVE <<u, g>> \notin S
      OBVIOUS
    <3>1. g = n - 1 \/ g \in n..MaxGno
      BY <1>1, <2>1
    <3> QED BY <3>1, <2>1
  <2>3. n - 1 \in Ns
    BY <2>1, <2>2, <1>1
  <2> QED BY <2>1, <2>3, <1>3
<1>5. \E k \in 1..(MaxGno + 1) : P(k)
  BY <1>3, <1>4
<1> DEFINE need == CHOOSE k \in 1..(MaxGno + 1) : P(k)
<1>6. need \in 1..(MaxGno + 1) /\ P(need)
  BY <1>5
<1>7. Need(S)[u] = need
  BY <1>1 DEF Need
<1> HIDE DEF need
<1>8. x[2] < need
  BY <1>1, <1>6
<1> QED BY <1>7, <1>8

\* The gtids that gtidSeqXsync says a replica with S lacks.
LackedBy(S) == {GtidOf(e) : e \in Index!Lacking(idx, Need(S))}

\* None is one it has, and all are the server's.
LEMMA LackedIsNew ==
  ASSUME IInv, NEW S \in SUBSET Gtids
  PROVE  LackedBy(S) \cap S = {} /\ LackedBy(S) \subseteq M
<1> SUFFICES ASSUME NEW e \in Index!Lacking(idx, Need(S))
             PROVE  GtidOf(e) \notin S /\ GtidOf(e) \in M
  BY DEF LackedBy
<1>1. e \in idx /\ \A h \in idx : h.gno < Need(S)[h.uuid] => h.offset < e.offset
  BY DEF Index!Lacking
<1>2. GtidOf(e) \in M
  BY <1>1 DEF IInv, IndexKnown
<1>3. ASSUME GtidOf(e) \in S PROVE FALSE
  <2>1. GtidOf(e)[1] = e.uuid /\ GtidOf(e)[2] = e.gno
    BY DEF GtidOf
  <2>2. e.gno < Need(S)[e.uuid]
    BY <2>1, <1>3, NeedIsAbove
  <2>3. e.offset < e.offset /\ e.offset \in Int
    BY <2>2, <1>1, EntryTypes DEF IInv
  <2> QED BY <2>3
<1> QED BY <1>2, <1>3

\* The first of them is where the entries from there on are all lacked.
LEMMA LackedFrom ==
  ASSUME IInv, NEW S \in SUBSET Gtids
  PROVE  LET lacking == Index!Lacking(idx, Need(S))
             first == CHOOSE e \in lacking : \A f \in lacking : e.offset <= f.offset
         IN  lacking # {} => /\ first.offset \in Int
                             /\ lacking = Index!From(idx, first.offset)
<1> DEFINE lacking == Index!Lacking(idx, Need(S))
           first == CHOOSE e \in lacking : \A f \in lacking : e.offset <= f.offset
           offsets == {e.offset : e \in lacking}
<1> SUFFICES ASSUME lacking # {}
             PROVE  first.offset \in Int /\ lacking = Index!From(idx, first.offset)
  OBVIOUS
<1>1. \A e \in idx : e.offset \in 1..MaxOffset
  BY EntryTypes DEF IInv
<1>2. lacking \subseteq idx
  BY DEF Index!Lacking
<1>3. offsets \subseteq Nat /\ offsets # {}
  BY <1>1, <1>2, ConstantsAssumption
<1>4. PICK n \in offsets : \A k \in offsets : n <= k
  BY <1>3, LeastExists
<1>5. \E e \in lacking : \A f \in lacking : e.offset <= f.offset
  BY <1>4
<1>6. first \in lacking /\ \A f \in lacking : first.offset <= f.offset
  BY <1>5
<1> HIDE DEF first
<1>7. ASSUME NEW e \in idx, e.offset >= first.offset
      PROVE  e \in lacking
  <2>1. \A h \in idx : h.gno < Need(S)[h.uuid] => h.offset < first.offset
    BY <1>6 DEF Index!Lacking
  <2>2. \A h \in idx : h.gno < Need(S)[h.uuid] => h.offset < e.offset
    BY <2>1, <1>1, <1>2, <1>6, <1>7
  <2> QED BY <2>2 DEF Index!Lacking
<1>8. lacking = Index!From(idx, first.offset)
  <2>1. \A e \in lacking : e.offset >= first.offset
    BY <1>1, <1>2, <1>6
  <2> HIDE DEF lacking
  <2> QED BY <2>1, <1>2, <1>7 DEF Index!From
<1> QED BY <1>1, <1>2, <1>6, <1>8

----------------------------------------------------------------------------
(* What a continued replica is sent.                                       *)

\* Every entry of the index from an offset on is sent, if the backlog has it.
LEMMA IndexedIsSent ==
  ASSUME IInv, NEW offset \in Int, offset >= off
  PROVE  {GtidOf(e) : e \in Index!From(idx, offset)} \subseteq Sent(offset, Forever)
<1> SUFFICES ASSUME NEW e \in idx, e.offset >= offset
             PROVE  GtidOf(e) \in Sent(offset, Forever)
  BY DEF Index!From
<1>1. e.offset \in 1..MaxOffset /\ off \in Int /\ MaxOffset \in Nat
  BY EntryTypes, ConstantsAssumption DEF IInv, TypeOK
<1>2. PICK c \in stream : c.offset = e.offset /\ c.gtid = GtidOf(e)
  BY <1>1 DEF IInv, IndexFaithful
<1>3. c \in Commands(offset, Forever)
  BY <1>1, <1>2 DEF Commands, Forever
<1>4. GtidOf(e) # NoGtid
  BY DEF GtidOf, NoGtid
<1> QED BY <1>2, <1>3, <1>4 DEF Sent

\* And nothing else, from where the current xsync history begins.
LEMMA SentIsIndexed ==
  ASSUME IInv, NEW offset \in Int, offset >= off,
         offset >= IF mode.mode = "xsync" THEN mode.from ELSE prev.from
  PROVE  Sent(offset, Forever) = {GtidOf(e) : e \in Index!From(idx, offset)}
<1>1. Sent(offset, Forever) \subseteq {GtidOf(e) : e \in Index!From(idx, offset)}
  <2> SUFFICES ASSUME NEW c \in stream, c.offset >= offset, c.gtid # NoGtid
               PROVE  c.gtid \in {GtidOf(e) : e \in Index!From(idx, offset)}
    BY DEF Sent, Commands
  <2>1. c.offset \in Int /\ off \in Int /\ mode.from \in Int /\ prev.from \in Int
    BY CommandTypes, ModeTypes DEF IInv, TypeOK
  <2>2. PICK e \in idx : c.offset = e.offset /\ c.gtid = GtidOf(e)
    BY <2>1 DEF IInv, IndexFaithful
  <2> QED BY <2>2 DEF Index!From
<1> QED BY <1>1, IndexedIsSent

\* What masterAnaXsyncRequest answers when it is not a full resync.
LEMMA XsyncAnswer ==
  ASSUME IInv, NEW r \in Requests, AnaXsync(r) # Full
  PROVE  LET a == AnaXsync(r)
             type == locateServerReplMode("xsync", a.offset)
         IN  /\ a.offset \in Int /\ type # "invalid"
             /\ a.action = IF type = "switch" THEN "continue" ELSE "xcontinue"
             /\ a.limit = IF type = "prev" THEN mode.from ELSE Forever
             /\ a.cont = M \ LackedBy(r.S)
             /\ ~(Gap(executed \ LackedBy(r.S), r.S \ r.slost) > r.maxgap)
             /\ \/ LackedBy(r.S) = {GtidOf(e) : e \in Index!From(idx, a.offset)}
                \/ /\ LackedBy(r.S) = {}
                   /\ a.offset = IF backlog /\ mode.mode = "psync" THEN mode.from ELSE next
<1> DEFINE lacking == Index!Lacking(idx, Need(r.S))
           first == CHOOSE e \in lacking : \A f \in lacking : e.offset <= f.offset
           last == IF backlog /\ mode.mode = "psync" THEN mode.from ELSE next
           offset == IF lacking # {} THEN first.offset ELSE last
           type == locateServerReplMode("xsync", offset)
           answer == [action |-> IF type = "switch" THEN "continue" ELSE "xcontinue",
                      offset |-> offset,
                      limit |-> IF type = "prev" THEN mode.from ELSE Forever,
                      cont |-> M \ LackedBy(r.S),
                      mlost |-> r.S \ (M \ LackedBy(r.S))]
<1>1. /\ AnaXsync(r) = answer /\ type # "invalid"
      /\ ~(Gap(executed \ LackedBy(r.S), r.S \ r.slost) > r.maxgap)
  BY Zenon DEF AnaXsync, masterAnaXsyncRequest, LackedBy
<1>2. r.S \in SUBSET Gtids
  BY DEF Requests
<1>3. lacking # {} => first.offset \in Int /\ lacking = Index!From(idx, first.offset)
  BY <1>2, LackedFrom
<1>4. last \in Int
  BY ModeTypes DEF IInv, TypeOK
<1> HIDE DEF lacking, first, last
<1>5. offset \in Int
  BY <1>3, <1>4
<1>6. \/ LackedBy(r.S) = {GtidOf(e) : e \in Index!From(idx, offset)}
      \/ LackedBy(r.S) = {} /\ offset = last
  BY <1>3 DEF LackedBy, lacking
<1> HIDE DEF offset
<1>7. AnaXsync(r).offset = offset
  BY <1>1
<1> QED BY <1>1, <1>5, <1>6, <1>7 DEF last

\* What it sends includes what the replica lacks; and if it continues in xsync
\* mode it is the same.
LEMMA XsyncSent ==
  ASSUME IInv, NEW r \in Requests, Accepted(AnaXsync(r))
  PROVE  LET a == AnaXsync(r)
         IN  /\ LackedBy(r.S) \subseteq Sent(a.offset, Forever)
             /\ a.action = "xcontinue" => Sent(a.offset, Forever) = LackedBy(r.S)
<1> DEFINE offset == AnaXsync(r).offset
           type == locateServerReplMode("xsync", offset)
           last == IF backlog /\ mode.mode = "psync" THEN mode.from ELSE next
<1>1. AnaXsync(r) # Full /\ offset >= off
  BY DEF Accepted
<1>2. /\ offset \in Int /\ type # "invalid"
      /\ AnaXsync(r).action = IF type = "switch" THEN "continue" ELSE "xcontinue"
      /\ \/ LackedBy(r.S) = {GtidOf(e) : e \in Index!From(idx, offset)}
         \/ LackedBy(r.S) = {} /\ offset = last
  BY <1>1, XsyncAnswer
<1> HIDE DEF offset, type
<1>3. LackedBy(r.S) \subseteq Sent(offset, Forever)
  BY <1>1, <1>2, IndexedIsSent
<1>4. ASSUME type # "switch" PROVE Sent(offset, Forever) = LackedBy(r.S)
  <2>1. /\ type = "prev" \/ type = "cur"
        /\ type = "prev" => /\ prev.mode = "xsync" /\ mode.mode # "xsync" /\ prev.from <= offset
                            /\ offset < mode.from
        /\ type = "cur" => mode.mode = "xsync" /\ offset >= mode.from
    BY <1>2, <1>4, Located DEF type
  <2>2. offset >= IF mode.mode = "xsync" THEN mode.from ELSE prev.from
    BY <2>1, <1>2, ModeTypes DEF IInv
  <2>3. CASE LackedBy(r.S) = {GtidOf(e) : e \in Index!From(idx, offset)}
    BY <2>2, <2>3, <1>1, <1>2, SentIsIndexed
  <2>4. CASE LackedBy(r.S) = {} /\ offset = last
    <3>1. CASE offset = next
      <4>1. \A c \in stream : c.offset < next
        BY CommandTypes DEF IInv, ModesOK, TypeOK
      <4>2. \A c \in stream : ~(c.offset >= offset)
        BY <4>1, <3>1, CommandTypes DEF IInv, TypeOK
      <4> QED BY <4>2, <2>4 DEF Sent, Commands
    <3>2. CASE offset = mode.from /\ mode.mode = "psync"
      BY <3>2, <2>1, ModeTypes DEF IInv
    <3> QED BY <3>1, <3>2, <2>4
  <2> QED BY <2>3, <2>4, <1>2
<1> QED BY <1>2, <1>3, <1>4 DEF offset

\* What masterAnaPsyncRequest answers when it is not a full resync.
LEMMA PsyncAnswer ==
  ASSUME IInv, NEW offset \in 1..next, masterAnaPsyncRequest(offset) # Full
  PROVE  LET a == masterAnaPsyncRequest(offset)
             type == locateServerReplMode("psync", offset)
         IN  /\ a.offset = offset /\ offset \in Int /\ type # "invalid"
             /\ a.action = "xcontinue" <=> type = "switch"
             /\ a.limit = IF type = "prev" THEN mode.from ELSE Forever
             /\ type = "switch" =>
                   a.cont = M \ {GtidOf(e) : e \in Index!From(idx, offset)}
<1>1. offset \in Int
  BY DEF IInv, TypeOK
<1> QED BY <1>1 DEF masterAnaPsyncRequest, Full

----------------------------------------------------------------------------
(* The theorems.                                                           *)

\* A replica that is told to continue in xsync mode ends up with exactly the
\* server's gtid.set, and is not sent what it has.
LEMMA ContinueIsExact == IInv => ContinueExact
<1> SUFFICES ASSUME IInv PROVE ContinueExact
  OBVIOUS
<1>1. ASSUME NEW r \in Requests, Accepted(AnaXsync(r)), AnaXsync(r).action = "xcontinue"
      PROVE  LET a == AnaXsync(r)
             IN  /\ a.cont \cup Sent(a.offset, Forever) = M
                 /\ a.cont \cap Sent(a.offset, Forever) = {}
                 /\ r.S \cap Sent(a.offset, Forever) = {}
  <2>1. AnaXsync(r) # Full /\ r.S \in SUBSET Gtids
    BY <1>1 DEF Accepted, Requests
  <2>2. AnaXsync(r).cont = M \ LackedBy(r.S)
    BY <2>1, XsyncAnswer
  <2>3. Sent(AnaXsync(r).offset, Forever) = LackedBy(r.S)
    BY <1>1, XsyncSent
  <2>4. LackedBy(r.S) \cap r.S = {} /\ LackedBy(r.S) \subseteq M
    BY <2>1, LackedIsNew
  <2> QED BY <2>2, <2>3, <2>4
<1>2. ASSUME NEW offset \in 1..next, Accepted(masterAnaPsyncRequest(offset)),
             masterAnaPsyncRequest(offset).action = "xcontinue"
      PROVE  LET a == masterAnaPsyncRequest(offset)
             IN  /\ a.cont \cup Sent(a.offset, Forever) = M
                 /\ a.cont \cap Sent(a.offset, Forever) = {}
  <2> DEFINE indexed == {GtidOf(e) : e \in Index!From(idx, offset)}
  <2>1. masterAnaPsyncRequest(offset) # Full
    BY <1>2 DEF Accepted
  <2>2. /\ masterAnaPsyncRequest(offset).offset = offset /\ offset \in Int
        /\ locateServerReplMode("psync", offset) = "switch"
        /\ masterAnaPsyncRequest(offset).cont = M \ indexed
    BY <1>2, <2>1, PsyncAnswer
  <2>3. mode.mode = "xsync" /\ offset = mode.from
    BY <2>2, Located, ModeTypes DEF IInv
  <2>4. offset >= off
    BY <1>2, <2>2 DEF Accepted
  <2>5. Sent(offset, Forever) = indexed
    BY <2>2, <2>3, <2>4, SentIsIndexed
  <2>6. indexed \subseteq M
    BY DEF IInv, IndexKnown, Index!From
  <2> QED BY <2>2, <2>5, <2>6
<1>3. ASSUME NEW x \in XAnswers, Accepted(x.a), x.a.action = "xcontinue"
      PROVE  /\ x.a.cont \cup Sent(x.a.offset, Forever) = M
             /\ x.a.cont \cap Sent(x.a.offset, Forever) = {}
             /\ x.r.S \cap Sent(x.a.offset, Forever) = {}
  <2>1. PICK r \in Requests : x = [r |-> r, a |-> AnaXsync(r)]
    BY DEF XAnswers
  <2>2. x.a = AnaXsync(r) /\ x.r = r
    BY <2>1
  <2> QED BY <2>2, <1>1, <1>3
<1>4. ASSUME NEW a \in PAnswers, Accepted(a), a.action = "xcontinue"
      PROVE  /\ a.cont \cup Sent(a.offset, Forever) = M
             /\ a.cont \cap Sent(a.offset, Forever) = {}
  BY <1>2, <1>4 DEF PAnswers
<1> QED BY <1>3, <1>4 DEF ContinueExact

\* Nobody is sent a byte of the other mode.
LEMMA AnswersArePure == IInv => ModePure
<1> SUFFICES ASSUME IInv PROVE ModePure
  OBVIOUS
<1> DEFINE Told(a) == IF a.action = "xcontinue" THEN "xsync" ELSE "psync"
           Pure(a) == \A c \in Commands(a.offset, a.limit) :
                         c.mode = Told(a) /\ c.offset + c.size <= a.limit
<1>1. ASSUME NEW r \in Requests, Accepted(AnaXsync(r)) PROVE Pure(AnaXsync(r))
  <2> DEFINE a == AnaXsync(r)
             type == locateServerReplMode("xsync", a.offset)
  <2>1. /\ a.offset \in Int /\ type # "invalid"
        /\ a.action = IF type = "switch" THEN "continue" ELSE "xcontinue"
        /\ a.limit = IF type = "prev" THEN mode.from ELSE Forever
    BY <1>1, XsyncAnswer DEF Accepted
  <2>2. type \in {"prev", "switch", "cur"}
    BY <2>1, Located
  <2>3. ASSUME NEW c \in stream, c.offset >= a.offset, c.offset < a.limit
        PROVE  c.mode = Told(a) /\ c.offset + c.size <= a.limit
    <3>1. /\ type = "prev" /\ c.offset < mode.from => c.mode = "xsync" /\ c.offset + c.size <= mode.from
          /\ type = "switch" => c.mode \in {"psync", "xsync"} \ {"xsync"}
          /\ type = "cur" => c.mode = "xsync"
          /\ c.offset + c.size <= Forever
      BY <2>1, <2>3, LocatedCommands
    <3> HIDE DEF a, type
    <3> QED BY <3>1, <2>1, <2>2, <2>3
  <2> QED BY <2>3 DEF Commands
<1>2. ASSUME NEW offset \in 1..next, Accepted(masterAnaPsyncRequest(offset))
      PROVE  Pure(masterAnaPsyncRequest(offset))
  <2> DEFINE a == masterAnaPsyncRequest(offset)
             type == locateServerReplMode("psync", offset)
  <2>1. /\ a.offset = offset /\ offset \in Int /\ type # "invalid"
        /\ a.action = "xcontinue" <=> type = "switch"
        /\ a.limit = IF type = "prev" THEN mode.from ELSE Forever
    BY <1>2, PsyncAnswer DEF Accepted
  <2>2. type \in {"prev", "switch", "cur"}
    BY <2>1, Located
  <2>3. ASSUME NEW c \in stream, c.offset >= a.offset, c.offset < a.limit
        PROVE  c.mode = Told(a) /\ c.offset + c.size <= a.limit
    <3>1. /\ type = "prev" /\ c.offset < mode.from => c.mode = "psync" /\ c.offset + c.size <= mode.from
          /\ type = "switch" => c.mode \in {"psync", "xsync"} \ {"psync"}
          /\ type = "cur" => c.mode = "psync"
          /\ c.offset + c.size <= Forever
      BY <2>1, <2>3, LocatedCommands
    <3> HIDE DEF a, type
    <3> QED BY <3>1, <2>1, <2>2, <2>3
  <2> QED BY <2>3 DEF Commands
<1>3. ASSUME NEW a \in {x.a : x \in XAnswers} \cup PAnswers, Accepted(a) PROVE Pure(a)
  <2>1. CASE a \in {x.a : x \in XAnswers}
    <3>1. PICK r \in Requests : a = AnaXsync(r)
      BY <2>1 DEF XAnswers
    <3> HIDE DEF Pure
    <3> QED BY <3>1, <1>1, <1>3
  <2>2. CASE a \in PAnswers
    <3> HIDE DEF Pure
    <3> QED BY <2>2, <1>2, <1>3 DEF PAnswers
  <2> QED BY <2>1, <2>2
<1> QED BY <1>3 DEF ModePure

\* The gap a replica asked for bounds how far it and the server can differ.
LEMMA GapIsBounded == IInv => GapBounded
<1> SUFFICES ASSUME IInv, NEW r \in Requests, Accepted(AnaXsync(r))
             PROVE  LET sexec == r.S \ r.slost
                        sent == Sent(AnaXsync(r).offset, Forever)
                    IN  Cardinality(executed \ (sexec \cup sent))
                           + Cardinality(sexec \ executed) <= r.maxgap
  <2>1. ASSUME NEW x \in XAnswers
        PROVE  \E r \in Requests : x.r = r /\ x.a = AnaXsync(r)
    BY DEF XAnswers
  <2> QED BY <2>1 DEF GapBounded
<1> DEFINE sexec == r.S \ r.slost
           sent == Sent(AnaXsync(r).offset, Forever)
           mexec == executed \ LackedBy(r.S)
<1>1. ~(Gap(mexec, sexec) > r.maxgap) /\ LackedBy(r.S) \subseteq sent
  BY XsyncAnswer, XsyncSent DEF Accepted
<1>2. r.maxgap \in Nat /\ r.S \subseteq Gtids /\ executed \subseteq Gtids
  BY ConstantsAssumption DEF Requests, IInv, TypeOK
<1> HIDE DEF sent
<1>3. /\ executed \ (sexec \cup sent) \in SUBSET (mexec \ sexec)
      /\ sexec \ executed \in SUBSET (sexec \ mexec)
  BY <1>1
<1>4. /\ mexec \ sexec \in SUBSET Gtids /\ sexec \ mexec \in SUBSET Gtids
      /\ executed \ (sexec \cup sent) \in SUBSET Gtids /\ sexec \ executed \in SUBSET Gtids
  BY <1>2
<1>5. \A T \in SUBSET Gtids : IsFiniteSet(T) /\ Cardinality(T) \in Nat
  BY ConstantsAssumption, FS_Subset, FS_CardinalityType
<1>6. /\ Cardinality(executed \ (sexec \cup sent)) <= Cardinality(mexec \ sexec)
      /\ Cardinality(sexec \ executed) <= Cardinality(sexec \ mexec)
  BY <1>3, <1>4, <1>5, FS_Subset
<1>7. Gap(mexec, sexec) = Cardinality(mexec \ sexec) + Cardinality(sexec \ mexec)
  BY DEF Gap
<1>8. /\ Cardinality(mexec \ sexec) \in Nat /\ Cardinality(sexec \ mexec) \in Nat
      /\ Cardinality(executed \ (sexec \cup sent)) \in Nat /\ Cardinality(sexec \ executed) \in Nat
  BY <1>4, <1>5
<1> HIDE DEF sexec, mexec
<1>9. Cardinality(executed \ (sexec \cup sent)) + Cardinality(sexec \ executed) <= r.maxgap
  BY <1>1, <1>2, <1>6, <1>7, <1>8
<1> QED BY <1>9 DEF sexec, sent

\* Whatever is told to continue in xsync mode gets what it lacks, and that only
\* once.
THEOREM ContinueTheorem == Spec => []ContinueExact
BY ContinueIsExact, Invariant, PTL

\* No answer mixes the modes.
THEOREM ModeTheorem == Spec => []ModePure
BY AnswersArePure, Invariant, PTL

\* No replica is continued over a larger gap than it asked for.
THEOREM GapTheorem == Spec => []GapBounded
BY GapIsBounded, Invariant, PTL
=============================================================================
