--------------------------- MODULE XsyncReplProofs ---------------------------
(***************************************************************************)
(* Proofs about XsyncRepl, for any servers, writes, gap, backlog and       *)
(* disruptions.                                                            *)
(***************************************************************************)
EXTENDS XsyncRepl, FiniteSetTheorems, SequenceTheorems, TLAPS

----------------------------------------------------------------------------
(* The inductive invariant.  What it says of a connection c is said of the *)
(* sets e and l of its replica, and me and ml of its master; R are the     *)
(* gtids that came back, and W the written ones.                           *)

Connection == [link : {"down", "wait", "up"}, S : SUBSET Gtids, slost : SUBSET Gtids,
               attached : BOOLEAN, chan : Seq(Messages)]

First(c, type) == c.chan # <<>> /\ Head(c.chan).type = type
Cmds(c) == {m.gtid : m \in {n \in SetOf(c.chan) : n.type = "cmd"}}
Before(c, e, l) == CASE First(c, "xfullresync") -> Head(c.chan).executed \cup Head(c.chan).lost
                     [] First(c, "xcontinue") -> e \cup l \cup Head(c.chan).cont
                     [] OTHER -> e \cup l
Base(c, e) == IF First(c, "xfullresync") THEN Head(c.chan).executed ELSE e
Will(c, e) == Cmds(c) \cup Base(c, e)

\* Two sets of executed gtids are within the gap.
Near(A, B, R) == Cardinality(((A \ B) \cup (B \ A)) \ R) <= MaxGap

\* Only the first message is an answer, a full resync sends disjoint sets, and
\* no command comes twice but for the gtids of R.
ChanOK(ch, R, W) ==
    /\ \A i \in 2..Len(ch) : ch[i].type \notin {"xcontinue", "xfullresync"}
    /\ \A i \in 1..Len(ch) :
          ch[i].type = "xfullresync" => ch[i].executed \cap ch[i].lost = {}
    /\ \A i, j \in 1..Len(ch) :
          /\ i < j /\ ch[i].type = "cmd" /\ ch[j].type = "cmd" /\ ch[i].gtid = ch[j].gtid
          => ch[i].gtid \in R
    /\ \A i \in 1..Len(ch) : ch[i].type = "cmd" => ch[i].gtid \in W

\* While it waits, the request tells the replica's sets.  What is on its way is
\* new but for the gtids of R, and brings an attached replica to the master's
\* sets.
Linked(c, e, l, me, ml, R, W) ==
    /\ c \in Connection
    /\ c.link = "down" => c = Closed
    /\ c.link = "wait" => c.S = e \cup l /\ c.slost = l
    /\ c.slost \subseteq c.S
    /\ ChanOK(c.chan, R, W)
    /\ Cmds(c) \cap Before(c, e, l) \subseteq R
    /\ c.attached => Before(c, e, l) \cup Cmds(c) = me \cup ml /\ Near(Will(c, e), me, R)

\* The backlog is a part of what was executed, each gtid once, but for the gtids
\* of R: these a replica may have ignored as lost, and may be there twice.
LogOK(lg, e, l, R, W) ==
    /\ lg \in Seq(Gtids) /\ Len(lg) <= LogSize
    /\ \A i \in 1..Len(lg) : lg[i] \in e \cup (l \cap R) /\ lg[i] \in W
    /\ \A i, j \in 1..Len(lg) : i < j /\ lg[i] = lg[j] => lg[i] \in R

\* The cursor c of server s: the own gtids it has executed are before it but for
\* those of R, and the lost ones are before the next gno.
PastExecuted(s, e, c, R) ==
    c # 0 => \A g \in 1..MaxGno : <<s, g>> \in e => g < c \/ <<s, g>> \in R
PastLost(s, e, l, c) ==
    \A g \in 1..MaxGno : <<s, g>> \in l => g < gtidSetCurrentUuidSetNext(s, e, c)
CursorOK(s, e, l, c, R) ==
    c \in 0..(MaxGno + 1) /\ PastExecuted(s, e, c, R) /\ PastLost(s, e, l, c)

Typed ==
    /\ executed \in [Servers -> SUBSET Gtids] /\ lost \in [Servers -> SUBSET Gtids]
    /\ curnext \in [Servers -> 0..(MaxGno + 1)]
    /\ log \in [Servers -> Seq(Gtids)]
    /\ master \in [Servers -> Servers \cup {None}]
    /\ conn = [s \in Servers |-> conn[s]]
    /\ written \subseteq Gtids /\ reused \subseteq Gtids /\ forgotten \subseteq Gtids
    /\ returned \subseteq Gtids
    /\ disruptions \in 0..MaxDisruptions

ServerOK(s) ==
    /\ executed[s] \cap lost[s] = {}
    /\ CursorOK(s, executed[s], lost[s], curnext[s], returned)
    /\ master[s] # s
    /\ LogOK(log[s], executed[s], lost[s], returned, written)
    /\ conn[s].link # "down" => master[s] # None
    /\ Linked(conn[s], executed[s], lost[s], executed[master[s]], lost[master[s]],
              returned, written)

\* A write is known to its server, unless a full resync or a restart has taken
\* it away; and that is how a gtid comes back, or is given again.
WritesKnown == /\ \A x \in written : x \in M(x[1]) \/ x \in forgotten
               /\ returned \subseteq forgotten /\ reused \subseteq forgotten

IInv == /\ Typed
        /\ \A s \in Servers : ServerOK(s)
        /\ WritesKnown

----------------------------------------------------------------------------
(* Gtids and gaps.                                                         *)

\* There are finitely many servers, and gnos of each.
LEMMA GtidsFinite == IsFiniteSet(Gtids)
<1>1. IsFiniteSet(1..MaxGno)
  BY ConstantsAssumption, FS_Interval
<1> QED BY <1>1, ConstantsAssumption, FS_Product DEF Gtids

\* Sets that differ by less are no farther from each other.
LEMMA NearLess ==
  ASSUME NEW R, NEW A \in SUBSET Gtids, NEW B \in SUBSET Gtids, Near(A, B, R), NEW A2, NEW B2,
         NEW R2, ((A2 \ B2) \cup (B2 \ A2)) \ R2 \subseteq ((A \ B) \cup (B \ A)) \ R
  PROVE  Near(A2, B2, R2)
<1> DEFINE D == ((A \ B) \cup (B \ A)) \ R
           D2 == ((A2 \ B2) \cup (B2 \ A2)) \ R2
<1>1. IsFiniteSet(D)
  <2>1. D \in SUBSET Gtids
    OBVIOUS
  <2> HIDE DEF D
  <2> QED BY <2>1, GtidsFinite, FS_Subset
<1>2. D2 \in SUBSET D
  OBVIOUS
<1>3. Cardinality(D) <= MaxGap /\ Cardinality(D2) <= Cardinality(D)
      /\ Cardinality(D) \in Nat /\ Cardinality(D2) \in Nat
  <2>1. Cardinality(D) <= MaxGap
    BY DEF Near
  <2>2. IsFiniteSet(D2) /\ Cardinality(D2) <= Cardinality(D)
    <3> HIDE DEF D, D2
    <3> QED BY <1>1, <1>2, FS_Subset
  <2> HIDE DEF D, D2
  <2> QED BY <1>1, <2>1, <2>2, FS_CardinalityType
<1>4. Cardinality(D2) <= MaxGap
  <2> HIDE DEF D, D2
  <2> QED BY <1>3, ConstantsAssumption
<1> QED BY <1>4 DEF Near

\* A set is within any gap of itself.
LEMMA NearSelf ==
  ASSUME NEW A, NEW R PROVE Near(A, A, R)
<1>1. ((A \ A) \cup (A \ A)) \ R = {}
  OBVIOUS
<1>2. Cardinality({}) = 0
  BY FS_EmptySet
<1> QED BY <1>1, <1>2, ConstantsAssumption DEF Near

\* The gap of masterAnaXsyncRequest bounds the difference.
LEMMA NearGap ==
  ASSUME NEW A \in SUBSET Gtids, NEW B \in SUBSET Gtids, Gap(A, B) <= MaxGap
  PROVE  Near(A, B, {})
<1>1. IsFiniteSet(A \ B) /\ IsFiniteSet(B \ A)
  <2>1. A \ B \in SUBSET Gtids /\ B \ A \in SUBSET Gtids
    OBVIOUS
  <2> QED BY <2>1, GtidsFinite, FS_Subset
<1> DEFINE P == A \ B
           Q == B \ A
<1>2. P \cap Q = {}
  OBVIOUS
<1>3. Cardinality(P) + Cardinality(Q) <= MaxGap
  BY DEF Gap
<1>4. ((A \ B) \cup (B \ A)) \ {} = P \cup Q
  OBVIOUS
<1> HIDE DEF P, Q
<1>5. Cardinality(P \cup Q) = Cardinality(P) + Cardinality(Q) - Cardinality(P \cap Q)
  BY <1>1, FS_Union DEF P, Q
<1>6. Cardinality(P \cap Q) = 0 /\ Cardinality(P) \in Nat /\ Cardinality(Q) \in Nat
  BY <1>1, <1>2, FS_EmptySet, FS_CardinalityType DEF P, Q
<1>7. Cardinality(P \cup Q) <= MaxGap
  BY <1>3, <1>5, <1>6, ConstantsAssumption
<1> QED BY <1>4, <1>7 DEF Near

----------------------------------------------------------------------------
(* The next gno.                                                           *)

\* uuidSetNext is above every own gno, and grows with the set.
LEMMA UuidSetNextIs ==
  ASSUME NEW s, NEW x
  PROVE  /\ uuidSetNext(s, x) \in 1..(MaxGno + 1)
         /\ \A g \in 1..MaxGno : <<s, g>> \in x => g < uuidSetNext(s, x)
         /\ \A y \in SUBSET x : uuidSetNext(s, y) <= uuidSetNext(s, x)
<1> DEFINE A(z) == {g \in 1..MaxGno : \E h \in g..MaxGno : <<s, h>> \in z}
<1>1. IsFiniteSet(1..MaxGno) /\ Cardinality(1..MaxGno) = MaxGno /\ MaxGno \in Nat \ {0}
  <2>1. MaxGno \in Nat \ {0}
    BY ConstantsAssumption
  <2>2. IsFiniteSet(1..MaxGno) /\ Cardinality(1..MaxGno) = IF 1 > MaxGno THEN 0 ELSE MaxGno - 1 + 1
    BY <2>1, FS_Interval
  <2> QED BY <2>1, <2>2
<1>2. ASSUME NEW z
      PROVE  /\ IsFiniteSet(A(z)) /\ Cardinality(A(z)) \in Nat /\ Cardinality(A(z)) <= MaxGno
             /\ uuidSetNext(s, z) = 1 + Cardinality(A(z))
  <2>1. A(z) \in SUBSET (1..MaxGno)
    OBVIOUS
  <2>2. uuidSetNext(s, z) = 1 + Cardinality(A(z))
    BY DEF uuidSetNext
  <2> HIDE DEF A
  <2>3. IsFiniteSet(A(z)) /\ Cardinality(A(z)) <= Cardinality(1..MaxGno)
    BY <1>1, <2>1, FS_Subset
  <2>4. Cardinality(A(z)) \in Nat
    BY <2>3, FS_CardinalityType
  <2> QED BY <1>1, <2>2, <2>3, <2>4
<1>3. uuidSetNext(s, x) \in 1..(MaxGno + 1)
  <2> HIDE DEF A
  <2> QED BY <1>1, <1>2
<1>4. ASSUME NEW g \in 1..MaxGno, <<s, g>> \in x PROVE g < uuidSetNext(s, x)
  <2>1. \A i \in 1..g : i \in 1..MaxGno /\ g \in i..MaxGno
    BY <1>1
  <2>2. 1..g \in SUBSET A(x)
    BY <1>4, <2>1
  <2>3. g \in Nat \ {0}
    BY <1>1
  <2> HIDE DEF A
  <2>4. Cardinality(1..g) <= Cardinality(A(x))
    BY <1>2, <2>2, FS_Subset
  <2>5. Cardinality(1..g) = g
    <3>1. Cardinality(1..g) = IF 1 > g THEN 0 ELSE g - 1 + 1
      BY <2>3, FS_Interval
    <3> QED BY <2>3, <3>1
  <2> QED BY <1>2, <2>3, <2>4, <2>5
<1>5. ASSUME NEW y \in SUBSET x PROVE uuidSetNext(s, y) <= uuidSetNext(s, x)
  <2>1. A(y) \in SUBSET A(x)
    OBVIOUS
  <2> HIDE DEF A
  <2>2. Cardinality(A(y)) <= Cardinality(A(x))
    BY <1>2, <2>1, FS_Subset
  <2> QED BY <1>2, <2>2
<1> QED BY <1>3, <1>4, <1>5

\* The cursor in its range, the next gno is above 0.
LEMMA NextRange ==
  ASSUME NEW s, NEW e, NEW c \in 0..(MaxGno + 1)
  PROVE  gtidSetCurrentUuidSetNext(s, e, c) \in 1..(MaxGno + 1)
BY UuidSetNextIs, ConstantsAssumption DEF gtidSetCurrentUuidSetNext

\* The cursor is moved past a new lost set.
LEMMA UpdateCursor ==
  ASSUME NEW s, NEW e, NEW l, NEW R, NEW c \in 0..(MaxGno + 1), PastExecuted(s, e, c, R),
         NEW c2, c2 = UpdateNextGno(s, e, l, c)
  PROVE  CursorOK(s, e, l, c2, R)
<1> DEFINE n == gtidSetCurrentUuidSetNext(s, e, c)
           u == uuidSetNext(s, l)
           v == uuidSetNext(s, e)
<1>1. /\ u \in 1..(MaxGno + 1) /\ v \in 1..(MaxGno + 1) /\ n \in 1..(MaxGno + 1)
      /\ \A g \in 1..MaxGno : <<s, g>> \in l => g < u
      /\ \A g \in 1..MaxGno : <<s, g>> \in e => g < v
  BY UuidSetNextIs, NextRange
<1>2. MaxGno \in Nat \ {0}
  BY ConstantsAssumption
<1>3. n = (IF c = 0 THEN v ELSE c) /\ c2 = (IF n < u THEN u ELSE c)
  BY DEF gtidSetCurrentUuidSetNext, UpdateNextGno
<1>4. gtidSetCurrentUuidSetNext(s, e, c2) = IF c2 = 0 THEN v ELSE c2
  BY DEF gtidSetCurrentUuidSetNext
<1>5. c2 \in 0..(MaxGno + 1)
  <2> HIDE DEF n, u, v
  <2> QED BY <1>1, <1>2, <1>3
<1>6. ASSUME NEW g \in 1..MaxGno, <<s, g>> \in e, c2 # 0 PROVE g < c2 \/ <<s, g>> \in R
  <2>1. c # 0 => g < c \/ <<s, g>> \in R
    BY <1>6 DEF PastExecuted
  <2>2. g < v
    BY <1>1, <1>6
  <2> HIDE DEF n, u, v
  <2>3. n < u /\ c = 0 => g < c2
    BY <1>1, <1>2, <1>3, <2>2
  <2>4. n < u /\ c # 0 /\ g < c => g < c2
    BY <1>1, <1>2, <1>3
  <2>5. ~(n < u) => c2 = c
    BY <1>3
  <2> QED BY <1>6, <2>1, <2>3, <2>4, <2>5
<1>7. ASSUME NEW g \in 1..MaxGno, <<s, g>> \in l
      PROVE  g < gtidSetCurrentUuidSetNext(s, e, c2)
  <2>1. g < u
    BY <1>1, <1>7
  <2> HIDE DEF n, u, v
  <2> QED BY <1>1, <1>2, <1>3, <1>4, <2>1
<1> QED BY <1>5, <1>6, <1>7 DEF CursorOK, PastExecuted, PastLost

\* serverGtidSetAddLost leaves the cursor right.
LEMMA AddLostCursor ==
  ASSUME NEW s, NEW e, NEW l, NEW l2, NEW R, NEW c, CursorOK(s, e, l, c, R)
  PROVE  CursorOK(s, e, l2, UpdateNextGno(s, e, l2, c), R)
BY UpdateCursor DEF CursorOK

\* serverGtidSetResetExecuted and serverGtidSetResetLost do as well.
LEMMA ResetCursor ==
  ASSUME NEW s, NEW e, NEW l0, NEW l, NEW R
  PROVE  CursorOK(s, e, l, UpdateNextGno(s, e, l, UpdateNextGno(s, e, l0, 0)), R)
<1> DEFINE c == UpdateNextGno(s, e, l0, 0)
<1>1. PastExecuted(s, e, 0, R) /\ 0 \in 0..(MaxGno + 1)
  BY ConstantsAssumption DEF PastExecuted
<1>2. CursorOK(s, e, l0, c, R)
  BY <1>1, UpdateCursor
<1> HIDE DEF c
<1>3. CursorOK(s, e, l, UpdateNextGno(s, e, l, c), R)
  BY <1>2, AddLostCursor
<1> QED BY <1>3 DEF c

\* An own gtid that returns at or after the cursor is one of R.
LEMMA ReturnCursor ==
  ASSUME NEW s, NEW e, NEW l, NEW R, NEW c, CursorOK(s, e, l, c, R),
         NEW x \in Gtids, NEW R2, R \subseteq R2,
         x[1] = s /\ c \in 1..x[2] => x \in R2
  PROVE  CursorOK(s, e \cup {x}, l, c, R2)
<1> DEFINE e2 == e \cup {x}
<1>1. c \in 0..(MaxGno + 1) /\ PastExecuted(s, e, c, R) /\ PastLost(s, e, l, c)
  BY DEF CursorOK
<1>2. MaxGno \in Nat \ {0}
  BY ConstantsAssumption
<1>3. ASSUME NEW g \in 1..MaxGno, <<s, g>> \in e2, c # 0 PROVE g < c \/ <<s, g>> \in R2
  <2>1. CASE <<s, g>> \in e
    BY <1>1, <1>3, <2>1 DEF PastExecuted
  <2>2. CASE <<s, g>> = x
    <3>1. x[1] = s /\ x[2] = g
      BY <2>2
    <3>2. g < c \/ c \in 1..g
      BY <1>1, <1>2, <1>3
    <3> QED BY <2>2, <3>1, <3>2
  <2> QED BY <1>3, <2>1, <2>2
<1>4. ASSUME NEW g \in 1..MaxGno, <<s, g>> \in l
      PROVE  g < gtidSetCurrentUuidSetNext(s, e2, c)
  <2>1. g < gtidSetCurrentUuidSetNext(s, e, c)
    BY <1>1, <1>4 DEF PastLost
  <2>2. uuidSetNext(s, e) <= uuidSetNext(s, e2) /\ e \in SUBSET e2
    BY UuidSetNextIs
  <2>3. uuidSetNext(s, e) \in 1..(MaxGno + 1) /\ uuidSetNext(s, e2) \in 1..(MaxGno + 1)
    BY UuidSetNextIs
  <2> HIDE DEF e2
  <2>4. CASE c = 0
    BY <1>2, <2>1, <2>2, <2>3, <2>4 DEF gtidSetCurrentUuidSetNext
  <2>5. CASE c # 0
    BY <2>1, <2>5 DEF gtidSetCurrentUuidSetNext
  <2> QED BY <2>4, <2>5
<1> QED BY <1>1, <1>3, <1>4 DEF CursorOK, PastExecuted, PastLost

\* The next gno is no lost one, and an executed one only of R.
LEMMA NextIsFresh ==
  ASSUME NEW s, NEW e, NEW l, NEW R, NEW c, CursorOK(s, e, l, c, R),
         NEW n, n = gtidSetCurrentUuidSetNext(s, e, c), n \in 1..MaxGno
  PROVE  <<s, n>> \notin l /\ (<<s, n>> \in e => <<s, n>> \in R)
<1>1. ~(n < n) /\ MaxGno \in Nat
  BY ConstantsAssumption
<1>2. <<s, n>> \notin l
  BY <1>1 DEF CursorOK, PastLost
<1>3. CASE c = 0
  <2>1. n = uuidSetNext(s, e)
    BY <1>3 DEF gtidSetCurrentUuidSetNext
  <2>2. <<s, n>> \in e => n < n
    BY <2>1, UuidSetNextIs
  <2> QED BY <1>1, <1>2, <2>2
<1>4. CASE c # 0
  <2>1. n = c
    BY <1>4 DEF gtidSetCurrentUuidSetNext
  <2> QED BY <1>1, <1>2, <1>4, <2>1 DEF CursorOK, PastExecuted
<1> QED BY <1>3, <1>4

\* A write takes the cursor away.
LEMMA WriteCursor ==
  ASSUME NEW s, NEW e, NEW l, NEW R, NEW c, CursorOK(s, e, l, c, R),
         NEW n, n = gtidSetCurrentUuidSetNext(s, e, c), n \in 1..MaxGno
  PROVE  CursorOK(s, e \cup {<<s, n>>}, l, 0, R)
<1> DEFINE e2 == e \cup {<<s, n>>}
<1>1. MaxGno \in Nat
  BY ConstantsAssumption
<1>2. n < uuidSetNext(s, e2) /\ uuidSetNext(s, e2) \in 1..(MaxGno + 1)
  BY UuidSetNextIs
<1> HIDE DEF e2
<1>3. ASSUME NEW g \in 1..MaxGno, <<s, g>> \in l
      PROVE  g < gtidSetCurrentUuidSetNext(s, e2, 0)
  <2>1. g < n
    BY <1>3 DEF CursorOK, PastLost
  <2> QED BY <1>1, <1>2, <2>1 DEF gtidSetCurrentUuidSetNext
<1>4. CursorOK(s, e2, l, 0, R)
  BY <1>1, <1>3 DEF CursorOK, PastExecuted, PastLost
<1> QED BY <1>4 DEF e2

----------------------------------------------------------------------------
(* Messages and channels.                                                  *)

\* The fields of a message.
LEMMA MessageTypes ==
  ASSUME NEW m \in Messages
  PROVE  /\ m.type \in {"xcontinue", "xfullresync", "cmd", "eof"}
         /\ m.type = "xcontinue" => m.cont \in SUBSET Gtids
         /\ m.type = "xfullresync" => m.executed \in SUBSET Gtids /\ m.lost \in SUBSET Gtids
         /\ m.type = "cmd" => m.gtid \in Gtids
BY DEF Messages, Eof

\* A command as a message.
LEMMA CommandIs ==
  ASSUME NEW x \in Gtids
  PROVE  Command(x) \in Messages /\ Command(x).type = "cmd" /\ Command(x).gtid = x
BY DEF Command, Messages

\* The end of a connection as a message.
LEMMA EofIs == Eof \in Messages /\ Eof.type = "eof"
BY DEF Eof, Messages

\* The fields of a connection.
LEMMA ConnectionTypes ==
  ASSUME NEW c \in Connection
  PROVE  /\ c.link \in {"down", "wait", "up"} /\ c.attached \in BOOLEAN
         /\ c.S \in SUBSET Gtids /\ c.slost \in SUBSET Gtids
         /\ c.chan \in Seq(Messages) /\ Len(c.chan) \in Nat
         /\ \A i \in 1..Len(c.chan) : c.chan[i] \in Messages
BY DEF Connection

\* The gtids of the commands on their way.
LEMMA CmdsAre ==
  ASSUME NEW c \in Connection
  PROVE  /\ \A x : x \in Cmds(c) <=>
                \E i \in 1..Len(c.chan) : c.chan[i].type = "cmd" /\ c.chan[i].gtid = x
         /\ Cmds(c) \in SUBSET Gtids
<1>1. DOMAIN c.chan = 1..Len(c.chan)
  BY ConnectionTypes
<1>2. \A x : x \in Cmds(c) <=>
                \E i \in 1..Len(c.chan) : c.chan[i].type = "cmd" /\ c.chan[i].gtid = x
  BY <1>1 DEF Cmds, SetOf
<1>3. ASSUME NEW x \in Cmds(c) PROVE x \in Gtids
  <2>1. PICK i \in 1..Len(c.chan) : c.chan[i].type = "cmd" /\ c.chan[i].gtid = x
    BY <1>2
  <2>2. c.chan[i] \in Messages
    BY ConnectionTypes
  <2> QED BY <2>1, <2>2, MessageTypes
<1> QED BY <1>2, <1>3

\* What a connection without an answer in it brings.
LEMMA NoAnswer ==
  ASSUME NEW c, ~First(c, "xcontinue"), ~First(c, "xfullresync"), NEW e, NEW l
  PROVE  Before(c, e, l) = e \cup l /\ Base(c, e) = e
BY DEF Before, Base

\* What a replica will have executed.
LEMMA WillTyped ==
  ASSUME NEW c \in Connection, NEW e \in SUBSET Gtids
  PROVE  Will(c, e) \in SUBSET Gtids
<1>1. Cmds(c) \in SUBSET Gtids
  BY CmdsAre
<1>2. First(c, "xfullresync") => Head(c.chan).executed \in SUBSET Gtids
  <2>1. c.chan # << >> => Head(c.chan) \in Messages
    BY ConnectionTypes
  <2> QED BY <2>1, MessageTypes DEF First
<1> QED BY <1>1, <1>2 DEF Will, Base

\* A closed connection has nothing in it.
LEMMA ClosedIs ==
  ASSUME NEW R, NEW W
  PROVE
  /\ Closed \in Connection /\ Closed.link = "down" /\ ~Closed.attached /\ Closed.slost = {}
  /\ Closed.S = {} /\ Closed.chan = << >> /\ Cmds(Closed) = {} /\ ChanOK(Closed.chan, R, W)
  /\ ~First(Closed, "xcontinue") /\ ~First(Closed, "xfullresync")
<1>1. /\ Closed \in Connection /\ Closed.link = "down" /\ ~Closed.attached /\ Closed.slost = {}
      /\ Closed.S = {} /\ Closed.chan = << >>
  BY DEF Closed, Connection
<1>2. Cmds(Closed) = {}
  BY <1>1, CmdsAre
<1>3. ChanOK(Closed.chan, R, W)
  BY <1>1 DEF ChanOK
<1> QED BY <1>1, <1>2, <1>3 DEF First

\* A closed connection is right whatever the sets are.
LEMMA LinkedClosed ==
  ASSUME NEW e, NEW l, NEW me, NEW ml, NEW R, NEW W
  PROVE  Linked(Closed, e, l, me, ml, R, W)
BY ClosedIs DEF Linked

\* A message more at the end of a channel.
LEMMA ChanAppend ==
  ASSUME NEW R, NEW W, NEW ch \in Seq(Messages), ChanOK(ch, R, W), NEW m \in Messages,
         m.type \notin {"xcontinue", "xfullresync"}, m.type = "cmd" => m.gtid \in W,
         m.type = "cmd" =>
            \A i \in 1..Len(ch) : ch[i].type = "cmd" /\ ch[i].gtid = m.gtid => m.gtid \in R
  PROVE  ChanOK(Append(ch, m), R, W)
<1> DEFINE d == Append(ch, m)
           n == Len(ch)
<1>1. n \in Nat /\ Len(d) = n + 1 /\ d[n + 1] = m /\ \A i \in 1..n : d[i] = ch[i]
  OBVIOUS
<1>2. /\ \A i \in 2..n : ch[i].type \notin {"xcontinue", "xfullresync"}
      /\ \A i \in 1..n : ch[i].type = "xfullresync" => ch[i].executed \cap ch[i].lost = {}
      /\ \A i, j \in 1..n :
            /\ i < j /\ ch[i].type = "cmd" /\ ch[j].type = "cmd" /\ ch[i].gtid = ch[j].gtid
            => ch[i].gtid \in R
      /\ \A i \in 1..n : ch[i].type = "cmd" => ch[i].gtid \in W
  BY DEF ChanOK
<1> HIDE DEF d, n
<1>3. \A i \in 1..(n + 1) : i = n + 1 \/ i \in 1..n
  BY <1>1
<1>4. \A i \in 2..(n + 1) : i = n + 1 \/ i \in 2..n
  BY <1>1
<1>5. \A i \in 2..n : i \in 1..n
  BY <1>1
<1>6. \A i \in 2..(n + 1) : d[i].type \notin {"xcontinue", "xfullresync"}
  BY <1>1, <1>2, <1>4, <1>5
<1>7. ASSUME NEW i \in 1..(n + 1)
      PROVE  /\ d[i].type = "xfullresync" => d[i].executed \cap d[i].lost = {}
             /\ d[i].type = "cmd" => d[i].gtid \in W
  BY <1>1, <1>2, <1>3
<1>8. ASSUME NEW i \in 1..(n + 1), NEW j \in 1..(n + 1), i < j,
             d[i].type = "cmd", d[j].type = "cmd", d[i].gtid = d[j].gtid
      PROVE  d[i].gtid \in R
  <2>1. i \in 1..n /\ d[i] = ch[i]
    <3>1. i # n + 1
      BY <1>1, <1>8
    <3> QED BY <1>1, <1>3, <3>1
  <2>2. CASE j = n + 1
    BY <1>1, <1>8, <2>1, <2>2 DEF n
  <2>3. CASE j \in 1..n
    BY <1>1, <1>2, <1>8, <2>1, <2>3
  <2> QED BY <1>3, <2>2, <2>3
<1> QED BY <1>1, <1>6, <1>7, <1>8 DEF ChanOK, d

\* A message at the end does not change what the first one says.
LEMMA FirstAppend ==
  ASSUME NEW c \in Connection, NEW d \in Connection, NEW m \in Messages,
         m.type \notin {"xcontinue", "xfullresync"}, d.chan = Append(c.chan, m), NEW e, NEW l
  PROVE  Before(d, e, l) = Before(c, e, l) /\ Base(d, e) = Base(c, e)
<1>1. c.chan \in Seq(Messages) /\ d.chan # << >>
  <2>1. c.chan \in Seq(Messages)
    BY ConnectionTypes
  <2>2. Len(Append(c.chan, m)) = Len(c.chan) + 1 /\ Len(c.chan) \in Nat
    BY <2>1
  <2> QED BY <2>1, <2>2
<1>2. CASE c.chan = << >>
  <2>1. Head(d.chan) = m
    BY <1>2
  <2>2. ~First(d, "xcontinue") /\ ~First(d, "xfullresync")
    BY <2>1 DEF First
  <2>3. ~First(c, "xcontinue") /\ ~First(c, "xfullresync")
    BY <1>2 DEF First
  <2>4. Before(d, e, l) = e \cup l /\ Base(d, e) = e
    BY <2>2, NoAnswer
  <2>5. Before(c, e, l) = e \cup l /\ Base(c, e) = e
    BY <2>3, NoAnswer
  <2> QED BY <2>4, <2>5
<1>3. CASE c.chan # << >>
  <2>1. Head(d.chan) = Head(c.chan)
    BY <1>1, <1>3
  <2>2. /\ First(d, "xcontinue") <=> First(c, "xcontinue")
        /\ First(d, "xfullresync") <=> First(c, "xfullresync")
    BY <1>1, <1>3, <2>1 DEF First
  <2> QED BY <2>1, <2>2 DEF Before, Base
<1> QED BY <1>2, <1>3

\* Closed by the master.
LEMMA LinkedKicked ==
  ASSUME NEW R, NEW W, NEW c, NEW e, NEW l, NEW me, NEW ml, NEW me2, NEW ml2,
         Linked(c, e, l, me, ml, R, W), c.link # "down"
  PROVE  Linked(Kicked(c), e, l, me2, ml2, R, W) /\ Kicked(c).link = c.link
<1> DEFINE d == Kicked(c)
<1>1. c \in Connection /\ c.chan \in Seq(Messages)
  BY ConnectionTypes DEF Linked
<1>2. /\ d \in Connection /\ d.link = c.link /\ d.S = c.S /\ d.slost = c.slost
      /\ ~d.attached /\ d.chan = Append(c.chan, Eof)
  <2> DEFINE ch == Append(c.chan, Eof)
  <2>1. ch \in Seq(Messages)
    BY <1>1, EofIs
  <2>2. d = [c EXCEPT !.attached = FALSE, !.chan = ch]
    BY DEF Kicked
  <2> HIDE DEF ch, d
  <2>3. /\ d \in Connection /\ d.link = c.link /\ d.S = c.S /\ d.slost = c.slost
        /\ ~d.attached /\ d.chan = ch
    BY <1>1, <2>1, <2>2 DEF Connection
  <2> QED BY <2>3 DEF ch
<1> HIDE DEF d
<1>3. ChanOK(d.chan, R, W)
  <2>1. Eof \in Messages /\ Eof.type \notin {"xcontinue", "xfullresync", "cmd"}
    BY EofIs
  <2> QED BY <1>1, <1>2, <2>1, ChanAppend DEF Linked
<1>4. Before(d, e, l) = Before(c, e, l)
  BY <1>1, <1>2, FirstAppend, EofIs
<1>5. Cmds(d) = Cmds(c)
  <2>1. /\ Len(d.chan) = Len(c.chan) + 1 /\ d.chan[Len(c.chan) + 1] = Eof
        /\ Len(c.chan) \in Nat /\ \A i \in 1..Len(c.chan) : d.chan[i] = c.chan[i]
    BY <1>1, <1>2
  <2>2. Eof.type # "cmd"
    BY EofIs
  <2>3. \A i \in 1..Len(d.chan) : i \in 1..Len(c.chan) \/ i = Len(c.chan) + 1
    BY <2>1
  <2>4. \A i \in 1..Len(c.chan) : i \in 1..Len(d.chan)
    BY <2>1
  <2>5. \A x : x \in Cmds(d) <=> x \in Cmds(c)
    <3>1. ASSUME NEW x \in Cmds(d) PROVE x \in Cmds(c)
      <4>1. PICK i \in 1..Len(d.chan) : d.chan[i].type = "cmd" /\ d.chan[i].gtid = x
        BY <1>2, CmdsAre
      <4>2. i \in 1..Len(c.chan)
        BY <2>1, <2>2, <2>3, <4>1
      <4> QED BY <1>1, <2>1, <4>1, <4>2, CmdsAre
    <3>2. ASSUME NEW x \in Cmds(c) PROVE x \in Cmds(d)
      <4>1. PICK i \in 1..Len(c.chan) : c.chan[i].type = "cmd" /\ c.chan[i].gtid = x
        BY <1>1, CmdsAre
      <4> QED BY <1>2, <2>1, <2>4, <4>1, CmdsAre
    <3> QED BY <3>1, <3>2
  <2> QED BY <2>5
<1> QED BY <1>2, <1>3, <1>4, <1>5 DEF Linked, d

\* A new command of the master on its way.
Fed(c, x) == [c EXCEPT !.chan = Append(@, Command(x))]

\* A command the master has just executed, or ignored as one of R, sent to an
\* attached replica, keeps the two in agreement and as near as they were.
LEMMA LinkedFed ==
  ASSUME NEW R, NEW W, NEW c, NEW e \in SUBSET Gtids, NEW l \in SUBSET Gtids,
         NEW me \in SUBSET Gtids, NEW ml \in SUBSET Gtids,
         Linked(c, e, l, me, ml, R, W), c.attached, NEW x \in Gtids, x \in W, NEW me2,
         \/ me2 = me \cup {x} /\ x \notin me \cup ml
         \/ me2 = me /\ x \in R /\ x \in me \cup ml
  PROVE  Linked(Fed(c, x), e, l, me2, ml, R, W) /\ Fed(c, x).link = c.link
<1> DEFINE d == Fed(c, x)
           m == Command(x)
<1>1. c \in Connection /\ c.chan \in Seq(Messages) /\ c.link # "down"
  BY ConnectionTypes, ClosedIs DEF Linked
<1>2. m \in Messages /\ m.type = "cmd" /\ m.gtid = x
  BY CommandIs
<1>3. /\ d \in Connection /\ d.link = c.link /\ d.S = c.S /\ d.slost = c.slost
      /\ d.attached = c.attached /\ d.chan = Append(c.chan, m)
  <2> DEFINE ch == Append(c.chan, m)
  <2>1. ch \in Seq(Messages)
    BY <1>1, <1>2
  <2>2. d = [c EXCEPT !.chan = ch]
    BY DEF Fed
  <2> HIDE DEF ch, d, m
  <2>3. /\ d \in Connection /\ d.link = c.link /\ d.S = c.S /\ d.slost = c.slost
        /\ d.attached = c.attached /\ d.chan = ch
    BY <1>1, <2>1, <2>2 DEF Connection
  <2> QED BY <2>3 DEF ch
<1> HIDE DEF d, m
<1>4. Before(d, e, l) = Before(c, e, l)
  BY <1>1, <1>2, <1>3, FirstAppend
<1>5. /\ Len(d.chan) = Len(c.chan) + 1 /\ d.chan[Len(c.chan) + 1] = m
      /\ Len(c.chan) \in Nat /\ \A i \in 1..Len(c.chan) : d.chan[i] = c.chan[i]
  BY <1>1, <1>2, <1>3
<1>6. Cmds(d) = Cmds(c) \cup {x}
  <2>3. \A i \in 1..Len(d.chan) : i \in 1..Len(c.chan) \/ i = Len(c.chan) + 1
    BY <1>5
  <2>4. Len(c.chan) + 1 \in 1..Len(d.chan) /\ \A i \in 1..Len(c.chan) : i \in 1..Len(d.chan)
    BY <1>5
  <2>5. ASSUME NEW y \in Cmds(d) PROVE y \in Cmds(c) \cup {x}
    <3>1. PICK i \in 1..Len(d.chan) : d.chan[i].type = "cmd" /\ d.chan[i].gtid = y
      BY <1>3, CmdsAre
    <3>2. CASE i \in 1..Len(c.chan)
      BY <1>1, <1>5, <3>1, <3>2, CmdsAre
    <3>3. CASE i = Len(c.chan) + 1
      BY <1>2, <1>5, <3>1, <3>3
    <3> QED BY <2>3, <3>2, <3>3
  <2>6. ASSUME NEW y \in Cmds(c) PROVE y \in Cmds(d)
    <3>1. PICK i \in 1..Len(c.chan) : c.chan[i].type = "cmd" /\ c.chan[i].gtid = y
      BY <1>1, CmdsAre
    <3> QED BY <1>3, <1>5, <2>4, <3>1, CmdsAre
  <2>7. x \in Cmds(d)
    BY <1>2, <1>3, <1>5, <2>4, CmdsAre
  <2> QED BY <2>5, <2>6, <2>7
<1>7. /\ Before(c, e, l) \cup Cmds(c) = me \cup ml /\ Near(Will(c, e), me, R)
      /\ Cmds(c) \cap Before(c, e, l) \subseteq R
  BY DEF Linked
<1>8. x \in Cmds(c) \cup Before(c, e, l) => x \in R
  BY <1>7
<1>9. ChanOK(d.chan, R, W)
  <2>1. \A i \in 1..Len(c.chan) : c.chan[i].type = "cmd" /\ c.chan[i].gtid = m.gtid => m.gtid \in R
    BY <1>1, <1>2, <1>8, CmdsAre
  <2>2. m.type \notin {"xcontinue", "xfullresync"} /\ m.gtid \in W
    BY <1>2
  <2>3. ChanOK(c.chan, R, W)
    BY DEF Linked
  <2>4. ChanOK(Append(c.chan, m), R, W)
    BY <1>1, <1>2, <2>1, <2>2, <2>3, ChanAppend
  <2> QED BY <1>3, <2>4
<1>10. Base(d, e) = Base(c, e)
  <2>1. m.type \notin {"xcontinue", "xfullresync"}
    BY <1>2
  <2> QED BY <1>1, <1>2, <1>3, <2>1, FirstAppend
<1>11. Will(c, e) \in SUBSET Gtids
  BY <1>1, WillTyped
<1>12. Near(Will(d, e), me2, R)
  <2> DEFINE A == Will(c, e)
             A2 == Will(d, e)
  <2>1. A2 = A \cup {x}
    BY <1>6, <1>10 DEF Will
  <2>2. ((A2 \ me2) \cup (me2 \ A2)) \ R \subseteq ((A \ me) \cup (me \ A)) \ R
    BY <2>1
  <2> HIDE DEF A, A2
  <2>3. Near(A2, me2, R)
    BY <1>7, <1>11, <2>2, NearLess DEF A
  <2> QED BY <2>3 DEF A2
<1>13. /\ d.link = "wait" => d.S = e \cup l /\ d.slost = l
       /\ d.slost \subseteq d.S /\ d.link # "down"
  BY <1>1, <1>3 DEF Linked
<1>14. Cmds(d) \cap Before(d, e, l) \subseteq R /\ Before(d, e, l) \cup Cmds(d) = me2 \cup ml
  BY <1>4, <1>6, <1>7, <1>8
<1> QED BY <1>3, <1>9, <1>12, <1>13, <1>14 DEF Linked, d

\* More gtids of R, or written ones, say less of a connection.
LEMMA LinkedMore ==
  ASSUME NEW R, NEW W, NEW R2, NEW W2, R \subseteq R2, W \subseteq W2,
         NEW c, NEW e \in SUBSET Gtids, NEW l, NEW me, NEW ml,
         c.attached => me \in SUBSET Gtids, Linked(c, e, l, me, ml, R, W)
  PROVE  Linked(c, e, l, me, ml, R2, W2)
<1>1. ChanOK(c.chan, R2, W2)
  BY DEF Linked, ChanOK
<1>2. Cmds(c) \cap Before(c, e, l) \subseteq R2
  BY DEF Linked
<1>3. c.attached => Near(Will(c, e), me, R2)
  <2> SUFFICES ASSUME c.attached PROVE Near(Will(c, e), me, R2)
    OBVIOUS
  <2> DEFINE A == Will(c, e)
  <2>1. Near(A, me, R) /\ c \in Connection
    BY DEF Linked
  <2>2. A \in SUBSET Gtids
    BY <2>1, WillTyped
  <2> HIDE DEF A
  <2>3. ((A \ me) \cup (me \ A)) \ R2 \subseteq ((A \ me) \cup (me \ A)) \ R
    OBVIOUS
  <2>4. Near(A, me, R2)
    BY <2>1, <2>2, <2>3, NearLess
  <2> QED BY <2>4 DEF A
<1> QED BY <1>1, <1>2, <1>3 DEF Linked

----------------------------------------------------------------------------
(* Reading a message.                                                      *)

ReadC(c) == [c EXCEPT !.link = "up", !.chan = Tail(@)]

\* The channel without its first message.
LEMMA TailIs ==
  ASSUME NEW ch \in Seq(Messages), ch # << >>
  PROVE  /\ Tail(ch) \in Seq(Messages) /\ Len(ch) \in Nat \ {0} /\ Len(Tail(ch)) = Len(ch) - 1
         /\ Head(ch) = ch[1] /\ Head(ch) \in Messages
         /\ \A i \in 1..(Len(ch) - 1) : Tail(ch)[i] = ch[i + 1]
OBVIOUS

\* Behind the first message there is no answer.
LEMMA ChanTail ==
  ASSUME NEW R, NEW W, NEW ch \in Seq(Messages), ch # << >>, ChanOK(ch, R, W)
  PROVE  /\ ChanOK(Tail(ch), R, W)
         /\ \A i \in 1..Len(Tail(ch)) : Tail(ch)[i].type \notin {"xcontinue", "xfullresync"}
<1> DEFINE d == Tail(ch)
           n == Len(ch)
<1>1. n \in Nat \ {0} /\ Len(d) = n - 1 /\ \A i \in 1..(n - 1) : d[i] = ch[i + 1]
  BY TailIs
<1>2. /\ \A i \in 2..n : ch[i].type \notin {"xcontinue", "xfullresync"}
      /\ \A i, j \in 1..n :
            /\ i < j /\ ch[i].type = "cmd" /\ ch[j].type = "cmd" /\ ch[i].gtid = ch[j].gtid
            => ch[i].gtid \in R
      /\ \A i \in 1..n : ch[i].type = "cmd" => ch[i].gtid \in W
  BY DEF ChanOK
<1> HIDE DEF d, n
<1>3. \A i \in 1..(n - 1) : i + 1 \in 2..n /\ i + 1 \in 1..n
  BY <1>1
<1>4. \A i \in 1..(n - 1) : d[i].type \notin {"xcontinue", "xfullresync"}
  BY <1>1, <1>2, <1>3
<1>5. \A i \in 2..(n - 1) : i \in 1..(n - 1)
  BY <1>1
<1>6. ASSUME NEW i \in 1..(n - 1), NEW j \in 1..(n - 1), i < j,
             d[i].type = "cmd", d[j].type = "cmd", d[i].gtid = d[j].gtid
      PROVE  d[i].gtid \in R
  <2>1. i + 1 \in 1..n /\ j + 1 \in 1..n /\ i + 1 < j + 1
    <3>1. i < j
      BY <1>6
    <3>2. i + 1 < j + 1
      BY <1>1, <3>1
    <3> QED BY <1>3, <3>2
  <2>2. d[i] = ch[i + 1] /\ d[j] = ch[j + 1]
    BY <1>1
  <2> QED BY <1>2, <1>6, <2>1, <2>2
<1>7. \A i \in 1..(n - 1) : d[i].type = "cmd" => d[i].gtid \in W
  BY <1>1, <1>2, <1>3
<1> QED BY <1>1, <1>4, <1>5, <1>6, <1>7 DEF ChanOK, d

\* A connection once its first message is read: if it is a command, it is no
\* longer on its way, unless it is one of R.
AfterRead(c, R, W) ==
    LET d == ReadC(c)
        h == Head(c.chan)
    IN  /\ d \in Connection /\ d.link = "up" /\ d.S = c.S /\ d.slost = c.slost
        /\ d.attached = c.attached
        /\ ChanOK(d.chan, R, W) /\ ~First(d, "xcontinue") /\ ~First(d, "xfullresync")
        /\ h.type # "cmd" => Cmds(c) = Cmds(d)
        /\ h.type = "cmd" => /\ Cmds(c) = Cmds(d) \cup {h.gtid}
                             /\ (h.gtid \in Cmds(d) => h.gtid \in R)
                             /\ h.gtid \in Gtids /\ h.gtid \in W

\* Reading takes the first message away, and the answer with it.
LEMMA ReadIs ==
  ASSUME NEW R, NEW W, NEW c \in Connection, c.chan # << >>, ChanOK(c.chan, R, W)
  PROVE  AfterRead(c, R, W)
<1> DEFINE d == ReadC(c)
           h == Head(c.chan)
           n == Len(c.chan)
<1>1. c.chan \in Seq(Messages)
  BY ConnectionTypes
<1>2. /\ d \in Connection /\ d.link = "up" /\ d.S = c.S /\ d.slost = c.slost
      /\ d.attached = c.attached /\ d.chan = Tail(c.chan)
  <2> DEFINE ch == Tail(c.chan)
  <2>1. ch \in Seq(Messages)
    BY <1>1, TailIs
  <2>2. d = [c EXCEPT !.link = "up", !.chan = ch]
    BY DEF ReadC
  <2> HIDE DEF ch, d
  <2>3. /\ d \in Connection /\ d.link = "up" /\ d.S = c.S /\ d.slost = c.slost
        /\ d.attached = c.attached /\ d.chan = ch
    BY <2>1, <2>2 DEF Connection
  <2> QED BY <2>3 DEF ch
<1>3. /\ n \in Nat \ {0} /\ Len(d.chan) = n - 1 /\ h = c.chan[1] /\ h \in Messages
      /\ \A i \in 1..(n - 1) : d.chan[i] = c.chan[i + 1]
  BY <1>1, <1>2, TailIs
<1>4. ChanOK(d.chan, R, W) /\ \A i \in 1..Len(d.chan) : d.chan[i].type \notin {"xcontinue", "xfullresync"}
  BY <1>1, <1>2, ChanTail
<1> HIDE DEF d, h, n
<1>5. ~First(d, "xcontinue") /\ ~First(d, "xfullresync")
  <2> SUFFICES ASSUME d.chan # << >> PROVE Head(d.chan).type \notin {"xcontinue", "xfullresync"}
    BY DEF First
  <2>1. d.chan \in Seq(Messages)
    BY <1>2, ConnectionTypes
  <2>2. 1 \in 1..Len(d.chan) /\ Head(d.chan) = d.chan[1]
    BY <2>1, TailIs
  <2> QED BY <1>4, <2>2
<1>6. /\ \A i \in 1..(n - 1) : i + 1 \in 1..n /\ 1 < i + 1
      /\ \A i \in 1..n : i = 1 \/ (i - 1 \in 1..(n - 1) /\ (i - 1) + 1 = i)
      /\ 1 \in 1..n
  BY <1>3
<1>7. Cmds(d) \subseteq Cmds(c)
  <2>1. ASSUME NEW x \in Cmds(d) PROVE x \in Cmds(c)
    <3>4. d \in Connection /\ Len(d.chan) = n - 1
      BY <1>2, <1>3
    <3>5. PICK i \in 1..Len(d.chan) : d.chan[i].type = "cmd" /\ d.chan[i].gtid = x
      BY <3>4, CmdsAre, Zenon
    <3>1. i \in 1..(n - 1) /\ d.chan[i].type = "cmd" /\ d.chan[i].gtid = x
      BY <3>4, <3>5, Zenon
    <3>2. i + 1 \in 1..n /\ c.chan[i + 1] = d.chan[i]
      BY <1>3, <1>6
    <3> QED BY <3>1, <3>2, CmdsAre DEF n
  <2> QED BY <2>1
<1>8. ASSUME NEW x \in Cmds(c) PROVE x \in Cmds(d) \/ (h.type = "cmd" /\ x = h.gtid)
  <2>1. PICK i \in 1..n : c.chan[i].type = "cmd" /\ c.chan[i].gtid = x
    BY CmdsAre DEF n
  <2>2. CASE i = 1
    BY <1>3, <2>1, <2>2
  <2>3. CASE i # 1
    <3>1. i - 1 \in 1..(n - 1) /\ (i - 1) + 1 = i
      BY <1>6, <2>3
    <3>2. d.chan[i - 1] = c.chan[i]
      BY <1>3, <3>1
    <3>3. i - 1 \in 1..Len(d.chan)
      <4>1. Len(d.chan) = n - 1
        BY <1>3
      <4> QED BY <3>1, <4>1, Zenon
    <3>4. d.chan[i - 1].type = "cmd" /\ d.chan[i - 1].gtid = x
      BY <2>1, <3>2, Zenon
    <3>5. d \in Connection
      BY <1>2
    <3>6. x \in Cmds(d)
      BY <3>3, <3>4, <3>5, CmdsAre, Zenon
    <3> QED BY <3>6
  <2> QED BY <2>2, <2>3
<1>9. ASSUME h.type = "cmd"
      PROVE  /\ h.gtid \in Cmds(c) /\ (h.gtid \in Cmds(d) => h.gtid \in R)
             /\ h.gtid \in Gtids /\ h.gtid \in W
  <2>1. h.gtid \in Cmds(c)
    BY <1>3, <1>6, <1>9, CmdsAre DEF n
  <2>2. ASSUME h.gtid \in Cmds(d) PROVE h.gtid \in R
    <3>4. d \in Connection /\ Len(d.chan) = n - 1
      BY <1>2, <1>3
    <3>5. PICK i \in 1..Len(d.chan) : d.chan[i].type = "cmd" /\ d.chan[i].gtid = h.gtid
      BY <2>2, <3>4, CmdsAre, Zenon
    <3>1. i \in 1..(n - 1) /\ d.chan[i].type = "cmd" /\ d.chan[i].gtid = h.gtid
      BY <3>4, <3>5, Zenon
    <3>2. i + 1 \in 1..n /\ 1 < i + 1 /\ c.chan[i + 1] = d.chan[i] /\ 1 \in 1..n
      BY <1>3, <1>6
    <3>3. \A a, b \in 1..n : /\ a < b /\ c.chan[a].type = "cmd" /\ c.chan[b].type = "cmd"
                             /\ c.chan[a].gtid = c.chan[b].gtid
                             => c.chan[a].gtid \in R
      BY DEF ChanOK, n
    <3> QED BY <1>3, <1>9, <3>1, <3>2, <3>3
  <2>3. h.gtid \in Gtids
    BY <1>3, <1>9, MessageTypes
  <2>4. h.gtid \in W
    <3>1. \A a \in 1..n : c.chan[a].type = "cmd" => c.chan[a].gtid \in W
      BY DEF ChanOK, n
    <3> QED BY <1>3, <1>6, <1>9, <3>1
  <2> QED BY <2>1, <2>2, <2>3, <2>4
<1>10. h.type # "cmd" => Cmds(c) = Cmds(d)
  BY <1>7, <1>8
<1>11. h.type = "cmd" => Cmds(c) = Cmds(d) \cup {h.gtid}
  BY <1>7, <1>8, <1>9
<1> QED BY <1>2, <1>4, <1>5, <1>9, <1>10, <1>11 DEF AfterRead, d, h

\* XCONTINUE: what the master has and will not send is lost.
LEMMA LinkedXcontinue ==
  ASSUME NEW R, NEW W, NEW c, NEW e \in SUBSET Gtids, NEW l \in SUBSET Gtids, NEW me, NEW ml,
         Linked(c, e, l, me, ml, R, W), First(c, "xcontinue")
  PROVE  LET slost == Head(c.chan).cont \ (e \cup l)
         IN  /\ Linked(ReadC(c), e, l \cup slost, me, ml, R, W)
             /\ slost \in SUBSET Gtids
<1> DEFINE d == ReadC(c)
           h == Head(c.chan)
           l2 == l \cup (h.cont \ (e \cup l))
<1>1. c \in Connection /\ c.chan # << >> /\ ChanOK(c.chan, R, W) /\ h.type = "xcontinue"
  BY DEF Linked, First
<1>2. h \in Messages /\ h.cont \in SUBSET Gtids
  <2>1. h \in Messages
    BY <1>1, ConnectionTypes, TailIs
  <2> QED BY <1>1, <2>1, MessageTypes
<1>3. /\ d \in Connection /\ d.link = "up" /\ d.S = c.S /\ d.slost = c.slost
      /\ d.attached = c.attached /\ ChanOK(d.chan, R, W)
      /\ ~First(d, "xcontinue") /\ ~First(d, "xfullresync") /\ Cmds(c) = Cmds(d)
  <2>1. AfterRead(c, R, W)
    BY <1>1, ReadIs
  <2> QED BY <1>1, <2>1 DEF AfterRead
<1>4. ~First(c, "xfullresync")
  BY <1>1 DEF First
<1> HIDE DEF d
<1>5. /\ Before(c, e, l) = e \cup l \cup h.cont /\ Will(c, e) = Cmds(c) \cup e
  BY <1>4 DEF Before, Will, Base
<1>6. Before(d, e, l2) = e \cup l2 /\ Will(d, e) = Cmds(d) \cup e
  BY <1>3, NoAnswer DEF Will
<1>7. e \cup l2 = e \cup l \cup h.cont
  OBVIOUS
<1> HIDE DEF l2
<1>8. /\ Cmds(c) \cap Before(c, e, l) \subseteq R /\ c.slost \subseteq c.S
      /\ c.attached => Before(c, e, l) \cup Cmds(c) = me \cup ml /\ Near(Will(c, e), me, R)
  BY DEF Linked
<1>9. Before(d, e, l2) = Before(c, e, l) /\ Will(d, e) = Will(c, e)
  BY <1>3, <1>5, <1>6, <1>7
<1>10. Linked(d, e, l2, me, ml, R, W)
  BY <1>3, <1>8, <1>9 DEF Linked
<1> QED BY <1>2, <1>10 DEF d, l2

\* XFULLRESYNC: the sets become the master's.
LEMMA LinkedXfullresync ==
  ASSUME NEW R, NEW W, NEW c, NEW e \in SUBSET Gtids, NEW l \in SUBSET Gtids, NEW me, NEW ml,
         Linked(c, e, l, me, ml, R, W), First(c, "xfullresync")
  PROVE  LET h == Head(c.chan)
         IN  /\ Linked(ReadC(c), h.executed, h.lost, me, ml, R, W)
             /\ h.executed \in SUBSET Gtids /\ h.lost \in SUBSET Gtids
             /\ h.executed \cap h.lost = {}
<1> DEFINE d == ReadC(c)
           h == Head(c.chan)
<1>1. c \in Connection /\ c.chan # << >> /\ ChanOK(c.chan, R, W) /\ h.type = "xfullresync"
  BY DEF Linked, First
<1>2. h \in Messages /\ h = c.chan[1] /\ Len(c.chan) \in Nat \ {0}
  BY <1>1, ConnectionTypes, TailIs
<1>3. h.executed \in SUBSET Gtids /\ h.lost \in SUBSET Gtids
  BY <1>1, <1>2, MessageTypes
<1>4. h.executed \cap h.lost = {}
  <2>1. 1 \in 1..Len(c.chan)
    BY <1>2
  <2> QED BY <1>1, <1>2, <2>1 DEF ChanOK
<1>5. /\ d \in Connection /\ d.link = "up" /\ d.S = c.S /\ d.slost = c.slost
      /\ d.attached = c.attached /\ ChanOK(d.chan, R, W)
      /\ ~First(d, "xcontinue") /\ ~First(d, "xfullresync") /\ Cmds(c) = Cmds(d)
  <2>1. AfterRead(c, R, W)
    BY <1>1, ReadIs
  <2> QED BY <1>1, <2>1 DEF AfterRead
<1> HIDE DEF d
<1>6. Before(c, e, l) = h.executed \cup h.lost /\ Will(c, e) = Cmds(c) \cup h.executed
  <2>1. ~First(c, "xcontinue")
    BY <1>1 DEF First
  <2>3. Before(c, e, l) = h.executed \cup h.lost
    BY <2>1 DEF Before
  <2>2. Base(c, e) = h.executed
    BY <2>1 DEF Base
  <2> QED BY <2>3, <2>2 DEF Will
<1>7. Before(d, h.executed, h.lost) = h.executed \cup h.lost
      /\ Will(d, h.executed) = Cmds(d) \cup h.executed
  <2> HIDE DEF h
  <2>1. Before(d, h.executed, h.lost) = h.executed \cup h.lost
    BY <1>5, NoAnswer
  <2>2. Base(d, h.executed) = h.executed
    BY <1>5, NoAnswer
  <2> QED BY <2>1, <2>2 DEF Will
<1>8. /\ Cmds(c) \cap Before(c, e, l) \subseteq R /\ c.slost \subseteq c.S
      /\ c.attached => Before(c, e, l) \cup Cmds(c) = me \cup ml /\ Near(Will(c, e), me, R)
  BY DEF Linked
<1>9. Linked(d, h.executed, h.lost, me, ml, R, W)
  <2>1. Before(d, h.executed, h.lost) = Before(c, e, l) /\ Will(d, h.executed) = Will(c, e)
    BY <1>5, <1>6, <1>7
  <2> HIDE DEF h
  <2> QED BY <1>5, <1>8, <2>1 DEF Linked
<1> QED BY <1>3, <1>4, <1>9 DEF d

\* The first message is the command x, and it makes e2 of the executed set e.
Gets(c, e, l, x, e2) ==
    First(c, "cmd") /\ x = Head(c.chan).gtid /\ e2 = IF x \in e \cup l THEN e ELSE e \cup {x}

\* A command: it is new to the replica, or one of R.
LEMMA LinkedCommand ==
  ASSUME NEW R, NEW W, NEW c, NEW e \in SUBSET Gtids, NEW l \in SUBSET Gtids,
         NEW me \in SUBSET Gtids, NEW ml,
         Linked(c, e, l, me, ml, R, W), NEW x, NEW e2, Gets(c, e, l, x, e2)
  PROVE  /\ Linked(ReadC(c), e2, l, me, ml, R, W)
         /\ x \in Gtids /\ x \in W /\ (x \in e \cup l => x \in R)
<1> DEFINE d == ReadC(c)
           h == Head(c.chan)
<1>0. /\ First(c, "cmd") /\ x = Head(c.chan).gtid
      /\ e2 = IF x \in e \cup l THEN e ELSE e \cup {x}
  BY DEF Gets
<1>1. c \in Connection /\ c.chan # << >> /\ ChanOK(c.chan, R, W) /\ h.type = "cmd"
  BY <1>0 DEF Linked, First
<1>2. /\ d \in Connection /\ d.link = "up" /\ d.S = c.S /\ d.slost = c.slost
      /\ d.attached = c.attached /\ ChanOK(d.chan, R, W)
      /\ ~First(d, "xcontinue") /\ ~First(d, "xfullresync")
      /\ Cmds(c) = Cmds(d) \cup {x} /\ (x \in Cmds(d) => x \in R) /\ x \in Gtids /\ x \in W
  <2>1. AfterRead(c, R, W)
    BY <1>1, ReadIs
  <2> QED BY <1>0, <1>1, <2>1 DEF AfterRead
<1>3. ~First(c, "xfullresync") /\ ~First(c, "xcontinue")
  BY <1>1 DEF First
<1> HIDE DEF d
<1>4. Before(c, e, l) = e \cup l /\ Will(c, e) = Cmds(c) \cup e
  BY <1>3, NoAnswer DEF Will
<1>5. Before(d, e2, l) = e2 \cup l /\ Will(d, e2) = Cmds(d) \cup e2
  <2>1. Before(d, e2, l) = e2 \cup l
    BY <1>2, NoAnswer
  <2>2. Base(d, e2) = e2
    BY <1>2, NoAnswer
  <2> QED BY <2>1, <2>2 DEF Will
<1>6. /\ Cmds(c) \cap Before(c, e, l) \subseteq R /\ c.slost \subseteq c.S
      /\ c.attached => Before(c, e, l) \cup Cmds(c) = me \cup ml /\ Near(Will(c, e), me, R)
  BY DEF Linked
<1>7. x \in e \cup l => x \in R
  BY <1>2, <1>4, <1>6
<1>8. /\ Before(d, e2, l) \cup Cmds(d) = Before(c, e, l) \cup Cmds(c)
      /\ Cmds(d) \cap Before(d, e2, l) \subseteq R
  BY <1>0, <1>2, <1>4, <1>5, <1>6
<1>9. c.attached => Near(Will(d, e2), me, R)
  <2> SUFFICES ASSUME c.attached PROVE Near(Will(d, e2), me, R)
    OBVIOUS
  <2> DEFINE A == Will(c, e)
             A2 == Will(d, e2)
  <2>1. A \in SUBSET Gtids /\ Near(A, me, R)
    BY <1>1, <1>6, WillTyped
  <2>2. ((A2 \ me) \cup (me \ A2)) \ R \subseteq ((A \ me) \cup (me \ A)) \ R
    BY <1>0, <1>2, <1>4, <1>5, <1>7
  <2> HIDE DEF A, A2
  <2>3. Near(A2, me, R)
    BY <2>1, <2>2, NearLess
  <2> QED BY <2>3 DEF A2
<1>10. Linked(d, e2, l, me, ml, R, W)
  BY <1>2, <1>6, <1>8, <1>9 DEF Linked
<1> QED BY <1>2, <1>7, <1>10 DEF d

----------------------------------------------------------------------------
(* Requests and answers.                                                   *)

\* Only an attached connection says something of the master's sets.
LEMMA LinkedStays ==
  ASSUME NEW R, NEW W, NEW c, NEW e, NEW l, NEW me, NEW ml, Linked(c, e, l, me, ml, R, W),
         NEW me2, NEW ml2, c.attached => me2 = me /\ ml2 = ml
  PROVE  Linked(c, e, l, me2, ml2, R, W)
<1>1. c.attached => Before(c, e, l) \cup Cmds(c) = me2 \cup ml2 /\ Near(Will(c, e), me2, R)
  BY DEF Linked
<1> QED BY <1>1 DEF Linked

\* The XSYNC request tells both sets of the replica.
LEMMA LinkedRequest ==
  ASSUME NEW R, NEW W, NEW e \in SUBSET Gtids, NEW l \in SUBSET Gtids, NEW me, NEW ml
  PROVE  Linked([Closed EXCEPT !.link = "wait", !.S = e \cup l, !.slost = l], e, l, me, ml, R, W)
<1> DEFINE d == [Closed EXCEPT !.link = "wait", !.S = e \cup l, !.slost = l]
<1>1. /\ d \in Connection /\ d.link = "wait" /\ d.S = e \cup l /\ d.slost = l
      /\ d.attached = FALSE /\ d.chan = << >>
  <2> DEFINE T == e \cup l
             cl == Closed
  <2>1. cl \in Connection /\ cl.attached = FALSE /\ cl.chan = << >>
    BY ClosedIs
  <2>2. T \in SUBSET Gtids
    OBVIOUS
  <2>3. d = [cl EXCEPT !.link = "wait", !.S = T, !.slost = l]
    OBVIOUS
  <2> HIDE DEF cl, T, d
  <2>4. /\ d \in Connection /\ d.link = "wait" /\ d.S = T /\ d.slost = l
        /\ d.attached = FALSE /\ d.chan = << >>
    BY <2>1, <2>2, <2>3 DEF Connection
  <2> QED BY <2>4 DEF T
<1> HIDE DEF d
<1>2. ChanOK(d.chan, R, W)
  BY <1>1 DEF ChanOK
<1>3. Cmds(d) = {}
  BY <1>1, CmdsAre
<1> QED BY <1>1, <1>2, <1>3 DEF Linked, d

\* Written commands, none of them twice but for the gtids of R.
Distinct(xs, R, W) ==
    /\ xs \in Seq(Gtids) /\ SetOf(xs) \in SUBSET W
    /\ \A i, j \in 1..Len(xs) : i < j /\ xs[i] = xs[j] => xs[i] \in R

\* The commands gtidSeqXsync finds are of the backlog, each one once, and none
\* is among the replica's gtids.
LEMMA XsyncSuffix ==
  ASSUME NEW R, NEW W, NEW lg, NEW e \in SUBSET Gtids, NEW l, LogOK(lg, e, l, R, W),
         NEW S \in SUBSET Gtids
  PROVE  LET xs == gtidSeqXsync(lg, S)
         IN  Distinct(xs, R, W) /\ SetOf(xs) \in SUBSET (e \cup (l \cap R)) /\ SetOf(xs) \cap S = {}
<1> DEFINE n == Len(lg)
           had == {i \in DOMAIN lg : \E j \in i..n : HadBy(S, lg[j])}
           k == Cardinality(had)
           xs == gtidSeqXsync(lg, S)
<1>1. /\ lg \in Seq(Gtids) /\ n \in Nat /\ DOMAIN lg = 1..n
      /\ \A i \in 1..n : lg[i] \in Gtids /\ lg[i] \in e \cup (l \cap R) /\ lg[i] \in W
      /\ \A i, j \in 1..n : i < j /\ lg[i] = lg[j] => lg[i] \in R
  BY DEF LogOK
<1>2. xs = SubSeq(lg, k + 1, n)
  BY DEF gtidSeqXsync
<1>3. had \in SUBSET (1..n) /\ IsFiniteSet(1..n) /\ Cardinality(1..n) = n
  <2>1. had \in SUBSET (1..n)
    BY <1>1
  <2>2. IsFiniteSet(1..n) /\ Cardinality(1..n) = IF 1 > n THEN 0 ELSE n - 1 + 1
    BY <1>1, FS_Interval
  <2> HIDE DEF had, n
  <2>3. Cardinality(1..n) = n
    BY <1>1, <2>2
  <2> QED BY <2>1, <2>2, <2>3
<1>4. IsFiniteSet(had) /\ k \in Nat /\ k <= n
  <2> HIDE DEF had, n
  <2>1. IsFiniteSet(had) /\ k <= Cardinality(1..n)
    BY <1>3, FS_Subset
  <2>2. k \in Nat
    BY <2>1, FS_CardinalityType
  <2> QED BY <1>3, <2>1, <2>2
<1>5. ASSUME NEW i \in 1..n, i > k PROVE ~HadBy(S, lg[i])
  <2> SUFFICES ASSUME HadBy(S, lg[i]) PROVE FALSE
    OBVIOUS
  <2>1. \A p \in 1..i : p \in 1..n /\ i \in p..n
    BY <1>1
  <2>2. 1..i \in SUBSET had
    BY <1>1, <2>1
  <2> HIDE DEF had, n, k
  <2>3. Cardinality(1..i) <= Cardinality(had)
    BY <1>4, <2>2, FS_Subset
  <2>4. i \in Nat \ {0}
    BY <1>1
  <2>5. Cardinality(1..i) = i
    <3>1. Cardinality(1..i) = IF 1 > i THEN 0 ELSE i - 1 + 1
      BY <2>4, FS_Interval
    <3> QED BY <2>4, <3>1
  <2> QED BY <1>4, <1>5, <2>3, <2>4, <2>5 DEF k
<1> HIDE DEF had, n, k, xs
<1>6. /\ xs \in Seq(Gtids) /\ Len(xs) = n - k /\ DOMAIN xs = 1..(n - k)
      /\ \A i \in 1..(n - k) : xs[i] = lg[k + i]
  <2>1. k + 1 \in 1..(n + 1)
    BY <1>1, <1>4
  <2>2. \A i \in (k + 1)..n : lg[i] \in Gtids
    BY <1>1, <1>4
  <2>3. /\ SubSeq(lg, k + 1, n) \in Seq(Gtids)
        /\ Len(SubSeq(lg, k + 1, n)) = IF k + 1 <= n THEN n - (k + 1) + 1 ELSE 0
        /\ \A i \in 1..(n - (k + 1) + 1) : SubSeq(lg, k + 1, n)[i] = lg[k + 1 + i - 1]
    BY <1>1, <1>4, <2>1, <2>2, SubSeqProperties
  <2>4. Len(xs) = n - k
    BY <1>1, <1>2, <1>4, <2>3
  <2>5. ASSUME NEW i \in 1..(n - k) PROVE xs[i] = lg[k + i]
    <3>1. i \in 1..(n - (k + 1) + 1) /\ k + 1 + i - 1 = k + i
      BY <1>1, <1>4
    <3> QED BY <1>2, <2>3, <3>1
  <2>6. xs \in Seq(Gtids)
    BY <1>2, <2>3
  <2>7. DOMAIN xs = 1..Len(xs)
    BY <2>6
  <2> QED BY <2>4, <2>5, <2>6, <2>7
<1>7. \A i \in 1..(n - k) : k + i \in 1..n /\ k + i > k
  BY <1>1, <1>4
<1>8. ASSUME NEW x \in SetOf(xs) PROVE x \in e \cup (l \cap R) /\ x \in W /\ x \notin S
  <2>1. PICK i \in 1..(n - k) : x = lg[k + i]
    BY <1>6 DEF SetOf
  <2>2. k + i \in 1..n /\ k + i > k
    BY <1>7
  <2>3. x \in e \cup (l \cap R) /\ x \in W /\ x \in Gtids /\ ~HadBy(S, x)
    BY <1>1, <1>5, <2>1, <2>2
  <2>4. x[2] <= x[2]
    BY <2>3, ConstantsAssumption DEF Gtids
  <2> QED BY <2>3, <2>4 DEF HadBy
<1>9. ASSUME NEW i \in 1..Len(xs), NEW j \in 1..Len(xs), i < j, xs[i] = xs[j]
      PROVE  xs[i] \in R
  <2>1. k + i \in 1..n /\ k + j \in 1..n /\ k + i < k + j
    BY <1>4, <1>6, <1>7, <1>9
  <2> QED BY <1>1, <1>6, <1>9, <2>1
<1>10. Distinct(xs, R, W)
  BY <1>6, <1>8, <1>9 DEF Distinct
<1> QED BY <1>8, <1>10 DEF xs

\* A connection answered with XCONTINUE and the commands xs.
Continued(c, cont, xs) ==
    [c EXCEPT !.attached = TRUE,
              !.chan = <<[type |-> "xcontinue", cont |-> cont]>>
                       \o [i \in DOMAIN xs |-> Command(xs[i])]]

\* XCONTINUE: once the gap allows it, the answer and its commands bring the
\* replica to what the master has, when it has counted as lost what only the
\* replica has.
LEMMA LinkedPartial ==
  ASSUME NEW R, NEW W, NEW c, NEW e \in SUBSET Gtids, NEW l \in SUBSET Gtids, e \cap l = {},
         NEW me \in SUBSET Gtids, NEW ml \in SUBSET Gtids,
         c \in Connection, c.S = e \cup l, c.slost = l, c.link = "wait",
         NEW xs, Distinct(xs, R, W),
         SetOf(xs) \in SUBSET (me \cup (ml \cap R)), SetOf(xs) \cap c.S = {},
         NEW cont, cont = (me \cup ml) \ SetOf(xs),
         Gap(me \ SetOf(xs), c.S \ c.slost) <= MaxGap
  PROVE  /\ Linked(Continued(c, cont, xs), e, l, me, ml \cup (c.S \ cont), R, W)
         /\ c.S \ cont \in SUBSET Gtids /\ (c.S \ cont) \cap (me \cup ml) = {}
<1> DEFINE a == [type |-> "xcontinue", cont |-> cont]
           cs == [i \in DOMAIN xs |-> Command(xs[i])]
           ch == <<a>> \o cs
           d == [c EXCEPT !.attached = TRUE, !.chan = ch]
           n == Len(xs)
<1>1. /\ c \in Connection /\ c.S = e \cup l /\ c.slost = l /\ c.S \in SUBSET Gtids
      /\ c.slost \subseteq c.S
  BY ConnectionTypes
<1>2. /\ n \in Nat /\ DOMAIN xs = 1..n /\ \A i \in 1..n : xs[i] \in Gtids /\ xs[i] \in W
      /\ \A i, j \in 1..n : i < j /\ xs[i] = xs[j] => xs[i] \in R
  BY DEF Distinct, SetOf
<1>3. cont \in SUBSET Gtids
  OBVIOUS
<1>4. a \in Messages /\ a.type = "xcontinue" /\ a.cont = cont
  BY <1>3 DEF Messages
<1>5. /\ cs \in Seq(Messages) /\ Len(cs) = n
      /\ \A i \in 1..n : cs[i].type = "cmd" /\ cs[i].gtid = xs[i]
  <2>1. \A i \in 1..n : /\ cs[i] = Command(xs[i]) /\ Command(xs[i]) \in Messages
                        /\ Command(xs[i]).type = "cmd" /\ Command(xs[i]).gtid = xs[i]
    BY <1>2, CommandIs
  <2>2. cs \in [1..n -> Messages]
    BY <1>2, <2>1
  <2>3. cs \in Seq(Messages) /\ DOMAIN cs = 1..n
    <3> HIDE DEF cs
    <3> QED BY <1>2, <2>2
  <2>4. Len(cs) = n
    <3> HIDE DEF cs, n
    <3> QED BY <1>2, <2>3
  <2> QED BY <2>1, <2>3, <2>4
<1> HIDE DEF cs, a, n
<1>6. /\ ch \in Seq(Messages) /\ Len(ch) = n + 1 /\ ch[1] = a /\ ch # << >> /\ Head(ch) = a
      /\ \A i \in 1..n : ch[i + 1] = cs[i]
  <2>1. <<a>> \in Seq(Messages) /\ Len(<<a>>) = 1 /\ <<a>>[1] = a
    BY <1>4
  <2>2. ch \in Seq(Messages) /\ Len(ch) = 1 + n
    BY <1>5, <2>1, ConcatProperties
  <2>3. \A i \in 1..(1 + n) : ch[i] = IF i <= 1 THEN <<a>>[i] ELSE cs[i - 1]
    BY <1>2, <1>5, <2>1, ConcatProperties DEF n
  <2>4. ch[1] = a
    <3>1. 1 \in 1..(1 + n)
      BY <1>2 DEF n
    <3> QED BY <2>1, <2>3, <3>1
  <2>5. \A i \in 1..n : ch[i + 1] = cs[i]
    <3>1. \A i \in 1..n : i + 1 \in 1..(1 + n) /\ ~(i + 1 <= 1) /\ (i + 1) - 1 = i
      BY <1>2 DEF n
    <3> HIDE DEF ch
    <3> QED BY <2>3, <3>1
  <2>6. ch # << >> /\ Head(ch) = ch[1]
    <3> HIDE DEF ch
    <3>1. Len(ch) > 0
      BY <1>2, <2>2 DEF n
    <3> QED BY <2>2, <3>1
  <2>7. Len(ch) = n + 1
    BY <1>2, <2>2 DEF n
  <2> HIDE DEF ch
  <2> QED BY <2>2, <2>4, <2>5, <2>6, <2>7
<1> HIDE DEF ch
<1>7. /\ d \in Connection /\ d.link = "wait" /\ d.S = c.S /\ d.slost = c.slost
      /\ d.attached = TRUE /\ d.chan = ch
  BY <1>1, <1>6 DEF Connection
<1> HIDE DEF d
<1>8. \A i \in 2..(n + 1) : i - 1 \in 1..n /\ (i - 1) + 1 = i
  BY <1>2 DEF n
<1>9. \A i \in 2..(n + 1) : ch[i].type = "cmd" /\ ch[i].gtid = xs[i - 1]
  BY <1>5, <1>6, <1>8
<1>10. \A i \in 1..(n + 1) : i = 1 \/ i \in 2..(n + 1)
  BY <1>2 DEF n
<1>11. ch[1].type = "xcontinue"
  BY <1>4, <1>6
<1>12. Cmds(d) = SetOf(xs)
  <2>1. ASSUME NEW x \in Cmds(d) PROVE x \in SetOf(xs)
    <3>1. PICK i \in 1..(n + 1) : ch[i].type = "cmd" /\ ch[i].gtid = x
      BY <1>6, <1>7, CmdsAre
    <3>2. i \in 2..(n + 1)
      BY <1>10, <1>11, <3>1
    <3>3. x = xs[i - 1] /\ i - 1 \in 1..n
      BY <1>8, <1>9, <3>1, <3>2
    <3> QED BY <1>2, <3>3 DEF SetOf, n
  <2>2. ASSUME NEW x \in SetOf(xs) PROVE x \in Cmds(d)
    <3>1. PICK i \in 1..n : x = xs[i]
      BY <1>2 DEF SetOf, n
    <3>2. i + 1 \in 1..(n + 1)
      BY <1>2 DEF n
    <3>3. ch[i + 1].type = "cmd" /\ ch[i + 1].gtid = x
      BY <1>5, <1>6, <3>1
    <3>4. i + 1 \in 1..Len(d.chan) /\ d.chan[i + 1].type = "cmd" /\ d.chan[i + 1].gtid = x
      BY <1>6, <1>7, <3>2, <3>3
    <3> QED BY <1>7, <3>4, CmdsAre
  <2> QED BY <2>1, <2>2
<1>13. ChanOK(d.chan, R, W)
  <2>1. ASSUME NEW i \in 1..(n + 1), NEW j \in 1..(n + 1), i < j,
               ch[i].type = "cmd", ch[j].type = "cmd", ch[i].gtid = ch[j].gtid
        PROVE  ch[i].gtid \in R
    <3>1. i \in 2..(n + 1) /\ j \in 2..(n + 1)
      BY <1>10, <1>11, <2>1
    <3>2. i - 1 \in 1..n /\ j - 1 \in 1..n /\ i - 1 < j - 1
      BY <1>2, <1>8, <2>1, <3>1 DEF n
    <3>3. xs[i - 1] = xs[j - 1] => xs[i - 1] \in R
      BY <1>2, <3>2
    <3> QED BY <1>9, <2>1, <3>1, <3>3
  <2>2. \A i \in 1..(n + 1) : ch[i].type # "xfullresync"
    BY <1>9, <1>10, <1>11
  <2>3. \A i \in 2..(n + 1) : ch[i].type \notin {"xcontinue", "xfullresync"}
    BY <1>9
  <2>4. ASSUME NEW i \in 1..(n + 1), ch[i].type = "cmd" PROVE ch[i].gtid \in W
    <3>1. i \in 2..(n + 1)
      BY <1>10, <1>11, <2>4
    <3> QED BY <1>2, <1>8, <1>9, <3>1
  <2> QED BY <1>6, <1>7, <2>1, <2>2, <2>3, <2>4 DEF ChanOK
<1>14. Before(d, e, l) = e \cup l \cup cont /\ Base(d, e) = e
  <2>1. First(d, "xcontinue") /\ ~First(d, "xfullresync") /\ Head(d.chan).cont = cont
    BY <1>4, <1>6, <1>7 DEF First
  <2>2. Before(d, e, l) = e \cup l \cup cont
    BY <2>1 DEF Before
  <2>3. Base(d, e) = e
    BY <2>1 DEF Base
  <2> QED BY <2>2, <2>3
<1>15. Cmds(d) \cap Before(d, e, l) \subseteq R
  BY <1>1, <1>12, <1>14
<1>16. Before(d, e, l) \cup Cmds(d) = me \cup (ml \cup (c.S \ cont))
  BY <1>1, <1>12, <1>14
<1>17. Near(Will(d, e), me, R)
  <2> DEFINE A == me \ SetOf(xs)
             B == e
             A2 == SetOf(xs) \cup e
             N == {}
  <2>1. c.S \ c.slost = e
    BY <1>1
  <2>2. Near(A, B, N)
    <3>1. A \in SUBSET Gtids /\ Gap(A, B) <= MaxGap
      BY <2>1
    <3> HIDE DEF A, B
    <3>2. B \in SUBSET Gtids
      BY DEF B
    <3> QED BY <3>1, <3>2, NearGap
  <2>3. ((A2 \ me) \cup (me \ A2)) \ R \subseteq ((A \ B) \cup (B \ A)) \ N
    OBVIOUS
  <2>4. A \in SUBSET Gtids /\ B \in SUBSET Gtids
    OBVIOUS
  <2>5. Will(d, e) = A2
    BY <1>12, <1>14 DEF Will
  <2> HIDE DEF A, B, A2, N
  <2>6. Near(A2, me, R)
    BY <2>2, <2>3, <2>4, NearLess
  <2> QED BY <2>5, <2>6
<1>18. Linked(d, e, l, me, ml \cup (c.S \ cont), R, W)
  BY <1>1, <1>7, <1>13, <1>15, <1>16, <1>17 DEF Linked
<1>19. c.S \ cont \in SUBSET Gtids /\ (c.S \ cont) \cap (me \cup ml) = {}
  BY <1>1
<1> QED BY <1>18, <1>19 DEF d, ch, cs, a, Continued

\* XFULLRESYNC: the replica is sent the master's sets.
LEMMA LinkedFull ==
  ASSUME NEW R, NEW W, NEW c, NEW e, NEW l, NEW me \in SUBSET Gtids, NEW ml \in SUBSET Gtids,
         me \cap ml = {}, NEW me0, NEW ml0, Linked(c, e, l, me0, ml0, R, W), c.link = "wait"
  PROVE  Linked([c EXCEPT !.attached = TRUE,
                          !.chan = <<[type |-> "xfullresync", executed |-> me, lost |-> ml]>>],
                e, l, me, ml, R, W)
<1> DEFINE a == [type |-> "xfullresync", executed |-> me, lost |-> ml]
           ch == <<a>>
           d == [c EXCEPT !.attached = TRUE, !.chan = ch]
<1>1. c \in Connection /\ c.S = e \cup l /\ c.slost = l /\ c.slost \subseteq c.S
  BY DEF Linked
<1>2. a \in Messages /\ a.type = "xfullresync" /\ a.executed = me /\ a.lost = ml
  BY DEF Messages
<1> HIDE DEF a
<1>3. ch \in Seq(Messages) /\ Len(ch) = 1 /\ ch[1] = a /\ Head(ch) = a /\ ch # << >>
  BY <1>2
<1> HIDE DEF ch
<1>4. /\ d \in Connection /\ d.link = "wait" /\ d.S = c.S /\ d.slost = c.slost
      /\ d.attached = TRUE /\ d.chan = ch
  BY <1>1, <1>3 DEF Connection
<1> HIDE DEF d
<1>5. ChanOK(d.chan, R, W)
  <2>1. \A i \in 1..Len(ch) : i = 1
    BY <1>3
  <2>2. \A i \in 2..Len(ch) : FALSE
    BY <1>3
  <2>3. \A i, j \in 1..Len(ch) : ~(i < j)
    BY <2>1
  <2> QED BY <1>2, <1>3, <1>4, <2>1, <2>2, <2>3 DEF ChanOK
<1>6. Cmds(d) = {}
  <2>1. \A i \in 1..Len(ch) : i = 1
    BY <1>3
  <2>2. \A i \in 1..Len(d.chan) : d.chan[i].type # "cmd"
    BY <1>2, <1>3, <1>4, <2>1
  <2> QED BY <1>4, <2>2, CmdsAre
<1>7. Before(d, e, l) = me \cup ml /\ Base(d, e) = me
  <2>1. First(d, "xfullresync") /\ ~First(d, "xcontinue") /\ Head(d.chan) = a
    BY <1>2, <1>3, <1>4 DEF First
  <2>2. Before(d, e, l) = me \cup ml
    BY <1>2, <2>1 DEF Before
  <2>3. Base(d, e) = me
    BY <1>2, <2>1 DEF Base
  <2> QED BY <2>2, <2>3
<1>8. Near(Will(d, e), me, R)
  <2>1. Will(d, e) = me
    BY <1>6, <1>7 DEF Will
  <2>2. Near(me, me, R)
    BY NearSelf
  <2> QED BY <2>1, <2>2
<1> QED BY <1>1, <1>4, <1>5, <1>6, <1>7, <1>8 DEF Linked, d, ch, a

----------------------------------------------------------------------------
(* The backlog.                                                            *)

\* No backlog is right for every server.
LEMMA LogEmpty ==
  ASSUME NEW e, NEW l, NEW R, NEW W PROVE LogOK(<< >>, e, l, R, W)
BY ConstantsAssumption DEF LogOK

\* A backlog stays right when the sets grow.
LEMMA LogMore ==
  ASSUME NEW lg, NEW e, NEW l, NEW R, NEW W, LogOK(lg, e, l, R, W),
         NEW e2, NEW l2, NEW R2, NEW W2,
         e \subseteq e2, l \subseteq l2, R \subseteq R2, W \subseteq W2
  PROVE  LogOK(lg, e2, l2, R2, W2)
BY DEF LogOK

\* A new command at the end, or one of R again; the first one may go.
LEMMA LogPush ==
  ASSUME NEW R, NEW W, NEW lg, NEW e, NEW l, LogOK(lg, e, l, R, W), NEW x \in Gtids, x \in W,
         NEW e2, \/ e2 = e \cup {x} /\ x \notin e \cup l
                 \/ e2 = e /\ x \in R /\ x \in e \cup l
  PROVE  LogOK(Push(lg, x), e2, l, R, W)
<1> DEFINE k == Append(lg, x)
           n == Len(lg)
           E == e2 \cup (l \cap R)
<1>1. /\ lg \in Seq(Gtids) /\ n \in Nat /\ n <= LogSize
      /\ \A i \in 1..n : lg[i] \in e \cup (l \cap R) /\ lg[i] \in W
      /\ \A i, j \in 1..n : i < j /\ lg[i] = lg[j] => lg[i] \in R
  BY DEF LogOK
<1>2. /\ k \in Seq(Gtids) /\ Len(k) = n + 1 /\ k[n + 1] = x
      /\ \A i \in 1..n : k[i] = lg[i]
  BY <1>1
<1>3. Push(lg, x) = IF Len(k) > LogSize THEN Tail(k) ELSE k
  BY DEF Push
<1>4. x \in E /\ e \cup (l \cap R) \subseteq E /\ (x \in e \cup (l \cap R) => x \in R)
  OBVIOUS
<1> HIDE DEF k, n, E
<1>5. \A i \in 1..(n + 1) : i = n + 1 \/ i \in 1..n
  BY <1>1
<1>6. \A i \in 1..(n + 1) : k[i] \in E /\ k[i] \in W
  BY <1>1, <1>2, <1>4, <1>5
<1>7. ASSUME NEW i \in 1..(n + 1), NEW j \in 1..(n + 1), i < j, k[i] = k[j]
      PROVE  k[i] \in R
  <2>1. i \in 1..n
    BY <1>1, <1>7
  <2>2. CASE j = n + 1
    BY <1>1, <1>2, <1>4, <1>7, <2>1, <2>2
  <2>3. CASE j \in 1..n
    BY <1>1, <1>2, <1>7, <2>1, <2>3
  <2> QED BY <1>5, <2>2, <2>3
<1>8. CASE Len(k) > LogSize
  <2> DEFINE t == Tail(k)
  <2>1. t \in Seq(Gtids) /\ Len(t) = n /\ \A i \in 1..n : t[i] = k[i + 1]
    <3>1. k # << >>
      BY <1>1, <1>2
    <3> QED BY <1>1, <1>2, <3>1
  <2>2. Push(lg, x) = t
    BY <1>3, <1>8
  <2>3. \A i \in 1..n : i + 1 \in 1..(n + 1)
    BY <1>1
  <2>4. \A i, j \in 1..n : i < j => i + 1 < j + 1
    BY <1>1
  <2> HIDE DEF t
  <2>5. \A i \in 1..n : t[i] \in E /\ t[i] \in W
    BY <1>6, <2>1, <2>3
  <2>6. \A i, j \in 1..n : i < j /\ t[i] = t[j] => t[i] \in R
    BY <1>7, <2>1, <2>3, <2>4
  <2> QED BY <1>1, <2>1, <2>2, <2>5, <2>6 DEF LogOK, E
<1>9. CASE ~(Len(k) > LogSize)
  <2>1. Len(k) <= LogSize
    BY <1>1, <1>2, <1>9, ConstantsAssumption
  <2> QED BY <1>2, <1>3, <1>6, <1>7, <1>9, <2>1 DEF LogOK, E
<1> QED BY <1>8, <1>9

----------------------------------------------------------------------------
(* The steps.                                                              *)

\* What the invariant says of one server.
LEMMA StateIs ==
  ASSUME IInv, NEW s \in Servers
  PROVE  /\ executed[s] \in SUBSET Gtids /\ lost[s] \in SUBSET Gtids
         /\ M(s) = executed[s] \cup lost[s] /\ executed[s] \cap lost[s] = {}
         /\ CursorOK(s, executed[s], lost[s], curnext[s], returned)
         /\ LogOK(log[s], executed[s], lost[s], returned, written) /\ log[s] \in Seq(Gtids)
         /\ master[s] \in Servers \cup {None} /\ master[s] # s
         /\ conn[s].link # "down" => master[s] \in Servers
         /\ Linked(conn[s], executed[s], lost[s], executed[master[s]], lost[master[s]],
                   returned, written)
         /\ conn[s] \in Connection
         /\ conn[s].link = "down" => conn[s] = Closed /\ ~conn[s].attached /\ conn[s].chan = << >>
<1>1. Typed /\ ServerOK(s)
  BY DEF IInv
<1>2. /\ executed[s] \in SUBSET Gtids /\ lost[s] \in SUBSET Gtids
      /\ M(s) = executed[s] \cup lost[s] /\ log[s] \in Seq(Gtids)
      /\ master[s] \in Servers \cup {None}
  BY <1>1 DEF Typed, M
<1>3. /\ executed[s] \cap lost[s] = {} /\ master[s] # s
      /\ CursorOK(s, executed[s], lost[s], curnext[s], returned)
      /\ LogOK(log[s], executed[s], lost[s], returned, written)
      /\ conn[s].link # "down" => master[s] # None
      /\ Linked(conn[s], executed[s], lost[s], executed[master[s]], lost[master[s]],
                returned, written)
  BY <1>1 DEF ServerOK
<1>4. /\ conn[s] \in Connection
      /\ conn[s].link = "down" => conn[s] = Closed
  BY <1>3 DEF Linked
<1> QED BY <1>2, <1>3, <1>4, ClosedIs

\* The replicas of s, which s is not one of.
LEMMA SlavesAre ==
  ASSUME IInv, NEW s \in Servers
  PROVE  /\ s \notin Slaves(s) /\ None \notin Slaves(s)
         /\ \A r \in Slaves(s) : /\ r \in Servers /\ r # s /\ master[r] = s
                                 /\ conn[r].attached /\ conn[r].link # "down"
         /\ \A r \in Servers : conn[r].attached /\ r \notin Slaves(s) =>
                                 master[r] # s /\ master[r] \in Servers
<1>1. \A r \in Servers : /\ master[r] # r
                         /\ conn[r].attached => conn[r].link # "down"
                         /\ conn[r].link # "down" => master[r] \in Servers
  BY StateIs
<1> QED BY <1>1, ConstantsAssumption DEF Slaves

\* What ServerOK asks of the next state, when the masters stay.
LEMMA NextServerOK ==
  ASSUME IInv, master' = master, NEW r \in Servers,
         executed'[r] \cap lost'[r] = {},
         CursorOK(r, executed'[r], lost'[r], curnext'[r], returned'),
         LogOK(log'[r], executed'[r], lost'[r], returned', written'),
         conn'[r].link # "down" => conn[r].link # "down",
         Linked(conn'[r], executed'[r], lost'[r], executed'[master[r]], lost'[master[r]],
                returned', written')
  PROVE  ServerOK(r)'
<1>1. master[r] # r /\ (conn[r].link # "down" => master[r] \in Servers)
  BY StateIs
<1>2. conn'[r].link # "down" => master'[r] # None
  BY <1>1, ConstantsAssumption
<1> QED BY <1>1, <1>2 DEF ServerOK

\* What ServerOK asks of a server whose sets and backlog stay.
LEMMA OwnStays ==
  ASSUME IInv, NEW r \in Servers, executed'[r] = executed[r], lost'[r] = lost[r],
         curnext'[r] = curnext[r], log'[r] \in {log[r], << >>},
         returned' = returned, written' = written
  PROVE  /\ executed'[r] \cap lost'[r] = {}
         /\ CursorOK(r, executed'[r], lost'[r], curnext'[r], returned')
         /\ LogOK(log'[r], executed'[r], lost'[r], returned', written')
<1>1. /\ executed[r] \cap lost[r] = {}
      /\ CursorOK(r, executed[r], lost[r], curnext[r], returned)
      /\ LogOK(log[r], executed[r], lost[r], returned, written)
  BY StateIs
<1>2. LogOK(<< >>, executed[r], lost[r], returned, written)
  BY LogEmpty
<1> QED BY <1>1, <1>2

\* Steps that leave the sets alone, but may set a cursor.
LEMMA SetsStay ==
  ASSUME IInv, executed' = executed, lost' = lost, UNCHANGED history,
         curnext' \in [Servers -> 0..(MaxGno + 1)],
         \A r \in Servers : CursorOK(r, executed[r], lost[r], curnext'[r], returned),
         disruptions' \in 0..MaxDisruptions,
         log' \in [Servers -> Seq(Gtids)], \A r \in Servers : log'[r] \in {log[r], << >>},
         master' \in [Servers -> Servers \cup {None}], conn' = [r \in Servers |-> conn'[r]],
         \A r \in Servers :
            \/ master'[r] = master[r] /\ conn'[r] = conn[r]
            \/ master'[r] # r /\ conn'[r] = Closed
            \/ /\ master'[r] = master[r] /\ master[r] # None
               /\ conn'[r] = [Closed EXCEPT !.link = "wait", !.S = M(r), !.slost = lost[r]]
  PROVE  IInv'
<1>1. /\ written' = written /\ reused' = reused /\ forgotten' = forgotten
      /\ returned' = returned
  BY DEF history
<1>2. Typed'
  BY <1>1 DEF IInv, Typed
<1>3. ASSUME NEW r \in Servers PROVE ServerOK(r)'
  <2>1. /\ LogOK(log[r], executed[r], lost[r], returned, written)
        /\ M(r) = executed[r] \cup lost[r]
        /\ executed[r] \in SUBSET Gtids /\ lost[r] \in SUBSET Gtids
        /\ executed[r] \cap lost[r] = {} /\ master[r] # r
        /\ conn[r].link # "down" => master[r] # None
        /\ Linked(conn[r], executed[r], lost[r], executed[master[r]], lost[master[r]],
                  returned, written)
    BY StateIs, ConstantsAssumption
  <2>2. LogOK(log'[r], executed[r], lost[r], returned, written)
    <3>1. log'[r] = log[r] \/ log'[r] = << >>
      OBVIOUS
    <3>2. CASE log'[r] = log[r]
      BY <2>1, <3>2
    <3>3. CASE log'[r] = << >>
      <4>1. LogOK(<< >>, executed[r], lost[r], returned, written)
        BY LogEmpty
      <4> QED BY <3>3, <4>1
    <3> QED BY <3>1, <3>2, <3>3
  <2>3. master'[r] # r
    BY <2>1
  <2>4. conn'[r].link # "down" => master'[r] # None
    BY <2>1, ClosedIs
  <2>5. Linked(conn'[r], executed[r], lost[r], executed[master'[r]], lost[master'[r]],
               returned, written)
    <3>1. CASE master'[r] = master[r] /\ conn'[r] = conn[r]
      BY <2>1, <3>1
    <3>2. CASE conn'[r] = Closed
      BY <3>2, LinkedClosed
    <3>3. CASE conn'[r] = [Closed EXCEPT !.link = "wait", !.S = M(r), !.slost = lost[r]]
      <4> DEFINE e == executed[r]
                 l == lost[r]
                 me == executed[master'[r]]
                 ml == lost[master'[r]]
                 d == [Closed EXCEPT !.link = "wait", !.S = e \cup l, !.slost = l]
      <4>1. conn'[r] = d
        BY <2>1, <3>3
      <4>2. e \in SUBSET Gtids /\ l \in SUBSET Gtids
        BY <2>1
      <4> HIDE DEF e, l, me, ml
      <4>3. Linked(d, e, l, me, ml, returned, written)
        BY <4>2, LinkedRequest
      <4> HIDE DEF d
      <4> QED BY <4>1, <4>3 DEF e, l, me, ml
    <3> QED BY <3>1, <3>2, <3>3
  <2>6. CursorOK(r, executed[r], lost[r], curnext'[r], returned)
    OBVIOUS
  <2> QED BY <1>1, <2>1, <2>2, <2>3, <2>4, <2>5, <2>6 DEF ServerOK
<1>4. WritesKnown'
  BY <1>1 DEF IInv, WritesKnown, M
<1> QED BY <1>2, <1>3, <1>4 DEF IInv

\* The cursors that stay are right.
LEMMA CursorStays ==
  ASSUME IInv, UNCHANGED sets
  PROVE  /\ executed' = executed /\ lost' = lost /\ curnext' \in [Servers -> 0..(MaxGno + 1)]
         /\ \A r \in Servers : CursorOK(r, executed[r], lost[r], curnext'[r], returned)
<1>1. executed' = executed /\ lost' = lost /\ curnext' = curnext
  BY DEF sets
<1>2. curnext \in [Servers -> 0..(MaxGno + 1)]
  BY DEF IInv, Typed
<1>3. \A r \in Servers : CursorOK(r, executed[r], lost[r], curnext[r], returned)
  BY StateIs
<1> QED BY <1>1, <1>2, <1>3

\* A disruption is counted within its bound.
LEMMA DisruptionIs ==
  ASSUME IInv, Disruption
  PROVE  disruptions' \in 0..MaxDisruptions
BY ConstantsAssumption DEF IInv, Typed, Disruption

\* REPLICAOF closes the connection to the old master.
LEMMA ReplicaOfStep ==
  ASSUME IInv, NEW s \in Servers, NEW m \in Servers \cup {None}, ReplicaOf(s, m)
  PROVE  IInv'
<1>1. /\ m # s /\ master' = [master EXCEPT ![s] = m] /\ conn' = [conn EXCEPT ![s] = Closed]
      /\ UNCHANGED <<sets, history>> /\ log' = log /\ Disruption
  BY DEF ReplicaOf
<1>2. /\ master \in [Servers -> Servers \cup {None}] /\ log \in [Servers -> Seq(Gtids)]
      /\ conn = [r \in Servers |-> conn[r]]
  BY DEF IInv, Typed
<1>3. disruptions' \in 0..MaxDisruptions
  BY <1>1, DisruptionIs
<1>4. master' \in [Servers -> Servers \cup {None}] /\ log' \in [Servers -> Seq(Gtids)]
  BY <1>1, <1>2
<1>5. conn' = [r \in Servers |-> conn'[r]]
  BY <1>1, <1>2
<1>6. \A r \in Servers : \/ master'[r] = master[r] /\ conn'[r] = conn[r]
                         \/ master'[r] # r /\ conn'[r] = Closed
  BY <1>1, <1>2
<1>7. \A r \in Servers : log'[r] \in {log[r], << >>}
  BY <1>1
<1> QED BY <1>1, <1>3, <1>4, <1>5, <1>6, <1>7, SetsStay, CursorStays

\* A broken link is a closed connection.
LEMMA BreakLinkStep ==
  ASSUME IInv, NEW s \in Servers, BreakLink(s)
  PROVE  IInv'
<1>1. /\ conn' = [conn EXCEPT ![s] = Closed] /\ master' = master
      /\ UNCHANGED <<sets, history>> /\ log' = log /\ Disruption
  BY DEF BreakLink
<1>2. /\ master \in [Servers -> Servers \cup {None}] /\ log \in [Servers -> Seq(Gtids)]
      /\ conn = [r \in Servers |-> conn[r]]
  BY DEF IInv, Typed
<1>3. disruptions' \in 0..MaxDisruptions
  BY <1>1, DisruptionIs
<1>4. conn' = [r \in Servers |-> conn'[r]]
  BY <1>1, <1>2
<1>5. \A r \in Servers : master[r] # r
  BY StateIs
<1>6. \A r \in Servers : \/ master'[r] = master[r] /\ conn'[r] = conn[r]
                         \/ master'[r] # r /\ conn'[r] = Closed
  BY <1>1, <1>2, <1>5
<1>7. \A r \in Servers : log'[r] \in {log[r], << >>}
  BY <1>1
<1> QED BY <1>1, <1>2, <1>3, <1>4, <1>6, <1>7, SetsStay, CursorStays

\* Without its backlog a server still knows its sets.
LEMMA DropBacklogStep ==
  ASSUME IInv, NEW s \in Servers, DropBacklog(s)
  PROVE  IInv'
<1>1. /\ log' = [log EXCEPT ![s] = << >>] /\ master' = master /\ conn' = conn
      /\ UNCHANGED <<sets, history>> /\ Disruption
  BY DEF DropBacklog
<1>2. /\ master \in [Servers -> Servers \cup {None}] /\ log \in [Servers -> Seq(Gtids)]
      /\ conn = [r \in Servers |-> conn[r]]
  BY DEF IInv, Typed
<1>3. disruptions' \in 0..MaxDisruptions
  BY <1>1, DisruptionIs
<1>4. conn' = [r \in Servers |-> conn'[r]]
  BY <1>1, <1>2
<1>5. log' \in [Servers -> Seq(Gtids)] /\ \A r \in Servers : log'[r] \in {log[r], << >>}
  BY <1>1, <1>2
<1>6. \A r \in Servers : master'[r] = master[r] /\ conn'[r] = conn[r]
  BY <1>1
<1> QED BY <1>1, <1>2, <1>3, <1>4, <1>5, <1>6, SetsStay, CursorStays

\* The request is made of the sets as they are, and they stay until the answer.
LEMMA RequestStep ==
  ASSUME IInv, NEW s \in Servers, Request(s)
  PROVE  IInv'
<1> DEFINE req == [Closed EXCEPT !.link = "wait", !.S = M(s), !.slost = lost[s]]
<1>1. /\ conn' = [conn EXCEPT ![s] = req] /\ master[s] # None
      /\ UNCHANGED <<sets, history>> /\ log' = log /\ master' = master
      /\ disruptions' = disruptions
  BY DEF Request
<1>2. /\ master \in [Servers -> Servers \cup {None}] /\ log \in [Servers -> Seq(Gtids)]
      /\ conn = [r \in Servers |-> conn[r]] /\ disruptions \in 0..MaxDisruptions
  BY DEF IInv, Typed
<1>3. disruptions' \in 0..MaxDisruptions
  BY <1>1, <1>2
<1>4. conn' = [r \in Servers |-> conn'[r]] /\ conn'[s] = req
      /\ \A r \in Servers \ {s} : conn'[r] = conn[r]
  <2> HIDE DEF req
  <2> QED BY <1>1, <1>2
<1>5. \A r \in Servers :
        \/ master'[r] = master[r] /\ conn'[r] = conn[r]
        \/ /\ master'[r] = master[r] /\ master[r] # None
           /\ conn'[r] = [Closed EXCEPT !.link = "wait", !.S = M(r), !.slost = lost[r]]
  <2>1. ASSUME NEW r \in Servers, r # s PROVE master'[r] = master[r] /\ conn'[r] = conn[r]
    BY <1>1, <1>4, <2>1
  <2>2. master'[s] = master[s] /\ master[s] # None /\ conn'[s] = req
    BY <1>1, <1>4
  <2> QED BY <2>1, <2>2
<1>6. \A r \in Servers : log'[r] \in {log[r], << >>}
  BY <1>1
<1> HIDE DEF req
<1> QED BY <1>1, <1>2, <1>3, <1>4, <1>5, <1>6, SetsStay, CursorStays

\* NoMasterLink and ReadEof.
LEMMA CloseStep ==
  ASSUME IInv, NEW s \in Servers, NoMasterLink(s) \/ ReadEof(s)
  PROVE  IInv'
<1>1. /\ conn' = [conn EXCEPT ![s] = Closed] /\ master' = master
      /\ UNCHANGED <<sets, history>> /\ log' = log /\ disruptions' = disruptions
  BY DEF NoMasterLink, ReadEof
<1>2. /\ master \in [Servers -> Servers \cup {None}] /\ log \in [Servers -> Seq(Gtids)]
      /\ conn = [r \in Servers |-> conn[r]] /\ disruptions \in 0..MaxDisruptions
  BY DEF IInv, Typed
<1>3. conn' = [r \in Servers |-> conn'[r]]
  BY <1>1, <1>2
<1>4. \A r \in Servers : master[r] # r
  BY StateIs
<1>5. \A r \in Servers : \/ master'[r] = master[r] /\ conn'[r] = conn[r]
                         \/ master'[r] # r /\ conn'[r] = Closed
  BY <1>1, <1>2, <1>4
<1>6. disruptions' \in 0..MaxDisruptions /\ \A r \in Servers : log'[r] \in {log[r], << >>}
  BY <1>1, <1>2
<1> QED BY <1>1, <1>2, <1>3, <1>5, <1>6, SetsStay, CursorStays

\* Nothing happens.
LEMMA StutterStep ==
  ASSUME IInv, UNCHANGED vars
  PROVE  IInv'
<1>1. /\ conn' = conn /\ master' = master
      /\ UNCHANGED <<sets, history>> /\ log' = log /\ disruptions' = disruptions
  BY DEF vars
<1>2. /\ master \in [Servers -> Servers \cup {None}] /\ log \in [Servers -> Seq(Gtids)]
      /\ conn = [r \in Servers |-> conn[r]] /\ disruptions \in 0..MaxDisruptions
  BY DEF IInv, Typed
<1>3. conn' = [r \in Servers |-> conn'[r]]
  BY <1>1, <1>2
<1> QED BY <1>1, <1>2, <1>3, SetsStay, CursorStays

\* Servers whose sets stay and whose connection stays, or whose connection is
\* closed by the master, while the sets of one master change.
LEMMA OtherLinked ==
  ASSUME IInv, NEW s \in Servers, NEW r \in Servers, r # s,
         NEW c, c = conn[r] \/ (c = Kicked(conn[r]) /\ conn[r].link # "down"),
         c.attached => r \notin Slaves(s),
         NEW ex, NEW lo, \A t \in Servers \ {s} : ex[t] = executed[t] /\ lo[t] = lost[t]
  PROVE  /\ Linked(c, executed[r], lost[r], ex[master[r]], lo[master[r]], returned, written)
         /\ c.link = conn[r].link
<1> DEFINE e == executed[r]
           l == lost[r]
           me == executed[master[r]]
           ml == lost[master[r]]
           me2 == ex[master[r]]
           ml2 == lo[master[r]]
           d == conn[r]
<1>1. Linked(d, e, l, me, ml, returned, written)
  BY StateIs
<1>2. CASE c = d
  <2>1. d.attached => me2 = me /\ ml2 = ml
    BY <1>2, SlavesAre
  <2> HIDE DEF e, l, me, ml, me2, ml2, d
  <2>2. Linked(d, e, l, me2, ml2, returned, written)
    BY <1>1, <2>1, LinkedStays
  <2> QED BY <1>2, <2>2 DEF e, l, me2, ml2, d
<1>3. CASE c = Kicked(d) /\ d.link # "down"
  <2> HIDE DEF e, l, me, ml, me2, ml2, d
  <2>1. Linked(Kicked(d), e, l, me2, ml2, returned, written) /\ Kicked(d).link = d.link
    BY <1>1, <1>3, LinkedKicked
  <2> QED BY <1>3, <2>1 DEF e, l, me2, ml2, d
<1> QED BY <1>2, <1>3

\* A server whose sets stay, once more gtids are written or have returned.
LEMMA OwnMore ==
  ASSUME IInv, NEW r \in Servers, NEW R, NEW W, returned \subseteq R, written \subseteq W
  PROVE  /\ CursorOK(r, executed[r], lost[r], curnext[r], R)
         /\ LogOK(log[r], executed[r], lost[r], R, W)
         /\ Linked(conn[r], executed[r], lost[r], executed[master[r]], lost[master[r]], R, W)
<1> DEFINE e == executed[r]
           l == lost[r]
           n == curnext[r]
           g == log[r]
           me == executed[master[r]]
           ml == lost[master[r]]
           d == conn[r]
<1>1. /\ CursorOK(r, e, l, n, returned) /\ LogOK(g, e, l, returned, written)
      /\ Linked(d, e, l, me, ml, returned, written) /\ e \in SUBSET Gtids
  BY StateIs
<1>2. d.attached => me \in SUBSET Gtids
  <2>1. d.attached => master[r] \in Servers
    BY StateIs
  <2> QED BY <2>1, StateIs
<1> HIDE DEF e, l, n, g, me, ml, d
<1>3. CursorOK(r, e, l, n, R)
  BY <1>1 DEF CursorOK, PastExecuted
<1>4. LogOK(g, e, l, R, W)
  BY <1>1, LogMore
<1>5. Linked(d, e, l, me, ml, R, W)
  BY <1>1, <1>2, LinkedMore
<1> QED BY <1>3, <1>4, <1>5 DEF e, l, n, g, me, ml, d

\* A replica of s among its own is sent the command s has executed, or ignored.
LEMMA SlaveFed ==
  ASSUME IInv, NEW s \in Servers, NEW r \in Slaves(s), NEW R, NEW W,
         returned \subseteq R, written \subseteq W,
         NEW x \in Gtids, x \in W, NEW e2,
         \/ e2 = executed[s] \cup {x} /\ x \notin M(s)
         \/ e2 = executed[s] /\ x \in R /\ x \in M(s)
  PROVE  /\ Linked(Fed(conn[r], x), executed[r], lost[r], e2, lost[s], R, W)
         /\ Fed(conn[r], x).link = conn[r].link
<1> DEFINE e == executed[r]
           l == lost[r]
           me == executed[s]
           ml == lost[s]
           d == conn[r]
<1>1. r \in Servers /\ master[r] = s /\ d.attached
  BY SlavesAre
<1>2. /\ Linked(d, e, l, me, ml, R, W) /\ M(s) = me \cup ml
      /\ e \in SUBSET Gtids /\ l \in SUBSET Gtids /\ me \in SUBSET Gtids /\ ml \in SUBSET Gtids
  BY <1>1, StateIs, OwnMore
<1> HIDE DEF e, l, me, ml, d
<1>3. \/ e2 = me \cup {x} /\ x \notin me \cup ml
      \/ e2 = me /\ x \in R /\ x \in me \cup ml
  BY <1>2 DEF me
<1>4. Linked(Fed(d, x), e, l, e2, ml, R, W) /\ Fed(d, x).link = d.link
  BY <1>1, <1>2, <1>3, LinkedFed
<1> QED BY <1>4 DEF e, l, me, ml, d

\* A restart from an RDB with both sets closes the connection to the master and
\* to the replicas, and may set the cursor.
LEMMA RestartKeeps ==
  ASSUME IInv, NEW s \in Servers, Restart(s),
         ResetSets(s, {}, executed[s], lost[s]), forgotten' = forgotten
  PROVE  IInv'
<1> DEFINE c == UpdateNextGno(s, executed[s], lost[s], UpdateNextGno(s, executed[s], {}, 0))
<1>1. /\ log' = [log EXCEPT ![s] = << >>] /\ master' = master
      /\ conn' = [r \in Servers |-> IF r \in {s} \cup Slaves(s) THEN Closed ELSE conn[r]]
      /\ written' = written /\ reused' = reused /\ returned' = returned /\ Disruption
      /\ executed' = [executed EXCEPT ![s] = executed[s]]
      /\ lost' = [lost EXCEPT ![s] = lost[s]]
      /\ curnext' = [curnext EXCEPT ![s] = c]
  BY DEF Restart, ResetSets
<1>2. CursorOK(s, executed[s], lost[s], c, returned)
  BY ResetCursor
<1> HIDE DEF c
<1>3. /\ executed \in [Servers -> SUBSET Gtids] /\ lost \in [Servers -> SUBSET Gtids]
      /\ curnext \in [Servers -> 0..(MaxGno + 1)]
      /\ master \in [Servers -> Servers \cup {None}] /\ log \in [Servers -> Seq(Gtids)]
  BY DEF IInv, Typed
<1>4. executed' = executed /\ lost' = lost
  BY <1>1, <1>3
<1>5. curnext' \in [Servers -> 0..(MaxGno + 1)]
  <2>1. c \in 0..(MaxGno + 1)
    BY <1>2 DEF CursorOK
  <2> QED BY <1>1, <1>3, <2>1
<1>6. ASSUME NEW r \in Servers
      PROVE  CursorOK(r, executed[r], lost[r], curnext'[r], returned)
  <2>1. CASE r = s
    BY <1>1, <1>2, <1>3, <2>1
  <2>2. CASE r # s
    <3>1. curnext'[r] = curnext[r]
      BY <1>1, <1>3, <2>2
    <3> QED BY <3>1, StateIs
  <2> QED BY <2>1, <2>2
<1>7. disruptions' \in 0..MaxDisruptions
  BY <1>1, DisruptionIs
<1>8. conn' = [r \in Servers |-> conn'[r]]
  BY <1>1
<1>9. log' \in [Servers -> Seq(Gtids)] /\ \A r \in Servers : log'[r] \in {log[r], << >>}
  BY <1>1, <1>3
<1>10. \A r \in Servers : master[r] # r
  BY StateIs
<1>11. \A r \in Servers : \/ master'[r] = master[r] /\ conn'[r] = conn[r]
                          \/ master'[r] # r /\ conn'[r] = Closed
  BY <1>1, <1>10
<1>12. UNCHANGED history
  BY <1>1 DEF history
<1> QED BY <1>1, <1>3, <1>4, <1>5, <1>6, <1>7, <1>8, <1>9, <1>11, <1>12, SetsStay

\* A restart from an RDB without gtid fields empties the sets, too.
LEMMA RestartForgets ==
  ASSUME IInv, NEW s \in Servers, Restart(s), master[s] = None,
         ResetSets(s, {}, {}, {}), Forgets(s, {})
  PROVE  IInv'
<1> DEFINE c == UpdateNextGno(s, {}, {}, UpdateNextGno(s, {}, {}, 0))
<1>1. /\ log' = [log EXCEPT ![s] = << >>] /\ master' = master
      /\ conn' = [r \in Servers |-> IF r \in {s} \cup Slaves(s) THEN Closed ELSE conn[r]]
      /\ written' = written /\ reused' = reused /\ returned' = returned /\ Disruption
      /\ executed' = [executed EXCEPT ![s] = {}] /\ lost' = [lost EXCEPT ![s] = {}]
      /\ curnext' = [curnext EXCEPT ![s] = c]
      /\ forgotten' = forgotten \cup {x \in M(s) : x[1] = s}
  BY DEF Restart, ResetSets, Forgets
<1>2. CursorOK(s, {}, {}, c, returned)
  BY ResetCursor
<1> HIDE DEF c
<1>3. /\ executed \in [Servers -> SUBSET Gtids] /\ lost \in [Servers -> SUBSET Gtids]
      /\ curnext \in [Servers -> 0..(MaxGno + 1)]
      /\ log \in [Servers -> Seq(Gtids)] /\ master \in [Servers -> Servers \cup {None}]
      /\ written \subseteq Gtids /\ reused \subseteq Gtids /\ forgotten \subseteq Gtids
      /\ returned \subseteq Gtids
  BY DEF IInv, Typed
<1>4. /\ executed'[s] = {} /\ lost'[s] = {} /\ log'[s] = << >> /\ curnext'[s] = c
      /\ \A t \in Servers \ {s} : /\ executed'[t] = executed[t] /\ lost'[t] = lost[t]
                                  /\ log'[t] = log[t] /\ curnext'[t] = curnext[t]
  BY <1>1, <1>3
<1>5. Typed'
  <2>1. executed' \in [Servers -> SUBSET Gtids] /\ lost' \in [Servers -> SUBSET Gtids]
    BY <1>1, <1>3
  <2>2. log' \in [Servers -> Seq(Gtids)] /\ conn' = [r \in Servers |-> conn'[r]]
    BY <1>1, <1>3
  <2>3. forgotten' \subseteq Gtids
    <3>1. M(s) \in SUBSET Gtids
      BY StateIs
    <3> QED BY <1>1, <1>3, <3>1
  <2>4. curnext' \in [Servers -> 0..(MaxGno + 1)]
    <3>1. c \in 0..(MaxGno + 1)
      BY <1>2 DEF CursorOK
    <3> QED BY <1>1, <1>3, <3>1
  <2>5. disruptions' \in 0..MaxDisruptions
    BY <1>1, DisruptionIs
  <2> QED BY <1>1, <1>3, <2>1, <2>2, <2>3, <2>4, <2>5 DEF Typed
<1>6. ASSUME NEW r \in Servers PROVE ServerOK(r)'
  <2>1. /\ executed'[r] \cap lost'[r] = {}
        /\ CursorOK(r, executed'[r], lost'[r], curnext'[r], returned')
        /\ LogOK(log'[r], executed'[r], lost'[r], returned', written')
    <3>1. CASE r = s
      <4>1. CursorOK(s, {}, {}, curnext'[s], returned')
        BY <1>1, <1>2, <1>4
      <4>2. LogOK(log'[s], {}, {}, returned', written')
        BY <1>4, LogEmpty
      <4> QED BY <1>4, <3>1, <4>1, <4>2
    <3>2. CASE r # s
      BY <1>1, <1>4, <3>2, OwnStays
    <3> QED BY <3>1, <3>2
  <2>2. CASE r = s \/ r \in Slaves(s)
    <3>1. conn'[r] = Closed
      BY <1>1, <2>2
    <3>2. Linked(conn'[r], executed'[r], lost'[r], executed'[master[r]], lost'[master[r]],
                 returned', written')
      BY <3>1, LinkedClosed
    <3>3. conn'[r].link = "down"
      BY <3>1, ClosedIs
    <3> QED BY <1>1, <2>1, <3>2, <3>3, NextServerOK
  <2>3. CASE r # s /\ r \notin Slaves(s)
    <3>1. conn'[r] = conn[r]
      BY <1>1, <2>3
    <3>2. \A t \in Servers \ {s} : executed'[t] = executed[t] /\ lost'[t] = lost[t]
      BY <1>4
    <3>3. Linked(conn[r], executed[r], lost[r], executed'[master[r]], lost'[master[r]],
                 returned, written)
      BY <2>3, <3>2, OtherLinked
    <3>4. Linked(conn'[r], executed'[r], lost'[r], executed'[master[r]], lost'[master[r]],
                 returned', written')
      BY <1>1, <1>4, <2>3, <3>1, <3>3
    <3> QED BY <1>1, <2>1, <3>1, <3>4, NextServerOK
  <2> QED BY <2>2, <2>3
<1>7. WritesKnown'
  <2>1. ASSUME NEW y \in written PROVE y \in M(y[1])' \/ y \in forgotten'
    <3>1. (y \in M(y[1]) \/ y \in forgotten) /\ y[1] \in Servers
      BY <1>3 DEF IInv, WritesKnown, Gtids
    <3>2. CASE y[1] = s
      BY <1>1, <3>1, <3>2
    <3>3. CASE y[1] # s
      BY <1>1, <1>4, <3>1, <3>3 DEF M
    <3> QED BY <3>2, <3>3
  <2>2. returned' \subseteq forgotten' /\ reused' \subseteq forgotten'
    BY <1>1 DEF IInv, WritesKnown
  <2> QED BY <1>1, <2>1, <2>2 DEF WritesKnown
<1> QED BY <1>5, <1>6, <1>7 DEF IInv

\* Either restart.
LEMMA RestartStep ==
  ASSUME IInv, NEW s \in Servers, Restart(s)
  PROVE  IInv'
<1>1. CASE ResetSets(s, {}, executed[s], lost[s]) /\ forgotten' = forgotten
  BY <1>1, RestartKeeps
<1>2. CASE master[s] = None /\ ResetSets(s, {}, {}, {}) /\ Forgets(s, {})
  BY <1>2, RestartForgets
<1> QED BY <1>1, <1>2 DEF Restart

\* The servers other than s, whose command x went to its replicas: x is new to s,
\* or one of those that returned.
LEMMA FedOthers ==
  ASSUME IInv, NEW s \in Servers, NEW x \in Gtids, master' = master, lost' = lost,
         \A t \in Servers \ {s} : /\ executed'[t] = executed[t] /\ log'[t] = log[t]
                                  /\ curnext'[t] = curnext[t],
         returned \subseteq returned', written \subseteq written', x \in written',
         \/ executed'[s] = executed[s] \cup {x} /\ x \notin M(s)
         \/ executed'[s] = executed[s] /\ x \in returned' /\ x \in M(s),
         NEW r \in Servers \ {s},
         conn'[r] = IF r \in Slaves(s) THEN Fed(conn[r], x) ELSE conn[r]
  PROVE  ServerOK(r)'
<1>1. /\ executed'[r] = executed[r] /\ lost'[r] = lost[r] /\ log'[r] = log[r]
      /\ curnext'[r] = curnext[r]
  OBVIOUS
<1>2. /\ CursorOK(r, executed[r], lost[r], curnext[r], returned')
      /\ LogOK(log[r], executed[r], lost[r], returned', written')
      /\ Linked(conn[r], executed[r], lost[r], executed[master[r]], lost[master[r]],
                returned', written')
  BY OwnMore
<1>3. executed[r] \cap lost[r] = {}
  BY StateIs
<1>4. /\ executed'[r] \cap lost'[r] = {}
      /\ CursorOK(r, executed'[r], lost'[r], curnext'[r], returned')
      /\ LogOK(log'[r], executed'[r], lost'[r], returned', written')
  BY <1>1, <1>2, <1>3
<1>5. CASE r \in Slaves(s)
  <2> DEFINE e2 == executed'[s]
             R == returned'
             W == written'
             d == Fed(conn[r], x)
  <2>1. conn'[r] = d /\ master[r] = s
    BY <1>5, SlavesAre
  <2>2. \/ e2 = executed[s] \cup {x} /\ x \notin M(s)
        \/ e2 = executed[s] /\ x \in R /\ x \in M(s)
    OBVIOUS
  <2>3. returned \subseteq R /\ written \subseteq W /\ x \in W
    OBVIOUS
  <2> HIDE DEF e2, R, W
  <2>4. Linked(d, executed[r], lost[r], e2, lost[s], R, W) /\ d.link = conn[r].link
    BY <1>5, <2>2, <2>3, SlaveFed, ZenonT(60)
  <2> HIDE DEF d
  <2>5. Linked(conn'[r], executed'[r], lost'[r], executed'[master[r]], lost'[master[r]],
               returned', written')
    <3>1. executed'[master[r]] = e2 /\ lost'[master[r]] = lost[s]
      BY <2>1 DEF e2
    <3> QED BY <1>1, <2>1, <2>4, <3>1 DEF R, W
  <2>6. conn'[r].link # "down" => conn[r].link # "down"
    BY <2>1, <2>4
  <2> QED BY <1>4, <2>5, <2>6, NextServerOK
<1>6. CASE r \notin Slaves(s)
  <2> DEFINE R == returned'
             W == written'
             e == executed[r]
             l == lost[r]
             me == executed[master[r]]
             ml == lost[master[r]]
             me2 == executed'[master[r]]
             c == conn[r]
  <2>1. conn'[r] = c
    BY <1>6
  <2>2. c.attached => me2 = me
    BY <1>6, SlavesAre
  <2>3. Linked(c, e, l, me, ml, R, W)
    BY <1>2
  <2> HIDE DEF e, l, me, ml, me2, R, W, c
  <2>4. Linked(c, e, l, me2, ml, R, W)
    BY <2>2, <2>3, LinkedStays
  <2>5. Linked(conn'[r], executed'[r], lost'[r], executed'[master[r]], lost'[master[r]],
               returned', written')
    BY <1>1, <2>1, <2>4 DEF e, l, ml, me2, R, W
  <2> QED BY <1>4, <2>1, <2>5, NextServerOK DEF c
<1> QED BY <1>5, <1>6

\* The sets and the backlog of the server that has executed x, or ignored it.
LEMMA FedOwn ==
  ASSUME IInv, NEW s \in Servers, NEW x \in Gtids, NEW R, NEW W,
         returned \subseteq R, written \subseteq W, x \in W, NEW e2,
         \/ e2 = executed[s] \cup {x} /\ x \notin M(s)
         \/ e2 = executed[s] /\ x \in R /\ x \in M(s)
  PROVE  /\ e2 \cap lost[s] = {} /\ e2 \in SUBSET Gtids
         /\ LogOK(Push(log[s], x), e2, lost[s], R, W) /\ Push(log[s], x) \in Seq(Gtids)
<1> DEFINE e == executed[s]
           l == lost[s]
           g == log[s]
<1>1. /\ e \in SUBSET Gtids /\ e \cap l = {} /\ M(s) = e \cup l
      /\ LogOK(g, e, l, R, W)
  BY StateIs, OwnMore
<1>2. \/ e2 = e \cup {x} /\ x \notin e \cup l
      \/ e2 = e /\ x \in R /\ x \in e \cup l
  BY <1>1
<1> HIDE DEF e, l, g
<1>3. e2 \cap l = {} /\ e2 \in SUBSET Gtids
  BY <1>1, <1>2
<1>4. LogOK(Push(g, x), e2, l, R, W)
  BY <1>1, <1>2, LogPush
<1>5. Push(g, x) \in Seq(Gtids)
  BY <1>4 DEF LogOK
<1> QED BY <1>3, <1>4, <1>5 DEF l, g

\* A write: every replica among the server's own is sent its gtid, which is new
\* to them all, or one that returned.
LEMMA WriteStep ==
  ASSUME IInv, NEW s \in Servers, Write(s)
  PROVE  IInv'
<1> DEFINE x == <<s, NextGno(s)>>
<1>1. /\ master[s] = None /\ x \in Gtids
      /\ executed' = [executed EXCEPT ![s] = @ \cup {x}]
      /\ curnext' = [curnext EXCEPT ![s] = 0]
      /\ log' = [log EXCEPT ![s] = Push(@, x)]
      /\ conn' = [t \in Servers |-> IF t \in Slaves(s) THEN Fed(conn[t], x) ELSE conn[t]]
      /\ written' = written \cup {x} /\ reused' = reused \cup ({x} \cap written)
      /\ lost' = lost /\ master' = master /\ disruptions' = disruptions
      /\ forgotten' = forgotten /\ returned' = returned
  BY DEF Write, Feed, Fed
<1>2. /\ x \notin lost[s] /\ (x \in executed[s] => x \in returned)
      /\ CursorOK(s, executed[s] \cup {x}, lost[s], 0, returned)
  <2> DEFINE n == NextGno(s)
             e == executed[s]
             l == lost[s]
             c == curnext[s]
  <2>1. n \in 1..MaxGno
    BY <1>1 DEF Gtids
  <2>2. n = gtidSetCurrentUuidSetNext(s, e, c)
    BY DEF NextGno
  <2>3. CursorOK(s, e, l, c, returned)
    BY StateIs
  <2> HIDE DEF n, e, l, c
  <2>4. <<s, n>> \notin l /\ (<<s, n>> \in e => <<s, n>> \in returned)
    BY <2>1, <2>2, <2>3, NextIsFresh
  <2>5. CursorOK(s, e \cup {<<s, n>>}, l, 0, returned)
    BY <2>1, <2>2, <2>3, WriteCursor
  <2> QED BY <2>4, <2>5 DEF n, e, l
<1>3. x[1] = s
  OBVIOUS
<1> HIDE DEF x
<1>4. /\ executed \in [Servers -> SUBSET Gtids] /\ lost \in [Servers -> SUBSET Gtids]
      /\ curnext \in [Servers -> 0..(MaxGno + 1)] /\ log \in [Servers -> Seq(Gtids)]
      /\ master \in [Servers -> Servers \cup {None}]
      /\ written \subseteq Gtids /\ reused \subseteq Gtids /\ forgotten \subseteq Gtids
      /\ returned \subseteq Gtids /\ disruptions \in 0..MaxDisruptions
  BY DEF IInv, Typed
<1>5. /\ executed'[s] = executed[s] \cup {x} /\ log'[s] = Push(log[s], x) /\ curnext'[s] = 0
      /\ \A t \in Servers \ {s} : /\ executed'[t] = executed[t] /\ log'[t] = log[t]
                                  /\ curnext'[t] = curnext[t]
  BY <1>1, <1>4
<1>6. \/ executed'[s] = executed[s] \cup {x} /\ x \notin M(s)
      \/ executed'[s] = executed[s] /\ x \in returned' /\ x \in M(s)
  <2>1. M(s) = executed[s] \cup lost[s]
    BY StateIs
  <2>2. x \in executed[s] => executed[s] \cup {x} = executed[s]
    OBVIOUS
  <2> QED BY <1>1, <1>2, <1>5, <2>1, <2>2
<1>7. returned \subseteq returned' /\ written \subseteq written' /\ x \in written'
  BY <1>1
<1>8. /\ executed'[s] \cap lost[s] = {} /\ executed'[s] \in SUBSET Gtids
      /\ LogOK(log'[s], executed'[s], lost[s], returned', written')
      /\ log'[s] \in Seq(Gtids)
  <2> DEFINE e2 == executed'[s]
             R == returned'
             W == written'
  <2> HIDE DEF e2, R, W
  <2>1. \/ e2 = executed[s] \cup {x} /\ x \notin M(s)
        \/ e2 = executed[s] /\ x \in R /\ x \in M(s)
    BY <1>6 DEF e2, R
  <2>2. returned \subseteq R /\ written \subseteq W /\ x \in W
    BY <1>7 DEF R, W
  <2>3. /\ e2 \cap lost[s] = {} /\ e2 \in SUBSET Gtids
        /\ LogOK(Push(log[s], x), e2, lost[s], R, W) /\ Push(log[s], x) \in Seq(Gtids)
    BY <1>1, <2>1, <2>2, FedOwn
  <2> QED BY <1>5, <2>3 DEF e2, R, W
<1>9. Typed'
  <2>1. executed' \in [Servers -> SUBSET Gtids]
    BY <1>1, <1>4
  <2>2. log' \in [Servers -> Seq(Gtids)]
    BY <1>1, <1>4, <1>5, <1>8
  <2>3. conn' = [r \in Servers |-> conn'[r]]
    BY <1>1
  <2>4. curnext' \in [Servers -> 0..(MaxGno + 1)]
    <3>1. 0 \in 0..(MaxGno + 1)
      BY ConstantsAssumption
    <3> QED BY <1>1, <1>4, <3>1
  <2> QED BY <1>1, <1>4, <2>1, <2>2, <2>3, <2>4 DEF Typed
<1>10. ASSUME NEW r \in Servers PROVE ServerOK(r)'
  <2>1. CASE r = s
    <3>1. conn'[s] = Closed
      <4>1. conn'[s] = conn[s]
        BY <1>1, SlavesAre
      <4>2. conn[s].link = "down"
        BY <1>1, StateIs, ConstantsAssumption
      <4> QED BY <4>1, <4>2, StateIs
    <3>2. Linked(conn'[r], executed'[r], lost'[r], executed'[master[r]], lost'[master[r]],
                 returned', written')
      BY <2>1, <3>1, LinkedClosed
    <3>3. conn'[r].link = "down"
      BY <2>1, <3>1, ClosedIs
    <3>4. /\ executed'[r] \cap lost'[r] = {}
          /\ CursorOK(r, executed'[r], lost'[r], curnext'[r], returned')
          /\ LogOK(log'[r], executed'[r], lost'[r], returned', written')
      BY <1>1, <1>2, <1>5, <1>8, <2>1
    <3> QED BY <1>1, <3>2, <3>3, <3>4, NextServerOK
  <2>2. CASE r # s
    <3>1. conn'[r] = IF r \in Slaves(s) THEN Fed(conn[r], x) ELSE conn[r]
      BY <1>1
    <3> QED BY <1>1, <1>5, <1>6, <1>7, <2>2, <3>1, FedOthers
  <2> QED BY <2>1, <2>2
<1>11. WritesKnown'
  <2>1. ASSUME NEW y \in written' PROVE y \in M(y[1])' \/ y \in forgotten'
    <3>1. CASE y = x
      BY <1>3, <1>5, <3>1 DEF M
    <3>2. CASE y \in written
      <4>1. (y \in M(y[1]) \/ y \in forgotten) /\ y[1] \in Servers
        BY <1>4, <3>2 DEF IInv, WritesKnown, Gtids
      <4>2. executed[y[1]] \subseteq executed'[y[1]]
        BY <1>5, <4>1
      <4> QED BY <1>1, <4>1, <4>2 DEF M
    <3> QED BY <1>1, <3>1, <3>2
  <2>2. reused' \subseteq forgotten'
    <3>1. x \in written => x \in M(s) \/ x \in forgotten
      BY <1>3 DEF IInv, WritesKnown
    <3>2. x \in M(s) => x \in returned
      BY <1>2 DEF M
    <3>3. returned \subseteq forgotten /\ reused \subseteq forgotten
      BY DEF IInv, WritesKnown
    <3> QED BY <1>1, <3>1, <3>2, <3>3
  <2>3. returned' \subseteq forgotten'
    BY <1>1 DEF IInv, WritesKnown
  <2> QED BY <2>1, <2>2, <2>3 DEF WritesKnown
<1> QED BY <1>9, <1>10, <1>11 DEF IInv

\* The master no longer counts a connection it has closed among its own.
LEMMA KickedIs ==
  ASSUME NEW c \in Connection
  PROVE  Kicked(c).attached = FALSE
BY DEF Kicked, Connection

\* A server that reads has a master.
LEMMA ReaderIs ==
  ASSUME IInv, NEW s \in Servers, NEW type, Reads(s, type)
  PROVE  /\ First(conn[s], type) /\ conn[s].link # "down"
         /\ master[s] \in Servers \ {s}
BY StateIs DEF Reads, First

\* Reading changes one connection.
LEMMA ReadAt ==
  ASSUME NEW f, f = [r \in Servers |-> f[r]], NEW s \in Servers
  PROVE  /\ Read(f, s) = [r \in Servers |-> Read(f, s)[r]]
         /\ Read(f, s)[s] = ReadC(f[s])
         /\ \A r \in Servers \ {s} : Read(f, s)[r] = f[r]
BY DEF Read, ReadC

\* The connections after serverReplStreamUpdateXsync.
LEMMA UpdateAt ==
  ASSUME IInv, NEW m \in Servers, NEW updated \in BOOLEAN, NEW t
  PROVE  LET f == UpdateXsync(m, updated, t)
         IN  /\ f = [r \in Servers |-> f[r]]
             /\ ~updated => f = conn
             /\ updated =>
                  /\ f[m] = IF t = None THEN conn[m] ELSE Closed
                  /\ \A r \in Slaves(m) \ {t} : f[r] = Kicked(conn[r])
                  /\ \A r \in Servers \ {m} : r \notin Slaves(m) \/ r = t => f[r] = conn[r]
<1>1. conn = [r \in Servers |-> conn[r]]
  BY DEF IInv, Typed
<1>2. m \notin Slaves(m) /\ \A r \in Slaves(m) : r \in Servers /\ r # m
  BY SlavesAre
<1>3. CASE ~updated
  BY <1>1, <1>3 DEF UpdateXsync
<1>4. CASE updated
  <2> DEFINE f == UpdateXsync(m, updated, t)
  <2>1. f = [s \in Servers |-> IF s = m /\ t # None THEN Closed
                               ELSE IF s \in Slaves(m) \ {t} THEN Kicked(conn[s])
                               ELSE conn[s]]
    BY <1>4 DEF UpdateXsync
  <2> HIDE DEF f
  <2>2. f = [r \in Servers |-> f[r]]
    BY <2>1
  <2>3. f[m] = IF t = None THEN conn[m] ELSE Closed
    BY <1>2, <2>1
  <2>4. \A r \in Slaves(m) \ {t} : f[r] = Kicked(conn[r])
    BY <1>2, <2>1
  <2>5. \A r \in Servers \ {m} : r \notin Slaves(m) \/ r = t => f[r] = conn[r]
    BY <2>1
  <2> QED BY <1>4, <2>2, <2>3, <2>4, <2>5 DEF f
<1> QED BY <1>3, <1>4

\* The server m whose gtid.lost grows by delta: its sets, its cursor, its backlog.
LEMMA LostGrows ==
  ASSUME IInv, NEW m \in Servers, NEW delta \in SUBSET Gtids, delta \cap M(m) = {},
         serverGtidSetAddLost(m, delta)
  PROVE  /\ lost' \in [Servers -> SUBSET Gtids] /\ lost'[m] = lost[m] \cup delta
         /\ curnext' \in [Servers -> 0..(MaxGno + 1)]
         /\ \A t \in Servers \ {m} : lost'[t] = lost[t] /\ curnext'[t] = curnext[t]
         /\ executed[m] \cap lost'[m] = {}
         /\ CursorOK(m, executed[m], lost'[m], curnext'[m], returned)
         /\ LogOK(log[m], executed[m], lost'[m], returned, written)
         /\ delta = {} => lost' = lost
<1> DEFINE e == executed[m]
           l == lost[m]
           l2 == l \cup delta
           c == curnext[m]
           c2 == UpdateNextGno(m, e, l2, c)
           g == log[m]
<1>1. /\ lost' = [lost EXCEPT ![m] = l2] /\ curnext' = [curnext EXCEPT ![m] = c2]
  BY DEF serverGtidSetAddLost
<1>2. lost \in [Servers -> SUBSET Gtids] /\ curnext \in [Servers -> 0..(MaxGno + 1)]
  BY DEF IInv, Typed
<1>3. /\ e \in SUBSET Gtids /\ l \in SUBSET Gtids /\ M(m) = e \cup l /\ e \cap l = {}
      /\ CursorOK(m, e, l, c, returned) /\ LogOK(g, e, l, returned, written)
  BY StateIs
<1>4. l2 \in SUBSET Gtids /\ e \cap l2 = {} /\ l \subseteq l2
  BY <1>3
<1>5. delta = {} => l2 = l
  OBVIOUS
<1>6. CursorOK(m, e, l2, c2, returned)
  <2> HIDE DEF e, l, l2, c
  <2> QED BY <1>3, AddLostCursor
<1>7. LogOK(g, e, l2, returned, written)
  <2> HIDE DEF e, l, l2, g
  <2> QED BY <1>3, <1>4, LogMore
<1>8. c2 \in 0..(MaxGno + 1)
  BY <1>6 DEF CursorOK
<1> HIDE DEF l2, c2
<1>9. lost'[m] = l2 /\ curnext'[m] = c2
  BY <1>1, <1>2
<1>10. delta = {} => lost' = lost
  BY <1>1, <1>2, <1>5
<1>11. lost' \in [Servers -> SUBSET Gtids] /\ curnext' \in [Servers -> 0..(MaxGno + 1)]
  BY <1>1, <1>2, <1>4, <1>8
<1>12. \A t \in Servers \ {m} : lost'[t] = lost[t] /\ curnext'[t] = curnext[t]
  BY <1>1, <1>2
<1> QED BY <1>4, <1>6, <1>7, <1>9, <1>10, <1>11, <1>12 DEF l2

\* A write is known still when only gtid.lost has grown.
LEMMA KnownMore ==
  ASSUME IInv, \A t \in Servers : executed'[t] = executed[t] /\ lost[t] \subseteq lost'[t],
         UNCHANGED history
  PROVE  WritesKnown'
<1>1. /\ written' = written /\ reused' = reused /\ forgotten' = forgotten
      /\ returned' = returned /\ written \subseteq Gtids
  BY DEF history, IInv, Typed
<1>2. ASSUME NEW y \in written PROVE y \in M(y[1])' \/ y \in forgotten
  <2>1. (y \in M(y[1]) \/ y \in forgotten) /\ y[1] \in Servers
    BY <1>1 DEF IInv, WritesKnown, Gtids
  <2> QED BY <2>1 DEF M
<1>3. returned \subseteq forgotten /\ reused \subseteq forgotten
  BY DEF IInv, WritesKnown
<1> QED BY <1>1, <1>2, <1>3 DEF WritesKnown

\* XCONTINUE: gtid.lost may grow, and then the replicas of the replica go.
LEMMA ReadXcontinueStep ==
  ASSUME IInv, NEW s \in Servers, ReadXcontinue(s)
  PROVE  IInv'
<1> DEFINE slost == Head(conn[s].chan).cont \ M(s)
<1>1. PICK moved \in BOOLEAN :
      /\ Reads(s, "xcontinue")
      /\ serverGtidSetAddLost(s, slost)
      /\ conn' = Read(UpdateXsync(s, slost # {} \/ moved, None), s)
      /\ executed' = executed /\ log' = log /\ master' = master
      /\ disruptions' = disruptions
      /\ written' = written /\ reused' = reused /\ forgotten' = forgotten
      /\ returned' = returned
  BY DEF ReadXcontinue, history
<1> DEFINE upd == slost # {} \/ moved
           f == UpdateXsync(s, upd, None)
<1>2. /\ First(conn[s], "xcontinue") /\ conn[s].link # "down" /\ master[s] \in Servers \ {s}
  BY <1>1, ReaderIs
<1>3. /\ f = [r \in Servers |-> f[r]] /\ f[s] = conn[s]
      /\ ~upd => f = conn
      /\ upd => \A r \in Slaves(s) : f[r] = Kicked(conn[r])
      /\ \A r \in Servers \ {s} : r \notin Slaves(s) => f[r] = conn[r]
  <2>1. upd \in BOOLEAN
    OBVIOUS
  <2> HIDE DEF upd
  <2> QED BY <2>1, UpdateAt, SlavesAre
<1>4. /\ slost \in SUBSET Gtids /\ slost \cap M(s) = {}
      /\ Linked(ReadC(conn[s]), executed[s], lost[s] \cup slost,
                executed[master[s]], lost[master[s]], returned, written)
  <2> DEFINE c == conn[s]
             e == executed[s]
             l == lost[s]
             me == executed[master[s]]
             ml == lost[master[s]]
  <2>1. /\ e \in SUBSET Gtids /\ l \in SUBSET Gtids /\ M(s) = e \cup l
        /\ Linked(c, e, l, me, ml, returned, written)
    BY StateIs
  <2>2. slost = Head(c.chan).cont \ (e \cup l) /\ First(c, "xcontinue")
    BY <1>2, <2>1
  <2>3. slost \cap M(s) = {}
    OBVIOUS
  <2> HIDE DEF c, e, l, me, ml, slost
  <2>4. Linked(ReadC(c), e, l \cup slost, me, ml, returned, written) /\ slost \in SUBSET Gtids
    BY <2>1, <2>2, LinkedXcontinue
  <2> QED BY <2>3, <2>4 DEF c, e, l, me, ml
<1>5. slost # {} => upd
  OBVIOUS
<1>6. conn' = Read(f, s)
  BY <1>1
<1> HIDE DEF slost, upd, f
<1>7. /\ lost' \in [Servers -> SUBSET Gtids] /\ lost'[s] = lost[s] \cup slost
      /\ curnext' \in [Servers -> 0..(MaxGno + 1)]
      /\ \A t \in Servers \ {s} : lost'[t] = lost[t] /\ curnext'[t] = curnext[t]
      /\ executed[s] \cap lost'[s] = {}
      /\ CursorOK(s, executed[s], lost'[s], curnext'[s], returned)
      /\ LogOK(log[s], executed[s], lost'[s], returned, written)
      /\ slost = {} => lost' = lost
  BY <1>1, <1>4, LostGrows
<1>8. /\ conn' = [r \in Servers |-> conn'[r]] /\ conn'[s] = ReadC(conn[s])
      /\ \A r \in Servers \ {s} : conn'[r] = f[r]
  <2>1. /\ Read(f, s) = [r \in Servers |-> Read(f, s)[r]] /\ Read(f, s)[s] = ReadC(f[s])
        /\ \A r \in Servers \ {s} : Read(f, s)[r] = f[r]
    BY <1>3, ReadAt
  <2> QED BY <1>3, <1>6, <2>1
<1>9. Typed'
  BY <1>1, <1>7, <1>8 DEF IInv, Typed
<1>10. ASSUME NEW r \in Servers PROVE ServerOK(r)'
  <2>1. /\ executed'[r] \cap lost'[r] = {}
        /\ CursorOK(r, executed'[r], lost'[r], curnext'[r], returned')
        /\ LogOK(log'[r], executed'[r], lost'[r], returned', written')
    <3>1. CASE r = s
      BY <1>1, <1>7, <3>1
    <3>2. CASE r # s
      BY <1>1, <1>7, <3>2, OwnStays
    <3> QED BY <3>1, <3>2
  <2>2. CASE r = s
    <3>1. Linked(conn'[r], executed'[r], lost'[r], executed'[master[r]], lost'[master[r]],
                 returned', written')
      BY <1>1, <1>2, <1>4, <1>7, <1>8, <2>2
    <3> QED BY <1>1, <1>2, <2>1, <2>2, <3>1, NextServerOK
  <2>3. CASE r # s /\ ~upd
    <3>1. conn'[r] = conn[r] /\ lost' = lost
      BY <1>3, <1>5, <1>7, <1>8, <2>3
    <3>2. Linked(conn'[r], executed'[r], lost'[r], executed'[master[r]], lost'[master[r]],
                 returned', written')
      BY <1>1, <3>1, StateIs
    <3> QED BY <1>1, <2>1, <3>1, <3>2, NextServerOK
  <2>4. CASE r # s /\ upd
    <3> DEFINE c == conn'[r]
    <3>1. c = conn[r] \/ (c = Kicked(conn[r]) /\ conn[r].link # "down")
      BY <1>3, <1>8, <2>4, SlavesAre
    <3>2. c.attached => r \notin Slaves(s)
      <4>1. ASSUME r \in Slaves(s) PROVE ~c.attached
        <5>1. c = Kicked(conn[r])
          BY <1>3, <1>8, <2>4, <4>1
        <5>2. conn[r] \in Connection
          BY StateIs
        <5> HIDE DEF c
        <5> QED BY <5>1, <5>2, KickedIs
      <4> QED BY <4>1
    <3>3. \A t \in Servers \ {s} : executed'[t] = executed[t] /\ lost'[t] = lost[t]
      BY <1>1, <1>7
    <3>4. /\ Linked(c, executed[r], lost[r], executed'[master[r]], lost'[master[r]],
                    returned, written)
          /\ c.link = conn[r].link
      BY <2>4, <3>1, <3>2, <3>3, OtherLinked
    <3>5. Linked(conn'[r], executed'[r], lost'[r], executed'[master[r]], lost'[master[r]],
                 returned', written')
      BY <1>1, <2>4, <3>3, <3>4
    <3> QED BY <1>1, <2>1, <3>4, <3>5, NextServerOK
  <2> QED BY <2>2, <2>3, <2>4
<1>11. WritesKnown'
  <2>1. \A t \in Servers : executed'[t] = executed[t] /\ lost[t] \subseteq lost'[t]
    BY <1>1, <1>7
  <2> QED BY <1>1, <2>1, KnownMore DEF history
<1> QED BY <1>9, <1>10, <1>11 DEF IInv

\* XFULLRESYNC: both sets are the master's, and the replicas of the replica go.
LEMMA ReadXfullresyncStep ==
  ASSUME IInv, NEW s \in Servers, ReadXfullresync(s)
  PROVE  IInv'
<1> DEFINE full == Head(conn[s].chan)
           f == [r \in Servers |-> IF r \in Slaves(s) THEN Kicked(conn[r]) ELSE conn[r]]
           n == UpdateNextGno(s, full.executed, full.lost,
                              UpdateNextGno(s, full.executed, lost[s], 0))
<1>1. /\ Reads(s, "xfullresync")
      /\ executed' = [executed EXCEPT ![s] = full.executed]
      /\ lost' = [lost EXCEPT ![s] = full.lost]
      /\ curnext' = [curnext EXCEPT ![s] = n]
      /\ log' = [log EXCEPT ![s] = << >>]
      /\ conn' = Read(f, s)
      /\ forgotten' = forgotten \cup ({x \in M(s) : x[1] = s} \ (full.executed \cup full.lost))
      /\ master' = master /\ disruptions' = disruptions
      /\ written' = written /\ reused' = reused /\ returned' = returned
  BY DEF ReadXfullresync, ResetSets, Forgets
<1>2. /\ First(conn[s], "xfullresync") /\ conn[s].link # "down" /\ master[s] \in Servers \ {s}
  BY <1>1, ReaderIs
<1>3. /\ f = [r \in Servers |-> f[r]] /\ f[s] = conn[s]
      /\ \A r \in Slaves(s) : f[r] = Kicked(conn[r])
      /\ \A r \in Servers : r \notin Slaves(s) => f[r] = conn[r]
  BY SlavesAre
<1>4. /\ Linked(ReadC(conn[s]), full.executed, full.lost, executed[master[s]], lost[master[s]],
                returned, written)
      /\ full.executed \in SUBSET Gtids /\ full.lost \in SUBSET Gtids
      /\ full.executed \cap full.lost = {}
  <2> DEFINE c == conn[s]
             e == executed[s]
             l == lost[s]
             me == executed[master[s]]
             ml == lost[master[s]]
  <2>1. /\ e \in SUBSET Gtids /\ l \in SUBSET Gtids /\ Linked(c, e, l, me, ml, returned, written)
    BY StateIs
  <2>2. First(c, "xfullresync") /\ full = Head(c.chan)
    BY <1>2
  <2> HIDE DEF c, e, l, me, ml
  <2> QED BY <2>1, <2>2, LinkedXfullresync DEF c, me, ml
<1>5. CursorOK(s, full.executed, full.lost, n, returned)
  <2> HIDE DEF full
  <2> QED BY ResetCursor
<1> HIDE DEF full, f, n
<1>6. /\ executed \in [Servers -> SUBSET Gtids] /\ lost \in [Servers -> SUBSET Gtids]
      /\ curnext \in [Servers -> 0..(MaxGno + 1)] /\ log \in [Servers -> Seq(Gtids)]
      /\ master \in [Servers -> Servers \cup {None}]
      /\ written \subseteq Gtids /\ reused \subseteq Gtids /\ forgotten \subseteq Gtids
      /\ returned \subseteq Gtids /\ disruptions \in 0..MaxDisruptions
  BY DEF IInv, Typed
<1>7. /\ executed'[s] = full.executed /\ lost'[s] = full.lost /\ log'[s] = << >>
      /\ curnext'[s] = n
      /\ \A t \in Servers \ {s} : /\ executed'[t] = executed[t] /\ lost'[t] = lost[t]
                                  /\ log'[t] = log[t] /\ curnext'[t] = curnext[t]
  BY <1>1, <1>6
<1>8. /\ conn' = [r \in Servers |-> conn'[r]] /\ conn'[s] = ReadC(conn[s])
      /\ \A r \in Servers \ {s} : conn'[r] = f[r]
  <2>1. /\ Read(f, s) = [r \in Servers |-> Read(f, s)[r]] /\ Read(f, s)[s] = ReadC(f[s])
        /\ \A r \in Servers \ {s} : Read(f, s)[r] = f[r]
    BY <1>3, ReadAt
  <2> QED BY <1>1, <1>3, <2>1
<1>9. Typed'
  <2>1. executed' \in [Servers -> SUBSET Gtids] /\ lost' \in [Servers -> SUBSET Gtids]
    BY <1>1, <1>4, <1>6
  <2>2. log' \in [Servers -> Seq(Gtids)]
    BY <1>1, <1>6
  <2>3. forgotten' \subseteq Gtids
    <3>1. M(s) \in SUBSET Gtids
      BY StateIs
    <3> QED BY <1>1, <1>6, <3>1
  <2>4. curnext' \in [Servers -> 0..(MaxGno + 1)]
    <3>1. n \in 0..(MaxGno + 1)
      BY <1>5 DEF CursorOK
    <3> QED BY <1>1, <1>6, <3>1
  <2> QED BY <1>1, <1>6, <1>8, <2>1, <2>2, <2>3, <2>4 DEF Typed
<1>10. ASSUME NEW r \in Servers PROVE ServerOK(r)'
  <2>1. /\ executed'[r] \cap lost'[r] = {}
        /\ CursorOK(r, executed'[r], lost'[r], curnext'[r], returned')
        /\ LogOK(log'[r], executed'[r], lost'[r], returned', written')
    <3>1. CASE r = s
      <4>1. CursorOK(s, executed'[s], lost'[s], curnext'[s], returned')
        BY <1>1, <1>5, <1>7
      <4>2. LogOK(<< >>, executed'[s], lost'[s], returned', written')
        BY LogEmpty
      <4>3. executed'[s] \cap lost'[s] = {}
        BY <1>4, <1>7
      <4> QED BY <1>7, <3>1, <4>1, <4>2, <4>3
    <3>2. CASE r # s
      BY <1>1, <1>7, <3>2, OwnStays
    <3> QED BY <3>1, <3>2
  <2>2. CASE r = s
    <3>1. Linked(conn'[r], executed'[r], lost'[r], executed'[master[r]], lost'[master[r]],
                 returned', written')
      BY <1>1, <1>2, <1>4, <1>7, <1>8, <2>2
    <3> QED BY <1>1, <1>2, <2>1, <2>2, <3>1, NextServerOK
  <2>3. CASE r # s
    <3> DEFINE c == conn'[r]
    <3>1. c = conn[r] \/ (c = Kicked(conn[r]) /\ conn[r].link # "down")
      BY <1>3, <1>8, <2>3, SlavesAre
    <3>2. c.attached => r \notin Slaves(s)
      <4>1. ASSUME r \in Slaves(s) PROVE ~c.attached
        <5>1. c = Kicked(conn[r])
          BY <1>3, <1>8, <2>3, <4>1
        <5>2. conn[r] \in Connection
          BY StateIs
        <5> HIDE DEF c
        <5> QED BY <5>1, <5>2, KickedIs
      <4> QED BY <4>1
    <3>3. \A t \in Servers \ {s} : executed'[t] = executed[t] /\ lost'[t] = lost[t]
      BY <1>7
    <3>4. /\ Linked(c, executed[r], lost[r], executed'[master[r]], lost'[master[r]],
                    returned, written)
          /\ c.link = conn[r].link
      BY <2>3, <3>1, <3>2, <3>3, OtherLinked
    <3>5. Linked(conn'[r], executed'[r], lost'[r], executed'[master[r]], lost'[master[r]],
                 returned', written')
      BY <1>1, <2>3, <3>3, <3>4
    <3> QED BY <1>1, <2>1, <3>4, <3>5, NextServerOK
  <2> QED BY <2>2, <2>3
<1>11. WritesKnown'
  <2>1. ASSUME NEW y \in written PROVE y \in M(y[1])' \/ y \in forgotten'
    <3>1. (y \in M(y[1]) \/ y \in forgotten) /\ y[1] \in Servers
      BY <1>6 DEF IInv, WritesKnown, Gtids
    <3>2. CASE y[1] = s
      <4>1. y \in M(s)' \/ y \notin full.executed \cup full.lost
        BY <1>7 DEF M
      <4> QED BY <1>1, <3>1, <3>2, <4>1
    <3>3. CASE y[1] # s
      BY <1>1, <1>7, <3>1, <3>3 DEF M
    <3> QED BY <3>2, <3>3
  <2>2. returned' \subseteq forgotten' /\ reused' \subseteq forgotten'
    BY <1>1 DEF IInv, WritesKnown
  <2> QED BY <1>1, <2>1, <2>2 DEF WritesKnown
<1> QED BY <1>9, <1>10, <1>11 DEF IInv

\* A command goes on to the replicas of the replica, also when it is ignored.
LEMMA ReadCommandStep ==
  ASSUME IInv, NEW s \in Servers, ReadCommand(s)
  PROVE  IInv'
<1> DEFINE x == Head(conn[s].chan).gtid
           f == Read(conn, s)
           e2 == IF x \in M(s) THEN executed[s] ELSE executed[s] \cup {x}
           comesBack == x[1] = s /\ x \notin M(s) /\ curnext[s] \in 1..x[2]
<1>1. /\ Reads(s, "cmd")
      /\ executed' = [executed EXCEPT ![s] = e2]
      /\ log' = [log EXCEPT ![s] = Push(@, x)]
      /\ conn' = [t \in Servers |-> IF t \in Slaves(s) THEN Fed(f[t], x) ELSE f[t]]
      /\ returned' = IF comesBack THEN returned \cup {x} ELSE returned
      /\ lost' = lost /\ curnext' = curnext /\ master' = master /\ disruptions' = disruptions
      /\ written' = written /\ reused' = reused /\ forgotten' = forgotten
  BY DEF ReadCommand, Feed, Fed
<1>2. /\ First(conn[s], "cmd") /\ conn[s].link # "down" /\ master[s] \in Servers \ {s}
  BY <1>1, ReaderIs
<1>3. f[s] = ReadC(conn[s]) /\ \A r \in Servers \ {s} : f[r] = conn[r]
  <2>1. conn = [r \in Servers |-> conn[r]]
    BY DEF IInv, Typed
  <2> QED BY <2>1, ReadAt
<1>4. /\ Linked(ReadC(conn[s]), e2, lost[s], executed[master[s]], lost[master[s]],
                returned, written)
      /\ x \in Gtids /\ x \in written /\ (x \in M(s) => x \in returned)
      /\ executed[master[s]] \in SUBSET Gtids
  <2> DEFINE c == conn[s]
             e == executed[s]
             l == lost[s]
             me == executed[master[s]]
             ml == lost[master[s]]
  <2>1. /\ e \in SUBSET Gtids /\ l \in SUBSET Gtids /\ M(s) = e \cup l
        /\ me \in SUBSET Gtids
        /\ Linked(c, e, l, me, ml, returned, written)
    BY <1>2, StateIs
  <2>2. Gets(c, e, l, x, e2)
    BY <1>2, <2>1 DEF Gets
  <2> HIDE DEF c, e, l, me, ml, x, e2
  <2>3. /\ Linked(ReadC(c), e2, l, me, ml, returned, written)
        /\ x \in Gtids /\ x \in written /\ (x \in e \cup l => x \in returned)
    BY <2>1, <2>2, LinkedCommand
  <2> QED BY <2>1, <2>3 DEF c, e, l, me, ml
<1>5. \/ e2 = executed[s] \cup {x} /\ x \notin M(s)
      \/ e2 = executed[s] /\ x \in returned' /\ x \in M(s)
  BY <1>1, <1>4
<1>6. /\ returned \subseteq returned' /\ written \subseteq written' /\ x \in written'
      /\ (x \in M(s) => returned' = returned)
      /\ (x[1] = s /\ x \notin M(s) /\ curnext[s] \in 1..x[2] => x \in returned')
      /\ (returned' = returned \/ (returned' = returned \cup {x} /\ x[1] = s /\ x \notin M(s)))
  BY <1>1, <1>4
<1> HIDE DEF x, f, e2, comesBack
<1>7. /\ executed \in [Servers -> SUBSET Gtids] /\ lost \in [Servers -> SUBSET Gtids]
      /\ curnext \in [Servers -> 0..(MaxGno + 1)] /\ log \in [Servers -> Seq(Gtids)]
      /\ master \in [Servers -> Servers \cup {None}]
      /\ written \subseteq Gtids /\ reused \subseteq Gtids /\ forgotten \subseteq Gtids
      /\ returned \subseteq Gtids /\ disruptions \in 0..MaxDisruptions
  BY DEF IInv, Typed
<1>8. /\ executed'[s] = e2 /\ log'[s] = Push(log[s], x)
      /\ \A t \in Servers \ {s} : /\ executed'[t] = executed[t] /\ log'[t] = log[t]
                                  /\ curnext'[t] = curnext[t]
  BY <1>1, <1>7
<1>9. /\ e2 \cap lost[s] = {} /\ e2 \in SUBSET Gtids
      /\ LogOK(Push(log[s], x), e2, lost[s], returned', written')
      /\ Push(log[s], x) \in Seq(Gtids)
  <2> DEFINE R == returned'
             W == written'
  <2>1. /\ returned \subseteq R /\ written \subseteq W /\ x \in W /\ x \in Gtids
        /\ \/ e2 = executed[s] \cup {x} /\ x \notin M(s)
           \/ e2 = executed[s] /\ x \in R /\ x \in M(s)
    BY <1>4, <1>5, <1>6
  <2> HIDE DEF R, W
  <2>2. /\ e2 \cap lost[s] = {} /\ e2 \in SUBSET Gtids
        /\ LogOK(Push(log[s], x), e2, lost[s], R, W) /\ Push(log[s], x) \in Seq(Gtids)
    BY <2>1, FedOwn
  <2> QED BY <2>2 DEF R, W
<1>10. CursorOK(s, e2, lost[s], curnext[s], returned')
  <2> DEFINE e == executed[s]
             l == lost[s]
             c == curnext[s]
             R2 == returned'
  <2>1. CursorOK(s, e, l, c, returned)
    BY StateIs
  <2>2. CASE x \in M(s)
    BY <1>5, <1>6, <2>1, <2>2
  <2>3. CASE x \notin M(s)
    <3>1. /\ returned \subseteq R2 /\ (x[1] = s /\ c \in 1..x[2] => x \in R2)
          /\ e2 = e \cup {x} /\ x \in Gtids
      BY <1>4, <1>5, <1>6, <2>3
    <3> HIDE DEF e, l, c, R2
    <3>2. CursorOK(s, e \cup {x}, l, c, R2)
      BY <2>1, <3>1, ReturnCursor
    <3> QED BY <3>1, <3>2 DEF l, c, R2
  <2> QED BY <2>2, <2>3
<1>11. Linked(ReadC(conn[s]), e2, lost[s], executed[master[s]], lost[master[s]],
              returned', written')
  <2> DEFINE c == ReadC(conn[s])
             l == lost[s]
             me == executed[master[s]]
             ml == lost[master[s]]
             R == returned'
             W == written'
  <2>1. Linked(c, e2, l, me, ml, returned, written) /\ me \in SUBSET Gtids
    BY <1>4
  <2>2. returned \subseteq R /\ written \subseteq W
    BY <1>6
  <2> HIDE DEF c, l, me, ml, R, W
  <2>3. Linked(c, e2, l, me, ml, R, W)
    BY <1>9, <2>1, <2>2, LinkedMore
  <2> QED BY <2>3 DEF c, l, me, ml, R, W
<1>12. Typed'
  <2>1. executed' \in [Servers -> SUBSET Gtids]
    BY <1>1, <1>7, <1>9
  <2>2. log' \in [Servers -> Seq(Gtids)]
    BY <1>1, <1>7, <1>9
  <2>3. conn' = [r \in Servers |-> conn'[r]]
    BY <1>1
  <2>4. returned' \subseteq Gtids
    BY <1>4, <1>6, <1>7
  <2> QED BY <1>1, <1>7, <2>1, <2>2, <2>3, <2>4 DEF Typed
<1>13. ASSUME NEW r \in Servers PROVE ServerOK(r)'
  <2>1. CASE r = s
    <3>1. conn'[s] = ReadC(conn[s])
      BY <1>1, <1>3, SlavesAre
    <3>2. Linked(conn'[r], executed'[r], lost'[r], executed'[master[r]], lost'[master[r]],
                 returned', written')
      BY <1>1, <1>2, <1>8, <1>11, <2>1, <3>1
    <3>3. /\ executed'[r] \cap lost'[r] = {}
          /\ CursorOK(r, executed'[r], lost'[r], curnext'[r], returned')
          /\ LogOK(log'[r], executed'[r], lost'[r], returned', written')
      BY <1>1, <1>8, <1>9, <1>10, <2>1
    <3> QED BY <1>1, <1>2, <2>1, <3>2, <3>3, NextServerOK
  <2>2. CASE r # s
    <3>1. conn'[r] = IF r \in Slaves(s) THEN Fed(conn[r], x) ELSE conn[r]
      BY <1>1, <1>3, <2>2
    <3>2. \/ executed'[s] = executed[s] \cup {x} /\ x \notin M(s)
          \/ executed'[s] = executed[s] /\ x \in returned' /\ x \in M(s)
      BY <1>5, <1>8
    <3> QED BY <1>1, <1>4, <1>6, <1>8, <2>2, <3>1, <3>2, FedOthers
  <2> QED BY <2>1, <2>2
<1>14. WritesKnown'
  <2>1. ASSUME NEW y \in written PROVE y \in M(y[1])' \/ y \in forgotten
    <3>1. (y \in M(y[1]) \/ y \in forgotten) /\ y[1] \in Servers
      BY <1>7 DEF IInv, WritesKnown, Gtids
    <3>2. executed[y[1]] \subseteq executed'[y[1]]
      BY <1>5, <1>8, <3>1
    <3> QED BY <1>1, <3>1, <3>2 DEF M
  <2>2. returned' \subseteq forgotten
    <3>1. x \in written => x \in M(x[1]) \/ x \in forgotten
      BY DEF IInv, WritesKnown
    <3>2. returned \subseteq forgotten
      BY DEF IInv, WritesKnown
    <3> QED BY <1>4, <1>6, <3>1, <3>2
  <2>3. reused \subseteq forgotten
    BY DEF IInv, WritesKnown
  <2> QED BY <1>1, <2>1, <2>2, <2>3 DEF WritesKnown
<1> QED BY <1>12, <1>13, <1>14 DEF IInv

\* masterAnaXsyncRequest: the answer, when the gap allows to continue.
Continues(s) ==
    LET m == master[s]
        S == conn[s].S
        xsync == gtidSeqXsync(log[m], S)
    IN  /\ gtidSetRelated(m, S)
        /\ Gap(executed[m] \ SetOf(xsync), S \ conn[s].slost) <= MaxGap

\* An answer with XCONTINUE: the master's gtid.lost may grow, and then all its
\* other connections close.
LEMMA ContinueStep ==
  ASSUME IInv, NEW s \in Servers, Answer(s), Continues(s)
  PROVE  IInv'
<1> DEFINE m == master[s]
           S == conn[s].S
           xs == gtidSeqXsync(log[m], S)
           cont == M(m) \ SetOf(xs)
           mlost == S \ cont
           upd == mlost # {}
           f == UpdateXsync(m, upd, s)
           ch == <<[type |-> "xcontinue", cont |-> cont]>>
                 \o [i \in DOMAIN xs |-> Command(xs[i])]
           d == [conn[s] EXCEPT !.attached = TRUE, !.chan = ch]
<1>1. /\ m # None /\ conn[s].link = "wait" /\ conn[s].chan = << >>
      /\ serverGtidSetAddLost(m, mlost)
      /\ conn' = [f EXCEPT ![s].attached = TRUE, ![s].chan = ch]
      /\ Gap(executed[m] \ SetOf(xs), S \ conn[s].slost) <= MaxGap
      /\ executed' = executed /\ log' = log /\ master' = master
      /\ disruptions' = disruptions
      /\ written' = written /\ reused' = reused /\ forgotten' = forgotten
      /\ returned' = returned
  BY DEF Answer, Continues, history
<1>2. m \in Servers /\ m # s /\ s # None
  BY <1>1, StateIs, ConstantsAssumption
<1>3. /\ executed[m] \in SUBSET Gtids /\ lost[m] \in SUBSET Gtids
      /\ M(m) = executed[m] \cup lost[m] /\ executed[m] \cap lost[m] = {}
      /\ LogOK(log[m], executed[m], lost[m], returned, written)
      /\ executed[s] \in SUBSET Gtids /\ lost[s] \in SUBSET Gtids
      /\ executed[s] \cap lost[s] = {}
      /\ Linked(conn[s], executed[s], lost[s], executed[m], lost[m], returned, written)
      /\ S \in SUBSET Gtids
  BY <1>2, StateIs, ConnectionTypes
<1>4. /\ Distinct(xs, returned, written) /\ SetOf(xs) \cap S = {}
      /\ SetOf(xs) \in SUBSET (executed[m] \cup (lost[m] \cap returned))
  <2> DEFINE lg == log[m]
             e == executed[m]
             l == lost[m]
             ys == gtidSeqXsync(lg, S)
  <2>1. LogOK(lg, e, l, returned, written) /\ e \in SUBSET Gtids /\ S \in SUBSET Gtids
    BY <1>3
  <2>2. ys = xs
    OBVIOUS
  <2> HIDE DEF lg, e, l, S, xs
  <2>3. /\ Distinct(ys, returned, written) /\ SetOf(ys) \cap S = {}
        /\ SetOf(ys) \in SUBSET (e \cup (l \cap returned))
    BY <2>1, XsyncSuffix
  <2> HIDE DEF ys
  <2> QED BY <2>2, <2>3 DEF e, l
<1>5. /\ Linked(d, executed[s], lost[s], executed[m], lost[m] \cup mlost, returned, written)
      /\ mlost \in SUBSET Gtids /\ mlost \cap M(m) = {}
  <2> DEFINE c == conn[s]
             e == executed[s]
             l == lost[s]
             me == executed[m]
             ml == lost[m]
  <2>1. /\ e \in SUBSET Gtids /\ l \in SUBSET Gtids /\ e \cap l = {}
        /\ me \in SUBSET Gtids /\ ml \in SUBSET Gtids
        /\ Linked(c, e, l, me, ml, returned, written) /\ c.link = "wait"
        /\ SetOf(xs) \in SUBSET (me \cup (ml \cap returned)) /\ SetOf(xs) \cap c.S = {}
        /\ Gap(me \ SetOf(xs), c.S \ c.slost) <= MaxGap
    BY <1>1, <1>3, <1>4
  <2>2. cont = (me \cup ml) \ SetOf(xs) /\ M(m) = me \cup ml
    BY <1>3
  <2>3. mlost = c.S \ cont
    OBVIOUS
  <2>4. d = Continued(c, cont, xs)
    BY DEF Continued
  <2> HIDE DEF c, e, l, me, ml, xs, cont, m, mlost, d
  <2>5. /\ Linked(Continued(c, cont, xs), e, l, me, ml \cup (c.S \ cont), returned, written)
        /\ c.S \ cont \in SUBSET Gtids /\ (c.S \ cont) \cap (me \cup ml) = {}
    <3>1. c.S = e \cup l /\ c.slost = l /\ c \in Connection
      BY <2>1 DEF Linked
    <3> QED BY <1>4, <2>1, <2>2, <3>1, LinkedPartial
  <2> QED BY <2>2, <2>3, <2>4, <2>5 DEF e, l, me, ml
<1>6. d.link = conn[s].link
  BY <1>3 DEF Linked, Connection
<1>7. mlost # {} => upd
  OBVIOUS
<1> HIDE DEF xs, cont, mlost, upd, f, ch, m, S
<1>8. /\ f = [r \in Servers |-> f[r]] /\ f[s] = conn[s]
      /\ ~upd => f = conn
      /\ upd => /\ f[m] = Closed
                /\ \A r \in Slaves(m) \ {s} : f[r] = Kicked(conn[r])
                /\ \A r \in Servers \ {m} : r \notin Slaves(m) => f[r] = conn[r]
  <2>1. upd \in BOOLEAN
    BY DEF upd
  <2>2. /\ f = [r \in Servers |-> f[r]]
        /\ ~upd => f = conn
        /\ upd =>
             /\ f[m] = IF s = None THEN conn[m] ELSE Closed
             /\ \A r \in Slaves(m) \ {s} : f[r] = Kicked(conn[r])
             /\ \A r \in Servers \ {m} : r \notin Slaves(m) \/ r = s => f[r] = conn[r]
    BY <1>2, <2>1, UpdateAt DEF f
  <2> QED BY <1>2, <2>2
<1>9. /\ conn' = [r \in Servers |-> conn'[r]] /\ conn'[s] = d
      /\ \A r \in Servers \ {s} : conn'[r] = f[r]
  <2>1. conn' = [f EXCEPT ![s] = [f[s] EXCEPT !.attached = TRUE, !.chan = ch]]
    BY <1>1
  <2>2. conn' = [f EXCEPT ![s] = d]
    BY <1>8, <2>1
  <2> HIDE DEF d
  <2> QED BY <1>8, <2>2
<1> HIDE DEF d
<1>10. /\ lost' \in [Servers -> SUBSET Gtids] /\ lost'[m] = lost[m] \cup mlost
       /\ curnext' \in [Servers -> 0..(MaxGno + 1)]
       /\ \A t \in Servers \ {m} : lost'[t] = lost[t] /\ curnext'[t] = curnext[t]
       /\ executed[m] \cap lost'[m] = {}
       /\ CursorOK(m, executed[m], lost'[m], curnext'[m], returned)
       /\ LogOK(log[m], executed[m], lost'[m], returned, written)
       /\ mlost = {} => lost' = lost
  BY <1>1, <1>2, <1>5, LostGrows
<1>11. Typed'
  BY <1>1, <1>9, <1>10 DEF IInv, Typed
<1>12. ASSUME NEW r \in Servers PROVE ServerOK(r)'
  <2>1. /\ executed'[r] \cap lost'[r] = {}
        /\ CursorOK(r, executed'[r], lost'[r], curnext'[r], returned')
        /\ LogOK(log'[r], executed'[r], lost'[r], returned', written')
    <3>1. CASE r = m
      BY <1>1, <1>10, <3>1
    <3>2. CASE r # m
      BY <1>1, <1>10, <3>2, OwnStays
    <3> QED BY <3>1, <3>2
  <2>2. CASE r = s
    <3>1. master[r] = m /\ lost'[r] = lost[r]
      BY <1>2, <1>10, <2>2 DEF m
    <3>2. Linked(conn'[r], executed'[r], lost'[r], executed'[master[r]], lost'[master[r]],
                 returned', written')
      BY <1>1, <1>5, <1>9, <1>10, <2>2, <3>1
    <3>3. conn'[r].link # "down" => conn[r].link # "down"
      BY <1>6, <1>9, <2>2
    <3> QED BY <1>1, <2>1, <3>2, <3>3, NextServerOK
  <2>3. CASE r # s /\ ~upd
    <3>1. lost' = lost /\ conn'[r] = conn[r]
      BY <1>7, <1>8, <1>9, <1>10, <2>3
    <3>2. Linked(conn'[r], executed'[r], lost'[r], executed'[master[r]], lost'[master[r]],
                 returned', written')
      BY <1>1, <3>1, StateIs
    <3> QED BY <1>1, <2>1, <3>1, <3>2, NextServerOK
  <2>4. CASE r = m /\ upd
    <3>1. conn'[r] = Closed
      BY <1>2, <1>8, <1>9, <2>4
    <3>2. Linked(conn'[r], executed'[r], lost'[r], executed'[master[r]], lost'[master[r]],
                 returned', written')
      BY <3>1, LinkedClosed
    <3>3. conn'[r].link = "down"
      BY <3>1, ClosedIs
    <3> QED BY <1>1, <2>1, <3>2, <3>3, NextServerOK
  <2>5. CASE r # s /\ r # m /\ upd
    <3> DEFINE c == conn'[r]
    <3>1. c = conn[r] \/ (c = Kicked(conn[r]) /\ conn[r].link # "down")
      BY <1>2, <1>8, <1>9, <2>5, SlavesAre
    <3>2. c.attached => r \notin Slaves(m)
      <4>1. ASSUME r \in Slaves(m) PROVE ~c.attached
        <5>1. c = Kicked(conn[r])
          BY <1>8, <1>9, <2>5, <4>1
        <5>2. conn[r] \in Connection
          BY StateIs
        <5> HIDE DEF c
        <5> QED BY <5>1, <5>2, KickedIs
      <4> QED BY <4>1
    <3>3. \A t \in Servers \ {m} : executed'[t] = executed[t] /\ lost'[t] = lost[t]
      BY <1>1, <1>10
    <3>4. /\ Linked(c, executed[r], lost[r], executed'[master[r]], lost'[master[r]],
                    returned, written)
          /\ c.link = conn[r].link
      BY <1>2, <2>5, <3>1, <3>2, <3>3, OtherLinked
    <3>5. Linked(conn'[r], executed'[r], lost'[r], executed'[master[r]], lost'[master[r]],
                 returned', written')
      BY <1>1, <2>5, <3>3, <3>4
    <3> QED BY <1>1, <2>1, <3>4, <3>5, NextServerOK
  <2> QED BY <2>2, <2>3, <2>4, <2>5
<1>13. WritesKnown'
  <2>1. \A t \in Servers : executed'[t] = executed[t] /\ lost[t] \subseteq lost'[t]
    BY <1>1, <1>10
  <2> QED BY <1>1, <2>1, KnownMore DEF history
<1> QED BY <1>11, <1>12, <1>13 DEF IInv

\* An answer with XFULLRESYNC changes no set.
LEMMA FullresyncStep ==
  ASSUME IInv, NEW s \in Servers, Answer(s), ~Continues(s)
  PROVE  IInv'
<1> DEFINE m == master[s]
           ch == <<[type |-> "xfullresync", executed |-> executed[m], lost |-> lost[m]]>>
           d == [conn[s] EXCEPT !.attached = TRUE, !.chan = ch]
<1>1. /\ m # None /\ conn[s].link = "wait"
      /\ conn' = [conn EXCEPT ![s].attached = TRUE, ![s].chan = ch]
      /\ executed' = executed /\ lost' = lost /\ curnext' = curnext /\ log' = log
      /\ master' = master /\ disruptions' = disruptions
      /\ written' = written /\ reused' = reused /\ forgotten' = forgotten
      /\ returned' = returned
  BY DEF Answer, Continues, history
<1>2. m \in Servers /\ m # s
  BY <1>1, StateIs
<1>3. Linked(d, executed[s], lost[s], executed[m], lost[m], returned, written)
  <2> DEFINE c == conn[s]
             e == executed[s]
             l == lost[s]
             me == executed[m]
             ml == lost[m]
  <2>1. /\ me \in SUBSET Gtids /\ ml \in SUBSET Gtids /\ me \cap ml = {}
        /\ Linked(c, e, l, me, ml, returned, written) /\ c.link = "wait"
    BY <1>1, <1>2, StateIs
  <2> HIDE DEF c, e, l, me, ml
  <2>2. Linked([c EXCEPT !.attached = TRUE,
                         !.chan = <<[type |-> "xfullresync", executed |-> me, lost |-> ml]>>],
               e, l, me, ml, returned, written)
    BY <2>1, LinkedFull
  <2> QED BY <2>2 DEF c, e, l, me, ml
<1>4. d.link = conn[s].link
  <2>1. conn[s] \in Connection
    BY StateIs
  <2> HIDE DEF ch
  <2> QED BY <2>1 DEF Connection
<1> HIDE DEF ch, m
<1>5. /\ conn' = [r \in Servers |-> conn'[r]] /\ conn'[s] = d
      /\ \A r \in Servers \ {s} : conn'[r] = conn[r]
  <2>1. conn' = [conn EXCEPT ![s] = d]
    BY <1>1
  <2>2. conn = [r \in Servers |-> conn[r]]
    BY DEF IInv, Typed
  <2> HIDE DEF d
  <2> QED BY <2>1, <2>2
<1> HIDE DEF d
<1>6. Typed'
  BY <1>1, <1>5 DEF IInv, Typed
<1>7. ASSUME NEW r \in Servers PROVE ServerOK(r)'
  <2>1. /\ executed'[r] \cap lost'[r] = {}
        /\ CursorOK(r, executed'[r], lost'[r], curnext'[r], returned')
        /\ LogOK(log'[r], executed'[r], lost'[r], returned', written')
    BY <1>1, OwnStays
  <2>2. Linked(conn'[r], executed'[r], lost'[r], executed'[master[r]], lost'[master[r]],
               returned', written')
    <3>1. CASE r = s
      BY <1>1, <1>3, <1>5, <3>1 DEF m
    <3>2. CASE r # s
      <4>1. conn'[r] = conn[r]
        BY <1>5, <3>2
      <4> QED BY <1>1, <4>1, StateIs
    <3> QED BY <3>1, <3>2
  <2>3. conn'[r].link # "down" => conn[r].link # "down"
    <3>1. conn'[r].link = conn[r].link
      BY <1>4, <1>5
    <3> QED BY <3>1
  <2> QED BY <1>1, <2>1, <2>2, <2>3, NextServerOK
<1>8. WritesKnown'
  BY <1>1 DEF IInv, WritesKnown, M
<1> QED BY <1>6, <1>7, <1>8 DEF IInv

----------------------------------------------------------------------------
(* The invariant, and what follows.                                        *)

\* The invariant holds before anything is connected.
LEMMA InitInv ==
  ASSUME Init
  PROVE  IInv
<1>1. /\ executed = [s \in Servers |-> {}] /\ lost = [s \in Servers |-> {}]
      /\ log = [s \in Servers |-> << >>] /\ conn = [s \in Servers |-> Closed]
      /\ disruptions = 0 /\ written = {} /\ reused = {} /\ forgotten = {}
      /\ curnext = [s \in Servers |-> 0] /\ returned = {}
  BY DEF Init
<1>2. /\ master \in [Servers -> Servers \cup {None}]
      /\ \A s \in Servers : master[s] # s
  <2>1. PICK m \in Servers : master = [s \in Servers |-> IF s = m THEN None ELSE m]
    BY DEF Init
  <2> QED BY <2>1, ConstantsAssumption
<1>3. Typed
  <2>1. 0 \in 0..MaxDisruptions
    BY ConstantsAssumption
  <2>2. log \in [Servers -> Seq(Gtids)]
    BY <1>1
  <2>3. conn = [s \in Servers |-> conn[s]]
    BY <1>1
  <2>4. 0 \in 0..(MaxGno + 1)
    BY ConstantsAssumption
  <2> QED BY <1>1, <1>2, <2>1, <2>2, <2>3, <2>4 DEF Typed
<1>4. ASSUME NEW s \in Servers PROVE ServerOK(s)
  <2>1. executed[s] = {} /\ lost[s] = {} /\ log[s] = << >> /\ conn[s] = Closed
    BY <1>1
  <2>2. LogOK(log[s], executed[s], lost[s], returned, written)
    BY <2>1, LogEmpty
  <2>3. Linked(conn[s], executed[s], lost[s], executed[master[s]], lost[master[s]],
               returned, written)
    BY <2>1, LinkedClosed
  <2>4. conn[s].link = "down"
    BY <2>1, ClosedIs
  <2>5. CursorOK(s, executed[s], lost[s], curnext[s], returned)
    <3>1. 0 \in 0..(MaxGno + 1) /\ curnext[s] = 0
      BY <1>1, ConstantsAssumption
    <3> QED BY <2>1, <3>1 DEF CursorOK, PastExecuted, PastLost
  <2> QED BY <1>2, <2>1, <2>2, <2>3, <2>4, <2>5 DEF ServerOK
<1> QED BY <1>1, <1>3, <1>4 DEF IInv, WritesKnown

\* One action at a time, every step keeps the invariant.
LEMMA NextInv ==
  ASSUME IInv, [Next]_vars
  PROVE  IInv'
<1>1. ASSUME NEW s \in Servers, Request(s) PROVE IInv'
  BY <1>1, RequestStep
<1>2. ASSUME NEW s \in Servers, NoMasterLink(s) \/ ReadEof(s) PROVE IInv'
  BY <1>2, CloseStep
<1>3. ASSUME NEW s \in Servers, Answer(s) PROVE IInv'
  BY <1>3, ContinueStep, FullresyncStep
<1>4. ASSUME NEW s \in Servers, ReadXcontinue(s) PROVE IInv'
  BY <1>4, ReadXcontinueStep
<1>5. ASSUME NEW s \in Servers, ReadXfullresync(s) PROVE IInv'
  BY <1>5, ReadXfullresyncStep
<1>6. ASSUME NEW s \in Servers, ReadCommand(s) PROVE IInv'
  BY <1>6, ReadCommandStep
<1>7. ASSUME NEW s \in Servers, Write(s) PROVE IInv'
  BY <1>7, WriteStep
<1>8. ASSUME NEW s \in Servers, BreakLink(s) PROVE IInv'
  BY <1>8, BreakLinkStep
<1>9. ASSUME NEW s \in Servers, DropBacklog(s) PROVE IInv'
  BY <1>9, DropBacklogStep
<1>10. ASSUME NEW s \in Servers, Restart(s) PROVE IInv'
  BY <1>10, RestartStep
<1>11. ASSUME NEW s \in Servers, NEW m \in Servers \cup {None}, ReplicaOf(s, m) PROVE IInv'
  BY <1>11, ReplicaOfStep
<1>12. ASSUME UNCHANGED vars PROVE IInv'
  BY <1>12, StutterStep
<1>13. ASSUME NEW s \in Servers, Step(s) PROVE IInv'
  BY <1>1, <1>2, <1>3, <1>4, <1>5, <1>6, <1>13 DEF Step
<1> QED BY <1>7, <1>8, <1>9, <1>10, <1>11, <1>12, <1>13 DEF Next

\* What a connection promises holds from the start and after every step,
\* whatever interleaves or breaks.
THEOREM Invariance == Spec => []IInv
<1>1. Init => IInv
  BY InitInv
<1>2. IInv /\ [Next]_vars => IInv'
  BY NextInv
<1> QED BY <1>1, <1>2, PTL DEF Spec

\* The values every variable has: no gtid is both executed and lost, and what
\* was lost when a replica asked is among what it told its master.
THEOREM TypeCorrect == Spec => []TypeOK
<1>1. IInv => TypeOK
  <2> SUFFICES ASSUME IInv PROVE TypeOK
    OBVIOUS
  <2>1. ASSUME NEW s \in Servers
        PROVE  /\ executed[s] \subseteq Gtids /\ lost[s] \subseteq Gtids
               /\ executed[s] \cap lost[s] = {}
               /\ curnext[s] \in 0..(MaxGno + 1)
               /\ Len(log[s]) <= LogSize /\ SetOf(log[s]) \subseteq Gtids
               /\ master[s] \in (Servers \cup {None}) \ {s}
               /\ conn[s].link \in {"down", "wait", "up"} /\ conn[s].attached \in BOOLEAN
               /\ conn[s].slost \subseteq conn[s].S /\ conn[s].S \subseteq Gtids
               /\ SetOf(conn[s].chan) \subseteq Messages
    <3>1. /\ executed[s] \in SUBSET Gtids /\ lost[s] \in SUBSET Gtids
          /\ executed[s] \cap lost[s] = {} /\ log[s] \in Seq(Gtids)
          /\ master[s] \in Servers \cup {None} /\ master[s] # s
          /\ conn[s] \in Connection /\ curnext[s] \in 0..(MaxGno + 1)
      BY StateIs DEF CursorOK
    <3>2. LogOK(log[s], executed[s], lost[s], returned, written) /\ conn[s].slost \subseteq conn[s].S
      BY StateIs DEF Linked
    <3>3. SetOf(log[s]) \subseteq Gtids
      BY <3>1 DEF SetOf
    <3>4. SetOf(conn[s].chan) \subseteq Messages
      <4>1. conn[s].chan \in Seq(Messages)
        BY <3>1, ConnectionTypes
      <4> QED BY <4>1 DEF SetOf
    <3>5. /\ conn[s].link \in {"down", "wait", "up"} /\ conn[s].attached \in BOOLEAN
          /\ conn[s].S \subseteq Gtids
      BY <3>1, ConnectionTypes
    <3> QED BY <3>1, <3>2, <3>3, <3>4, <3>5 DEF LogOK
  <2>2. /\ written \subseteq Gtids /\ reused \subseteq Gtids /\ forgotten \subseteq Gtids
        /\ returned \subseteq Gtids /\ disruptions \in 0..MaxDisruptions
    BY DEF IInv, Typed
  <2> QED BY <2>1, <2>2 DEF TypeOK
<1> QED BY <1>1, Invariance, PTL

\* The properties speak of a connection as the invariant does.
LEMMA SameWords ==
  ASSUME IInv, NEW s \in Servers
  PROVE  /\ Sent(s) = Cmds(conn[s])
         /\ HasBeforeSent(s) = Before(conn[s], executed[s], lost[s])
         /\ WillExecute(s) = Will(conn[s], executed[s])
         /\ conn[s].attached => /\ master[s] \in Servers
                                /\ M(master[s]) = executed[master[s]] \cup lost[master[s]]
<1>1. Sent(s) = Cmds(conn[s])
  BY DEF Sent, Cmds
<1>2. \A type : Reads(s, type) <=> First(conn[s], type)
  BY DEF Reads, First
<1>3. HasBeforeSent(s) = Before(conn[s], executed[s], lost[s])
  BY DEF HasBeforeSent, Before, Reads, First, M
<1>4. WillExecute(s) = Will(conn[s], executed[s])
  BY <1>1, <1>2 DEF WillExecute, Will, Base
<1>5. conn[s].attached => /\ master[s] \in Servers
                          /\ M(master[s]) = executed[master[s]] \cup lost[master[s]]
  <2>1. conn[s].attached => master[s] \in Servers
    BY StateIs
  <2> QED BY <2>1, StateIs
<1> QED BY <1>1, <1>3, <1>4, <1>5

\* An attached replica and its master agree on the gtid.set, with what is on
\* its way: serverReplStreamUpdateXsync closes every connection a change of
\* gtid.lost would make wrong.
THEOREM AgreeTheorem == Spec => []GtidSetsAgree
<1>1. IInv => GtidSetsAgree
  <2> SUFFICES ASSUME IInv, NEW s \in Servers, conn[s].attached
               PROVE  HasBeforeSent(s) \cup Sent(s) = M(master[s])
    BY DEF GtidSetsAgree
  <2>1. Before(conn[s], executed[s], lost[s]) \cup Cmds(conn[s])
          = executed[master[s]] \cup lost[master[s]]
    BY StateIs DEF Linked
  <2> QED BY <2>1, SameWords
<1> QED BY <1>1, Invariance, PTL

\* No replica is sent a command it has or was told to count as had, and none
\* twice: gtidCommand never finds the gtid of a replicated command executed,
\* unless it came back to its server at or after a cursor.
THEOREM OnceTheorem == Spec => []ExactlyOnce
<1>1. IInv => ExactlyOnce
  <2> SUFFICES ASSUME IInv, NEW s \in Servers, conn[s].attached
               PROVE  /\ Sent(s) \cap HasBeforeSent(s) \subseteq returned
                      /\ \A i, j \in DOMAIN conn[s].chan :
                            /\ i # j /\ conn[s].chan[i].type = "cmd"
                            /\ conn[s].chan[i] = conn[s].chan[j]
                            => conn[s].chan[i].gtid \in returned
    BY DEF ExactlyOnce
  <2>1. /\ Cmds(conn[s]) \cap Before(conn[s], executed[s], lost[s]) \subseteq returned
        /\ conn[s] \in Connection /\ ChanOK(conn[s].chan, returned, written)
    BY StateIs DEF Linked
  <2>2. Sent(s) = Cmds(conn[s])
        /\ HasBeforeSent(s) = Before(conn[s], executed[s], lost[s])
    BY SameWords
  <2>3. ASSUME NEW i \in DOMAIN conn[s].chan, NEW j \in DOMAIN conn[s].chan, i # j,
               conn[s].chan[i].type = "cmd", conn[s].chan[i] = conn[s].chan[j]
        PROVE  conn[s].chan[i].gtid \in returned
    <3> DEFINE ch == conn[s].chan
    <3>1. ch \in Seq(Messages) /\ ChanOK(ch, returned, written)
      BY <2>1, ConnectionTypes
    <3>2. DOMAIN ch = 1..Len(ch) /\ Len(ch) \in Nat
      BY <3>1
    <3>3. /\ i \in 1..Len(ch) /\ j \in 1..Len(ch) /\ i # j
          /\ ch[i].type = "cmd" /\ ch[i] = ch[j]
      BY <2>3, <3>2
    <3> HIDE DEF ch
    <3>4. i < j \/ j < i
      BY <3>2, <3>3
    <3>5. ch[i].gtid \in returned
      BY <3>1, <3>3, <3>4 DEF ChanOK
    <3> QED BY <3>5 DEF ch
  <2> QED BY <2>1, <2>2, <2>3
<1> QED BY <1>1, Invariance, PTL

\* An attached replica and its master have executed, or will have, the same but
\* for gtid-xsync-max-gap commands: what masterAnaXsyncRequest checks when it
\* answers stays true of the connection.
THEOREM DivergenceTheorem == Spec => []DivergenceBounded
<1>1. IInv => DivergenceBounded
  <2> SUFFICES ASSUME IInv, NEW s \in Servers, conn[s].attached
               PROVE  LET m == executed[master[s]]
                      IN  Cardinality(((m \ WillExecute(s)) \cup (WillExecute(s) \ m))
                                      \ returned) <= MaxGap
    BY DEF DivergenceBounded
  <2> DEFINE m == executed[master[s]]
             w == WillExecute(s)
  <2>1. Near(w, m, returned)
    BY StateIs, SameWords DEF Linked
  <2> HIDE DEF m, w
  <2>2. ((m \ w) \cup (w \ m)) \ returned = ((w \ m) \cup (m \ w)) \ returned
    OBVIOUS
  <2>3. Cardinality(((m \ w) \cup (w \ m)) \ returned) <= MaxGap
    BY <2>1, <2>2 DEF Near
  <2> QED BY <2>3 DEF m, w
<1> QED BY <1>1, Invariance, PTL

\* A gtid is given to two writes only when a full resync or a restart took the
\* first one away from its server; and one that the server knows again, only when
\* it came back from a master at or after the cursor.
THEOREM UniqueTheorem == Spec => []UniqueUnlessForgotten
<1>1. IInv => UniqueUnlessForgotten
  <2> SUFFICES ASSUME IInv PROVE UniqueUnlessForgotten
    OBVIOUS
  <2>1. reused \subseteq forgotten
    BY DEF IInv, WritesKnown
  <2>2. ASSUME NEW s \in Servers, <<s, NextGno(s)>> \in M(s)
        PROVE  <<s, NextGno(s)>> \in returned
    <3> DEFINE n == NextGno(s)
               e == executed[s]
               l == lost[s]
               c == curnext[s]
    <3>1. /\ M(s) = e \cup l /\ e \in SUBSET Gtids /\ l \in SUBSET Gtids
          /\ CursorOK(s, e, l, c, returned)
      BY StateIs
    <3>2. n = gtidSetCurrentUuidSetNext(s, e, c) /\ <<s, n>> \in e \cup l
      BY <2>2, <3>1 DEF NextGno
    <3> HIDE DEF n, e, l, c
    <3>3. n \in 1..MaxGno
      BY <3>1, <3>2 DEF Gtids
    <3>4. <<s, n>> \notin l /\ (<<s, n>> \in e => <<s, n>> \in returned)
      BY <3>1, <3>2, <3>3, NextIsFresh
    <3>5. <<s, n>> \in returned
      BY <3>2, <3>4
    <3> QED BY <3>5 DEF n
  <2> QED BY <2>1, <2>2 DEF UniqueUnlessForgotten
<1> QED BY <1>1, Invariance, PTL
=============================================================================
