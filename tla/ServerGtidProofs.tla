-------------------------- MODULE ServerGtidProofs --------------------------
(***************************************************************************)
(* Proofs about ServerGtid, for every set of uuids, every MaxGno and every *)
(* set of snapshots.                                                       *)
(***************************************************************************)
EXTENDS ServerGtid, WellFoundedInduction, TLAPS

\* The next own gno after executed set x with cursor c.
CurNext(x, c) == gtidSetCurrentUuidSetNext(x, c)

\* A cursor that is set is past the gnos of executed set x, but those of R.
CursorOK(x, c, R) == c # 0 => \A g \in x[Self] : g < c \/ g \in R

\* The cursor is past all own gnos but the returned ones, and the next own gno
\* is not behind the lost set unless a removal took it back.
CursorInv ==
    /\ CursorOK(executed, curnext, returned)
    /\ removed \/ uuidSetNext(lost[Self]) <= CurNext(executed, curnext)
    /\ AbortsOnReturn

\* What ran is executed; and it ran once, unless it is an own command that
\* returned.
RanInv ==
    \A u \in Uuids, g \in Gnos :
        /\ ran[u][g] <= 1 \/ (u = Self /\ g \in returned)
        /\ ran[u][g] # 0 => g \in executed[u]

IInv == TypeOK /\ CursorInv /\ RanInv

----------------------------------------------------------------------------
(* Sets of gnos.                                                           *)

\* A nonempty set of gnos has a greatest member.
LEMMA GreatestExists ==
  ASSUME NEW S \in SUBSET Gnos, S # {}
  PROVE  \E g \in S : \A h \in S : h <= g
<1> DEFINE T == {MaxGno - g : g \in S}
<1>1. T \subseteq Nat /\ T # {}
  BY ConstantsAssumption DEF Gnos
<1>2. PICK t \in T : \A v \in T : ~(<<v, t>> \in OpToRel(<, Nat))
  BY <1>1, NatLessThanWellFounded, WFMin
<1>3. PICK g \in S : t = MaxGno - g
  BY <1>2
<1>4. \A h \in S : h <= g
  <2> SUFFICES ASSUME NEW h \in S PROVE h <= g
    OBVIOUS
  <2>1. MaxGno - h \in T
    OBVIOUS
  <2>2. ~(MaxGno - h < t)
    BY <2>1, <1>1, <1>2 DEF OpToRel
  <2> QED BY <2>2, <1>3, ConstantsAssumption DEF Gnos
<1> QED BY <1>4

\* uuidSetNext is the least gno above every member.
LEMMA NextIsLeastAbove ==
  ASSUME NEW S \in SUBSET Gnos
  PROVE  /\ uuidSetNext(S) \in 1..(MaxGno + 1)
         /\ \A g \in S : g < uuidSetNext(S)
         /\ \A n \in Int : n >= 1 /\ (\A g \in S : g < n) => uuidSetNext(S) <= n
<1>1. CASE S = {}
  BY <1>1, ConstantsAssumption DEF uuidSetNext
<1>2. CASE S # {}
  <2> DEFINE m == CHOOSE g \in S : \A h \in S : h <= g
  <2>1. m \in S /\ \A h \in S : h <= m
    BY <1>2, GreatestExists
  <2>2. uuidSetNext(S) = m + 1
    BY <1>2 DEF uuidSetNext
  <2> HIDE DEF m
  <2> QED BY <2>1, <2>2, ConstantsAssumption DEF Gnos
<1> QED BY <1>1, <1>2

\* A smaller set has a smaller next.
LEMMA NextMonotone ==
  ASSUME NEW S \in SUBSET Gnos, NEW R \in SUBSET S
  PROVE  uuidSetNext(R) <= uuidSetNext(S)
<1>1. R \in SUBSET Gnos
  OBVIOUS
<1>2. uuidSetNext(S) \in Int /\ uuidSetNext(S) >= 1
  BY NextIsLeastAbove
<1>3. \A g \in R : g < uuidSetNext(S)
  BY NextIsLeastAbove
<1> QED BY <1>1, <1>2, <1>3, NextIsLeastAbove

----------------------------------------------------------------------------
(* serverGtidSetCurrrentUuidSetUpdateNextGno.                              *)

\* Where an update leaves executed set x, lost set l and cursor d, when the
\* members of R had returned: past the lost set, and past the executed one but
\* for R.
Updated(x, l, d, R) ==
    /\ d \in 0..(MaxGno + 1)
    /\ CursorOK(x, d, R)
    /\ uuidSetNext(l[Self]) <= CurNext(x, d)

\* A failed assert of the update is due to a member of R.
AssertOK(x, l, c, R) ==
    NextGnoAssert(x, l, c) \/ \E g \in R : uuidSetNext(l[Self]) <= g

\* The update establishes both when the cursor was past the executed set but
\* for R.
LEMMA UpdateCorrect ==
  ASSUME NEW x \in GtidSets, NEW l \in GtidSets, NEW c \in 0..(MaxGno + 1),
         NEW R \in SUBSET Gnos, CursorOK(x, c, R)
  PROVE  Updated(x, l, UpdateNextGno(x, l, c), R) /\ AssertOK(x, l, c, R)
<1> DEFINE nx == uuidSetNext(x[Self])
           nl == uuidSetNext(l[Self])
           d == UpdateNextGno(x, l, c)
<1>1. x[Self] \in SUBSET Gnos /\ l[Self] \in SUBSET Gnos
  BY ConstantsAssumption DEF GtidSets
<1>2. nx \in 1..(MaxGno + 1) /\ nl \in 1..(MaxGno + 1)
  BY <1>1, NextIsLeastAbove
<1>3. MaxGno \in Nat /\ \A g \in x[Self] : g \in Int /\ g < nx
  BY <1>1, NextIsLeastAbove, ConstantsAssumption DEF Gnos
<1>4. nl < nx => \E g \in x[Self] : ~(g < nl)
  BY <1>1, <1>2, NextIsLeastAbove
<1> HIDE DEF nx, nl
<1>5. gtidSetCurrentUuidSetNext(x, c) = IF c = 0 THEN nx ELSE c
  BY DEF gtidSetCurrentUuidSetNext, nx
<1>6. d = IF (IF c = 0 THEN nx ELSE c) < nl THEN nl ELSE c
  BY <1>5 DEF UpdateNextGno, nl
<1>7. NextGnoAssert(x, l, c) <=> ((IF c = 0 THEN nx ELSE c) < nl => nx <= nl)
  BY <1>5 DEF NextGnoAssert, nx, nl
<1>8. CurNext(x, d) = IF d = 0 THEN nx ELSE d
  BY DEF CurNext, gtidSetCurrentUuidSetNext, nx
<1> HIDE DEF d
<1>9. c # 0 => \A g \in x[Self] : g < c \/ g \in R
  BY DEF CursorOK
<1>10. d \in 0..(MaxGno + 1) /\ nl <= (IF d = 0 THEN nx ELSE d)
  BY <1>2, <1>3, <1>6
<1>11. CursorOK(x, d, R)
  <2> SUFFICES ASSUME d # 0, NEW g \in x[Self], g \notin R PROVE g < d
    BY DEF CursorOK
  <2>1. g \in Int /\ g < nx /\ (c # 0 => g < c)
    BY <1>3, <1>9
  <2> QED BY <2>1, <1>2, <1>3, <1>6
<1>12. AssertOK(x, l, c, R)
  <2> SUFFICES ASSUME ~NextGnoAssert(x, l, c) PROVE \E g \in R : nl <= g
    BY DEF AssertOK, nl
  <2>1. (IF c = 0 THEN nx ELSE c) < nl /\ ~(nx <= nl)
    BY <1>7
  <2>2. nl < nx /\ c # 0 /\ c < nl
    BY <2>1, <1>2, <1>3
  <2>3. PICK g \in x[Self] : ~(g < nl)
    BY <2>2, <1>4
  <2>4. g \in Int /\ nl <= g /\ ~(g < c)
    BY <2>2, <2>3, <1>2, <1>3
  <2> QED BY <2>2, <2>4, <1>9
<1> QED BY <1>8, <1>10, <1>11, <1>12 DEF Updated, d, nl

\* The same for a step that ends with that call.
LEMMA UpdateWithCorrect ==
  ASSUME NEW x \in GtidSets, NEW l \in GtidSets, NEW c \in 0..(MaxGno + 1),
         UpdateWith(x, l, c), returned' \in SUBSET Gnos, CursorOK(x, c, returned')
  PROVE  /\ executed' \in GtidSets /\ lost' \in GtidSets
         /\ curnext' \in 0..(MaxGno + 1)
         /\ aborted' \in BOOLEAN /\ removed' \in BOOLEAN
         /\ CursorInv'
<1>1. /\ executed' = x /\ lost' = l
      /\ curnext' = UpdateNextGno(x, l, c)
      /\ aborted' = ~NextGnoAssert(x, l, c)
      /\ removed' = FALSE
  BY DEF UpdateWith
<1> DEFINE d == UpdateNextGno(x, l, c)
<1>2. PICK R \in SUBSET Gnos : R = returned'
  OBVIOUS
<1>3. Updated(x, l, d, R) /\ AssertOK(x, l, c, R)
  BY <1>2, UpdateCorrect
<1> HIDE DEF d
<1>4. AbortsOnReturn'
  BY <1>1, <1>2, <1>3 DEF AssertOK, AbortsOnReturn
<1>5. CursorInv'
  BY <1>1, <1>2, <1>3, <1>4 DEF Updated, CursorInv, CursorOK, CurNext, d
<1> QED BY <1>1, <1>3, <1>5 DEF Updated, d

----------------------------------------------------------------------------
(* Sets of gtids.                                                          *)

\* Ranges of gnos are sets of gnos.
LEMMA RangeOfGnos ==
  ASSUME NEW start \in Gnos, NEW end \in Gnos
  PROVE  start..end \in SUBSET Gnos
BY ConstantsAssumption DEF Gnos

\* Adding to and removing from one uuid's set.
LEMMA PlusMinus ==
  ASSUME NEW x \in GtidSets, NEW u \in Uuids, NEW S \in SUBSET Gnos
  PROVE  /\ Plus(x, u, S) \in GtidSets
         /\ Plus(x, u, S)[u] = x[u] \cup S
         /\ \A v \in Uuids : v # u => Plus(x, u, S)[v] = x[v]
         /\ Minus(x, u, S) \in GtidSets
         /\ Minus(x, u, S)[u] = x[u] \ S
         /\ \A v \in Uuids : v # u => Minus(x, u, S)[v] = x[v]
BY DEF Plus, Minus, GtidSets

\* Own gnos that enter at or after the cursor count as returned.
LEMMA EnterCorrect ==
  ASSUME NEW u \in Uuids, NEW S \in SUBSET Gnos, Enter(u, S),
         executed \in GtidSets, returned \in SUBSET Gnos,
         curnext \in 0..(MaxGno + 1), CursorOK(executed, curnext, returned)
  PROVE  /\ returned' \in SUBSET Gnos
         /\ returned \subseteq returned'
         /\ CursorOK(Plus(executed, u, S), curnext, returned')
<1> DEFINE x == Plus(executed, u, S)
<1>1. returned' = returned \cup {g \in S : u = Self /\ curnext \in 1..g}
  BY DEF Enter
<1>2. Self \in Uuids /\ MaxGno \in Nat
  BY ConstantsAssumption
<1>3. /\ x[u] = executed[u] \cup S
      /\ \A v \in Uuids : v # u => x[v] = executed[v]
  BY PlusMinus
<1>4. CursorOK(x, curnext, returned')
  <2> SUFFICES ASSUME curnext # 0, NEW g \in x[Self]
               PROVE  g < curnext \/ g \in returned'
    BY DEF CursorOK
  <2>1. CASE g \in executed[Self]
    BY <2>1, <1>1 DEF CursorOK
  <2>2. CASE g \notin executed[Self]
    <3>1. u = Self /\ g \in S
      BY <2>2, <1>2, <1>3
    <3>2. g < curnext \/ curnext \in 1..g
      BY <3>1, <1>2 DEF Gnos
    <3> QED BY <3>1, <3>2, <1>1
  <2> QED BY <2>1, <2>2
<1> QED BY <1>1, <1>4

\* What the invariant says of the types.
LEMMA InvTypes ==
  ASSUME IInv
  PROVE  /\ executed \in GtidSets /\ lost \in GtidSets
         /\ curnext \in 0..(MaxGno + 1)
         /\ ran \in [Uuids -> [Gnos -> Nat]]
         /\ returned \in SUBSET Gnos /\ removed \in BOOLEAN
         /\ Self \in Uuids /\ MaxGno \in Nat
         /\ executed[Self] \in SUBSET Gnos /\ lost[Self] \in SUBSET Gnos
BY ConstantsAssumption DEF IInv, TypeOK, GtidSets

\* The next own gno is past every executed own gno but the returned ones, and
\* past every lost one unless a removal took it back.
LEMMA InvFresh == IInv => NextIsFresh
<1> SUFFICES ASSUME IInv PROVE NextIsFresh
  OBVIOUS
<1> DEFINE n == gtidSetCurrentUuidSetNext(executed, curnext)
<1>1. /\ executed[Self] \in SUBSET Gnos /\ lost[Self] \in SUBSET Gnos
      /\ curnext \in 0..(MaxGno + 1) /\ MaxGno \in Nat
  BY InvTypes
<1>2. n \in Int
  BY <1>1, NextIsLeastAbove DEF gtidSetCurrentUuidSetNext
<1>3. \A g \in executed[Self] : g < n \/ g \in returned
  <2>1. CASE curnext = 0
    BY <2>1, <1>1, NextIsLeastAbove DEF gtidSetCurrentUuidSetNext
  <2>2. CASE curnext # 0
    BY <2>2 DEF IInv, CursorInv, CursorOK, gtidSetCurrentUuidSetNext
  <2> QED BY <2>1, <2>2
<1>4. removed \/ uuidSetNext(lost[Self]) <= n
  BY DEF IInv, CursorInv, CurNext
<1> HIDE DEF n
<1>5. ASSUME ~removed, NEW g \in lost[Self] PROVE g < n
  <2>1. g \in Int /\ g < uuidSetNext(lost[Self])
    BY <1>1, NextIsLeastAbove DEF Gnos
  <2>2. uuidSetNext(lost[Self]) \in Int
    BY <1>1, NextIsLeastAbove
  <2> QED BY <2>1, <2>2, <1>2, <1>4, <1>5
<1> QED BY <1>3, <1>5 DEF NextIsFresh, n

----------------------------------------------------------------------------
(* The invariant, action by action; a server that has aborted takes none.  *)

\* An own write: its gno is new, or that of a command that returned.
LEMMA OwnWriteKeeps ==
  ASSUME IInv, ~aborted, OwnWrite
  PROVE  IInv'
<1> DEFINE gno == gtidSetCurrentUuidSetNext(executed, curnext)
<1>1. /\ gno \in Gnos
      /\ executed' = Plus(executed, Self, {gno})
      /\ curnext' = 0
      /\ ran' = [ran EXCEPT ![Self][gno] = @ + 1]
      /\ lost' = lost /\ aborted' = aborted
      /\ returned' = returned /\ removed' = removed
  BY DEF OwnWrite, Run
<1>2. /\ executed \in GtidSets /\ lost \in GtidSets
      /\ ran \in [Uuids -> [Gnos -> Nat]]
      /\ returned \in SUBSET Gnos /\ removed \in BOOLEAN
      /\ Self \in Uuids /\ MaxGno \in Nat
      /\ executed[Self] \in SUBSET Gnos /\ lost[Self] \in SUBSET Gnos
  BY InvTypes
<1>3. \A g \in executed[Self] : g < gno \/ g \in returned
  BY InvFresh DEF NextIsFresh
<1>4. removed \/ uuidSetNext(lost[Self]) <= gno
  BY DEF IInv, CursorInv, CurNext
<1> HIDE DEF gno
<1>5. /\ executed' \in GtidSets
      /\ executed'[Self] = executed[Self] \cup {gno}
      /\ \A u \in Uuids : executed[u] \subseteq executed'[u]
  BY <1>1, <1>2, PlusMinus
<1>6. TypeOK'
  <2>1. ran' \in [Uuids -> [Gnos -> Nat]]
    BY <1>1, <1>2
  <2>2. curnext' \in 0..(MaxGno + 1)
    BY <1>1, <1>2
  <2>3. aborted \in BOOLEAN
    BY DEF IInv, TypeOK
  <2> QED BY <2>1, <2>2, <2>3, <1>1, <1>2, <1>5 DEF TypeOK
<1>7. CursorInv'
  <2>1. executed'[Self] \in SUBSET Gnos
    BY <1>1, <1>2, <1>5
  <2>2. /\ gno < uuidSetNext(executed'[Self])
        /\ uuidSetNext(executed'[Self]) \in Int /\ uuidSetNext(lost[Self]) \in Int
        /\ gno \in Int
    <3>1. gno \in executed'[Self] /\ gno \in Int
      <4>1. gno \in executed'[Self]
        BY <1>5
      <4>2. gno \in Int
        BY <1>1, <1>2 DEF Gnos
      <4> QED BY <4>1, <4>2
    <3>2. gno < uuidSetNext(executed'[Self])
      BY <3>1, <2>1, NextIsLeastAbove
    <3>3. /\ uuidSetNext(executed'[Self]) \in 1..(MaxGno + 1)
          /\ uuidSetNext(lost[Self]) \in 1..(MaxGno + 1)
      BY <2>1, <1>2, NextIsLeastAbove
    <3> QED BY <3>1, <3>2, <3>3, <1>2
  <2>3. CurNext(executed', curnext') = uuidSetNext(executed'[Self])
    BY <1>1 DEF CurNext, gtidSetCurrentUuidSetNext
  <2>4. removed' \/ uuidSetNext(lost'[Self]) <= CurNext(executed', curnext')
    BY <2>2, <2>3, <1>1, <1>4
  <2> QED BY <2>4, <1>1 DEF CursorInv, CursorOK, AbortsOnReturn
<1>8. RanInv'
  <2>1. gno \in executed[Self] => gno \in returned
    BY <1>1, <1>2, <1>3 DEF Gnos
  <2> SUFFICES ASSUME NEW u \in Uuids, NEW g \in Gnos
               PROVE  /\ ran'[u][g] <= 1 \/ (u = Self /\ g \in returned')
                      /\ ran'[u][g] # 0 => g \in executed'[u]
    BY DEF RanInv
  <2>2. /\ ran[u][g] <= 1 \/ (u = Self /\ g \in returned)
        /\ ran[u][g] # 0 => g \in executed[u]
    BY DEF IInv, RanInv
  <2>3. CASE u = Self /\ g = gno
    <3>1. ran'[u][g] = ran[u][g] + 1 /\ g \in executed'[u]
      BY <2>3, <1>1, <1>2, <1>5
    <3>2. ran[u][g] = 0 \/ g \in returned
      BY <2>1, <2>2, <2>3
    <3> QED BY <3>1, <3>2, <2>3, <1>1
  <2>4. CASE ~(u = Self /\ g = gno)
    <3>1. ran'[u][g] = ran[u][g]
      BY <2>4, <1>1, <1>2
    <3> QED BY <3>1, <2>2, <1>1, <1>5
  <2> QED BY <2>3, <2>4
<1> QED BY <1>6, <1>7, <1>8 DEF IInv

\* A replicated command: it is in neither set, so it has not run.
LEMMA CommandKeeps ==
  ASSUME IInv, ~aborted, NEW u \in Uuids, NEW g \in Gnos, gtidCommand(u, g)
  PROVE  IInv'
<1>1. /\ g \notin executed[u]
      /\ executed' = Plus(executed, u, {g})
      /\ ran' = [ran EXCEPT ![u][g] = @ + 1]
      /\ Enter(u, {g})
      /\ lost' = lost /\ curnext' = curnext /\ aborted' = aborted
      /\ removed' = removed
  BY DEF gtidCommand, Run, serverGtidSetContains
<1>2. /\ executed \in GtidSets /\ lost \in GtidSets
      /\ curnext \in 0..(MaxGno + 1)
      /\ ran \in [Uuids -> [Gnos -> Nat]]
      /\ returned \in SUBSET Gnos /\ removed \in BOOLEAN
      /\ Self \in Uuids /\ MaxGno \in Nat
      /\ executed[Self] \in SUBSET Gnos /\ lost[Self] \in SUBSET Gnos
  BY InvTypes
<1>3. /\ executed' \in GtidSets
      /\ executed'[u] = executed[u] \cup {g}
      /\ \A v \in Uuids : v # u => executed'[v] = executed[v]
  BY <1>1, <1>2, PlusMinus
<1>4. CursorOK(executed, curnext, returned)
  BY DEF IInv, CursorInv
<1>5. /\ returned' \in SUBSET Gnos /\ returned \subseteq returned'
      /\ CursorOK(executed', curnext, returned')
  BY <1>1, <1>2, <1>4, EnterCorrect
<1>6. TypeOK'
  <2>1. ran' \in [Uuids -> [Gnos -> Nat]]
    BY <1>1, <1>2
  <2> QED BY <2>1, <1>1, <1>2, <1>3, <1>5 DEF TypeOK, IInv
<1>7. CursorInv'
  <2>1. executed[Self] \in SUBSET executed'[Self] /\ executed'[Self] \in SUBSET Gnos
    BY <1>2, <1>3 DEF GtidSets
  <2>2. uuidSetNext(executed[Self]) <= uuidSetNext(executed'[Self])
    BY <2>1, NextMonotone
  <2>3. /\ uuidSetNext(executed[Self]) \in Int /\ uuidSetNext(executed'[Self]) \in Int
        /\ uuidSetNext(lost[Self]) \in Int
    BY <2>1, <1>2, NextIsLeastAbove
  <2>4. removed \/ uuidSetNext(lost[Self]) <= CurNext(executed, curnext)
    BY DEF IInv, CursorInv
  <2>5. removed \/ uuidSetNext(lost[Self]) <= CurNext(executed', curnext)
    <3>1. CASE curnext = 0
      BY <3>1, <2>2, <2>3, <2>4 DEF CurNext, gtidSetCurrentUuidSetNext
    <3>2. CASE curnext # 0
      BY <3>2, <2>4 DEF CurNext, gtidSetCurrentUuidSetNext
    <3> QED BY <3>1, <3>2
  <2> QED BY <2>5, <1>1, <1>5 DEF CursorInv, CursorOK, AbortsOnReturn
<1>8. RanInv'
  <2> SUFFICES ASSUME NEW v \in Uuids, NEW h \in Gnos
               PROVE  /\ ran'[v][h] <= 1 \/ (v = Self /\ h \in returned')
                      /\ ran'[v][h] # 0 => h \in executed'[v]
    BY DEF RanInv
  <2>1. /\ ran[v][h] <= 1 \/ (v = Self /\ h \in returned)
        /\ ran[v][h] # 0 => h \in executed[v]
    BY DEF IInv, RanInv
  <2>2. CASE v = u /\ h = g
    <3>1. ran[v][h] = 0
      BY <2>1, <2>2, <1>1
    <3>2. ran'[v][h] = 1
      BY <3>1, <2>2, <1>1, <1>2
    <3> QED BY <3>2, <2>2, <1>3
  <2>3. CASE ~(v = u /\ h = g)
    <3>1. ran'[v][h] = ran[v][h]
      BY <2>3, <1>1, <1>2
    <3> QED BY <3>1, <2>1, <1>3, <1>5
  <2> QED BY <2>2, <2>3
<1> QED BY <1>6, <1>7, <1>8 DEF IInv

\* A step that ends with the cursor's update, runs nothing and removes nothing
\* from the executed set.
LEMMA UpdateWithKeeps ==
  ASSUME IInv, NEW x \in GtidSets, NEW l \in GtidSets,
         UpdateWith(x, l, curnext), UNCHANGED ran,
         \A u \in Uuids : executed[u] \subseteq x[u],
         returned' \in SUBSET Gnos, returned \subseteq returned',
         CursorOK(x, curnext, returned')
  PROVE  IInv'
<1>1. curnext \in 0..(MaxGno + 1) /\ ran \in [Uuids -> [Gnos -> Nat]]
  BY InvTypes
<1>2. executed' = x
  BY DEF UpdateWith
<1>3. /\ executed' \in GtidSets /\ lost' \in GtidSets
      /\ curnext' \in 0..(MaxGno + 1)
      /\ aborted' \in BOOLEAN /\ removed' \in BOOLEAN
      /\ CursorInv'
  BY <1>1, UpdateWithCorrect
<1>4. TypeOK'
  BY <1>1, <1>3 DEF TypeOK
<1>5. RanInv'
  BY <1>2 DEF IInv, RanInv
<1> QED BY <1>3, <1>4, <1>5 DEF IInv

\* The same when only the lost set changes.
LEMMA UpdateLostKeeps ==
  ASSUME IInv, NEW l \in GtidSets, UpdateWith(executed, l, curnext),
         UNCHANGED <<ran, returned>>
  PROVE  IInv'
<1>1. executed \in GtidSets /\ returned \in SUBSET Gnos
  BY InvTypes
<1>2. returned' = returned /\ CursorOK(executed, curnext, returned)
  BY DEF IInv, CursorInv
<1> QED BY <1>1, <1>2, UpdateWithKeeps

\* GTIDX ADD EXECUTED: the added own gnos count as returned.
LEMMA AddExecutedKeeps ==
  ASSUME IInv, NEW u \in Uuids, NEW S \in SUBSET Gnos, GtidxAddExecuted(u, S)
  PROVE  IInv'
<1> DEFINE x == Plus(executed, u, S)
<1>1. /\ executed \in GtidSets /\ lost \in GtidSets
      /\ curnext \in 0..(MaxGno + 1) /\ returned \in SUBSET Gnos
  BY InvTypes
<1>2. UpdateWith(x, lost, curnext) /\ Enter(u, S) /\ UNCHANGED ran
  BY DEF GtidxAddExecuted
<1>3. CursorOK(executed, curnext, returned)
  BY DEF IInv, CursorInv
<1>4. /\ returned' \in SUBSET Gnos /\ returned \subseteq returned'
      /\ CursorOK(x, curnext, returned')
  BY <1>1, <1>2, <1>3, EnterCorrect
<1>5. x \in GtidSets /\ \A v \in Uuids : executed[v] \subseteq x[v]
  BY <1>1, PlusMinus
<1> HIDE DEF x
<1> QED BY <1>1, <1>2, <1>4, <1>5, UpdateWithKeeps

\* GTIDX REMOVE EXECUTED.
LEMMA RemoveExecutedKeeps ==
  ASSUME IInv, ~aborted, NEW u \in Uuids, NEW S \in SUBSET Gnos,
         GtidxRemoveExecuted(u, S)
  PROVE  IInv'
<1>1. /\ executed' = Minus(executed, u, S)
      /\ ran' = [ran EXCEPT ![u] = [g \in Gnos |-> IF g \in S THEN 0 ELSE ran[u][g]]]
      /\ returned' = IF u = Self THEN returned \ S ELSE returned
      /\ removed' = (removed \/ (u = Self /\ curnext = 0))
      /\ lost' = lost /\ curnext' = curnext /\ aborted' = aborted
  BY DEF GtidxRemoveExecuted
<1>2. /\ executed \in GtidSets /\ lost \in GtidSets
      /\ curnext \in 0..(MaxGno + 1)
      /\ ran \in [Uuids -> [Gnos -> Nat]]
      /\ returned \in SUBSET Gnos /\ removed \in BOOLEAN /\ Self \in Uuids
  BY InvTypes
<1>3. /\ executed' \in GtidSets
      /\ executed'[u] = executed[u] \ S
      /\ \A v \in Uuids : v # u => executed'[v] = executed[v]
  BY <1>1, <1>2, PlusMinus
<1>4. [g \in Gnos |-> IF g \in S THEN 0 ELSE ran[u][g]] \in [Gnos -> Nat]
  BY <1>2
<1>5. TypeOK'
  <2>1. ran' \in [Uuids -> [Gnos -> Nat]]
    BY <1>1, <1>2, <1>4
  <2>2. returned' \subseteq Gnos /\ removed' \in BOOLEAN
    BY <1>1, <1>2
  <2> QED BY <2>1, <2>2, <1>1, <1>3 DEF TypeOK, IInv
<1>6. CursorInv'
  <2>1. /\ CursorOK(executed, curnext, returned)
        /\ removed \/ uuidSetNext(lost[Self]) <= CurNext(executed, curnext)
    BY DEF IInv, CursorInv
  <2>2. CursorOK(executed', curnext', returned')
    <3>1. CASE u = Self
      BY <3>1, <2>1, <1>1, <1>3 DEF CursorOK
    <3>2. CASE u # Self
      BY <3>2, <2>1, <1>1, <1>2, <1>3 DEF CursorOK
    <3> QED BY <3>1, <3>2
  <2>3. removed' \/ uuidSetNext(lost'[Self]) <= CurNext(executed', curnext')
    <3>1. CASE u = Self /\ curnext = 0
      BY <3>1, <1>1
    <3>2. CASE curnext # 0
      BY <3>2, <2>1, <1>1 DEF CurNext, gtidSetCurrentUuidSetNext
    <3>3. CASE u # Self
      <4>1. executed'[Self] = executed[Self]
        BY <3>3, <1>2, <1>3
      <4>2. CurNext(executed', curnext') = CurNext(executed, curnext)
        BY <4>1, <1>1 DEF CurNext, gtidSetCurrentUuidSetNext
      <4> QED BY <4>2, <2>1, <1>1
    <3> QED BY <3>1, <3>2, <3>3
  <2> QED BY <2>2, <2>3, <1>1 DEF CursorInv, AbortsOnReturn
<1>7. RanInv'
  <2> SUFFICES ASSUME NEW v \in Uuids, NEW h \in Gnos
               PROVE  /\ ran'[v][h] <= 1 \/ (v = Self /\ h \in returned')
                      /\ ran'[v][h] # 0 => h \in executed'[v]
    BY DEF RanInv
  <2>1. /\ ran[v][h] <= 1 \/ (v = Self /\ h \in returned)
        /\ ran[v][h] # 0 => h \in executed[v]
    BY DEF IInv, RanInv
  <2>2. CASE v = u /\ h \in S
    <3>1. ran'[v][h] = 0
      BY <2>2, <1>1, <1>2
    <3> QED BY <3>1
  <2>3. CASE ~(v = u /\ h \in S)
    <3>1. ran'[v][h] = ran[v][h]
      BY <2>3, <1>1, <1>2
    <3>2. h \in executed[v] => h \in executed'[v]
      BY <2>3, <1>3
    <3>3. v = Self /\ h \in returned => h \in returned'
      BY <2>3, <1>1
    <3> QED BY <3>1, <3>2, <3>3, <2>1
  <2> QED BY <2>2, <2>3
<1> QED BY <1>5, <1>6, <1>7 DEF IInv

\* GTIDX REMOVE LOST: the next own gno only gets further ahead.
LEMMA RemoveLostKeeps ==
  ASSUME IInv, ~aborted, NEW u \in Uuids, NEW S \in SUBSET Gnos,
         GtidxRemoveLost(u, S)
  PROVE  IInv'
<1>1. /\ lost' = Minus(lost, u, S)
      /\ executed' = executed /\ ran' = ran
      /\ curnext' = curnext /\ aborted' = aborted
      /\ returned' = returned /\ removed' = removed
  BY DEF GtidxRemoveLost
<1>2. /\ executed \in GtidSets /\ lost \in GtidSets
      /\ curnext \in 0..(MaxGno + 1)
      /\ Self \in Uuids /\ MaxGno \in Nat
      /\ executed[Self] \in SUBSET Gnos /\ lost[Self] \in SUBSET Gnos
  BY InvTypes
<1>3. lost' \in GtidSets /\ lost'[Self] \in SUBSET lost[Self]
  BY <1>1, <1>2, PlusMinus
<1>4. TypeOK'
  BY <1>1, <1>3 DEF IInv, TypeOK
<1>5. CursorInv'
  <2>1. uuidSetNext(lost'[Self]) <= uuidSetNext(lost[Self])
    BY <1>2, <1>3, NextMonotone
  <2>2. CurNext(executed, curnext) \in Int
    BY <1>2, NextIsLeastAbove DEF CurNext, gtidSetCurrentUuidSetNext
  <2>3. uuidSetNext(lost'[Self]) \in Int /\ uuidSetNext(lost[Self]) \in Int
    BY <1>2, <1>3, NextIsLeastAbove
  <2>4. removed \/ uuidSetNext(lost'[Self]) <= CurNext(executed, curnext)
    BY <2>1, <2>2, <2>3 DEF IInv, CursorInv
  <2> QED BY <2>4, <1>1 DEF IInv, CursorInv, CursorOK, CurNext, AbortsOnReturn
<1>6. RanInv'
  BY <1>1 DEF IInv, RanInv
<1> QED BY <1>4, <1>5, <1>6 DEF IInv

\* A reset: the new executed set starts without a cursor, so both updates find
\* their assert true.
LEMMA ResetKeeps ==
  ASSUME IInv, NEW s \in Snapshots, Reset(s)
  PROVE  IInv'
<1> DEFINE x == s.executed
           l == s.lost
           c == UpdateNextGno(x, lost, 0)
           d == UpdateNextGno(x, l, c)
<1>1. x \in GtidSets /\ l \in GtidSets
  BY ConstantsAssumption
<1>2. lost \in GtidSets /\ MaxGno \in Nat /\ {} \in SUBSET Gnos
  BY InvTypes
<1>3. /\ executed' = x /\ lost' = l
      /\ curnext' = d
      /\ aborted' = ~(NextGnoAssert(x, lost, 0) /\ NextGnoAssert(x, l, c))
      /\ ran' = [u \in Uuids |-> [g \in Gnos |-> IF g \in x[u] THEN 1 ELSE 0]]
      /\ returned' = {} /\ removed' = FALSE
  BY DEF Reset, ResetSets
<1> HIDE DEF x, l
<1>4. 0 \in 0..(MaxGno + 1) /\ CursorOK(x, 0, {})
  BY <1>2 DEF CursorOK
<1>5. Updated(x, lost, c, {}) /\ AssertOK(x, lost, 0, {})
  BY <1>1, <1>2, <1>4, UpdateCorrect
<1> HIDE DEF c
<1>6. Updated(x, l, d, {}) /\ AssertOK(x, l, c, {})
  BY <1>1, <1>2, <1>5, UpdateCorrect DEF Updated
<1> HIDE DEF d
<1>7. ~aborted'
  BY <1>3, <1>5, <1>6 DEF AssertOK
<1>8. TypeOK'
  <2>1. ran' \in [Uuids -> [Gnos -> Nat]]
    BY <1>3
  <2>2. aborted' \in BOOLEAN
    BY <1>3
  <2> QED BY <2>1, <2>2, <1>1, <1>3, <1>6 DEF TypeOK, Updated
<1>9. CursorInv'
  BY <1>3, <1>6, <1>7 DEF CursorInv, CursorOK, CurNext, Updated, AbortsOnReturn
<1>10. RanInv'
  BY <1>3 DEF RanInv
<1> QED BY <1>8, <1>9, <1>10 DEF IInv

----------------------------------------------------------------------------
(* The theorems.                                                           *)

\* IInv holds in every reachable state.
THEOREM Invariance == Spec => []IInv
<1>1. Init => IInv
  <2> SUFFICES ASSUME Init PROVE IInv
    OBVIOUS
  <2>1. MaxGno \in Nat /\ Self \in Uuids
    BY ConstantsAssumption
  <2>2. TypeOK
    <3>1. EmptyGtidSet \in GtidSets
      BY DEF GtidSets, EmptyGtidSet
    <3>2. [u \in Uuids |-> [g \in Gnos |-> 0]] \in [Uuids -> [Gnos -> Nat]]
      OBVIOUS
    <3>3. 0 \in 0..(MaxGno + 1)
      BY <2>1
    <3> QED BY <3>1, <3>2, <3>3, Zenon DEF Init, TypeOK
  <2>3. executed[Self] = {} /\ lost[Self] = {} /\ curnext = 0
    BY <2>1 DEF Init, EmptyGtidSet
  <2>4. CursorInv
    BY <2>3 DEF Init, CursorInv, CursorOK, CurNext, AbortsOnReturn,
                gtidSetCurrentUuidSetNext, uuidSetNext
  <2>5. RanInv
    BY DEF Init, RanInv
  <2> QED BY <2>2, <2>4, <2>5 DEF IInv
<1>2. IInv /\ [Next]_vars => IInv'
  <2> SUFFICES ASSUME IInv, [Next]_vars PROVE IInv'
    OBVIOUS
  <2>1. executed \in GtidSets /\ lost \in GtidSets
    BY InvTypes
  <2>2. ASSUME ~aborted, OwnWrite PROVE IInv'
    BY <2>2, OwnWriteKeeps
  <2>3. ASSUME ~aborted, NEW u \in Uuids, NEW g \in Gnos, gtidCommand(u, g)
        PROVE  IInv'
    BY <2>3, CommandKeeps
  <2>4. ASSUME NEW u \in Uuids, NEW start \in Gnos, NEW end \in Gnos,
               GtidxAddExecuted(u, start..end)
        PROVE  IInv'
    BY <2>4, RangeOfGnos, AddExecutedKeeps
  <2>5. ASSUME NEW u \in Uuids, NEW start \in Gnos, NEW end \in Gnos,
               GtidxAddLost(u, start..end)
        PROVE  IInv'
    <3>1. start..end \in SUBSET Gnos
      BY RangeOfGnos
    <3>2. Plus(lost, u, start..end) \in GtidSets
      BY <3>1, <2>1, PlusMinus
    <3> QED BY <3>2, <2>5, UpdateLostKeeps DEF GtidxAddLost
  <2>6. ASSUME ~aborted, NEW u \in Uuids, NEW start \in Gnos, NEW end \in Gnos,
               GtidxRemoveExecuted(u, start..end)
        PROVE  IInv'
    BY <2>6, RangeOfGnos, RemoveExecutedKeeps
  <2>7. ASSUME ~aborted, NEW u \in Uuids, NEW start \in Gnos, NEW end \in Gnos,
               GtidxRemoveLost(u, start..end)
        PROVE  IInv'
    BY <2>7, RangeOfGnos, RemoveLostKeeps
  <2>8. ASSUME NEW delta \in GtidSets, serverGtidSetAddLost(delta)
        PROVE  IInv'
    <3>1. gtidSetMerge(lost, delta) \in GtidSets
      BY <2>1 DEF gtidSetMerge, GtidSets
    <3> QED BY <3>1, <2>8, UpdateLostKeeps DEF serverGtidSetAddLost
  <2>9. ASSUME NEW s \in Snapshots, Reset(s)
        PROVE  IInv'
    BY <2>9, ResetKeeps
  <2>10. CASE UNCHANGED vars
    BY <2>10 DEF vars, IInv, TypeOK, CursorInv, CursorOK, CurNext, AbortsOnReturn,
                 gtidSetCurrentUuidSetNext, RanInv
  <2> QED BY <2>2, <2>3, <2>4, <2>5, <2>6, <2>7, <2>8, <2>9, <2>10 DEF Next
<1> QED BY <1>1, <1>2, PTL DEF Spec

\* Type correctness, whatever the environment does.
THEOREM TypeCorrect == Spec => []TypeOK
<1>1. IInv => TypeOK
  BY DEF IInv
<1> QED BY <1>1, Invariance, PTL

\* The assert on the cursor only fails on an own gno that came back while a
\* cursor before it was set.
THEOREM CursorTheorem == Spec => []AbortsOnReturn
<1>1. IInv => AbortsOnReturn
  BY DEF IInv, CursorInv
<1> QED BY <1>1, Invariance, PTL

\* The next own gno is past every executed and every lost one, but the gnos of
\* commands that came back and what a removal took back.
THEOREM FreshTheorem == Spec => []NextIsFresh
<1>1. IInv => NextIsFresh
  BY InvFresh
<1> QED BY <1>1, Invariance, PTL

\* No command runs twice on one dataset, but an own one that came back while
\* the cursor was set.
THEOREM RunsOnceTheorem == Spec => []RunsOnce
<1>1. IInv => RunsOnce
  BY DEF IInv, RanInv, RunsOnce
<1> QED BY <1>1, Invariance, PTL

\* What a snapshot says was executed it does not also say was lost.
SnapshotsDisjoint ==
    \A s \in Snapshots, u \in Uuids : s.executed[u] \cap s.lost[u] = {}

\* No step runs a command that counts as lost before and after it, unless a
\* removal took the server's count back.
LEMMA LostStep ==
  ASSUME IInv, SnapshotsDisjoint, Next,
         NEW u \in Uuids, NEW g \in Gnos, ran'[u][g] > ran[u][g], g \in lost[u]
  PROVE  g \notin lost'[u] \/ (u = Self /\ removed)
<1>1. ran \in [Uuids -> [Gnos -> Nat]]
  BY DEF IInv, TypeOK
<1>2. Self \in Uuids /\ MaxGno \in Nat
  BY ConstantsAssumption
<1>3. ASSUME OwnWrite PROVE u = Self /\ removed
  <2> SUFFICES ASSUME ~(u = Self /\ removed) PROVE FALSE
    OBVIOUS
  <2> DEFINE gno == gtidSetCurrentUuidSetNext(executed, curnext)
  <2>1. gno \in Gnos /\ ran' = [ran EXCEPT ![Self][gno] = @ + 1]
    BY <1>3 DEF OwnWrite, Run
  <2>2. removed \/ \A h \in lost[Self] : h < gno
    BY InvFresh DEF NextIsFresh
  <2> HIDE DEF gno
  <2>3. ~(gno < gno)
    BY <2>1, <1>2 DEF Gnos
  <2>4. removed \/ gno \notin lost[Self]
    BY <2>2, <2>3
  <2>5. ~(u = Self /\ g = gno)
    BY <2>4
  <2>6. ran'[u][g] = ran[u][g]
    BY <2>5, <2>1, <1>1, <1>2
  <2> QED BY <2>6, <1>1
<1>4. ASSUME NEW v \in Uuids, NEW h \in Gnos, gtidCommand(v, h)
      PROVE  FALSE
  <2>1. h \notin lost[v] /\ ran' = [ran EXCEPT ![v][h] = @ + 1]
    BY <1>4 DEF gtidCommand, Run, serverGtidSetContains
  <2>2. ~(u = v /\ g = h)
    BY <2>1
  <2>3. ran'[u][g] = ran[u][g]
    BY <2>1, <2>2, <1>1
  <2> QED BY <2>3, <1>1
<1>5. ASSUME NEW v \in Uuids, NEW start \in Gnos, NEW end \in Gnos,
             \/ GtidxAddExecuted(v, start..end)
             \/ GtidxAddLost(v, start..end)
             \/ GtidxRemoveLost(v, start..end)
      PROVE  FALSE
  <2>1. ran' = ran
    BY <1>5 DEF GtidxAddExecuted, GtidxAddLost, GtidxRemoveLost
  <2> QED BY <2>1, <1>1
<1>6. ASSUME NEW v \in Uuids, NEW start \in Gnos, NEW end \in Gnos,
             GtidxRemoveExecuted(v, start..end)
      PROVE  FALSE
  <2> DEFINE S == start..end
  <2>1. ran' = [ran EXCEPT ![v] = [h \in Gnos |-> IF h \in S THEN 0 ELSE @[h]]]
    BY <1>6 DEF GtidxRemoveExecuted
  <2> HIDE DEF S
  <2>2. ran'[u][g] = IF u = v /\ g \in S THEN 0 ELSE ran[u][g]
    BY <2>1, <1>1
  <2> QED BY <2>2, <1>1
<1>7. ASSUME NEW delta \in GtidSets, serverGtidSetAddLost(delta)
      PROVE  FALSE
  <2>1. ran' = ran
    BY <1>7 DEF serverGtidSetAddLost
  <2> QED BY <2>1, <1>1
<1>8. ASSUME NEW s \in Snapshots, Reset(s)
      PROVE  g \notin lost'[u]
  <2>1. /\ lost' = s.lost
        /\ ran' = [v \in Uuids |-> [h \in Gnos |-> IF h \in s.executed[v] THEN 1 ELSE 0]]
    BY <1>8 DEF Reset, ResetSets
  <2>2. g \in s.executed[u]
    <3>1. g \notin s.executed[u] => ran'[u][g] = 0
      BY <2>1
    <3> QED BY <3>1, <1>1
  <2> QED BY <2>1, <2>2 DEF SnapshotsDisjoint
<1> QED BY <1>3, <1>4, <1>5, <1>6, <1>7, <1>8 DEF Next

\* With such snapshots, a command that was given up for lost does not run,
\* unless a removal took the server's count of own gnos back behind it.
THEOREM LostTheorem == SnapshotsDisjoint => (Spec => LostNeverRuns)
<1> SUFFICES ASSUME SnapshotsDisjoint PROVE Spec => LostNeverRuns
  OBVIOUS
<1> DEFINE Kept == \A u \in Uuids, g \in Gnos :
                       ran'[u][g] > ran[u][g] /\ g \in lost[u]
                           => g \notin lost'[u] \/ (u = Self /\ removed)
<1>1. IInv /\ [Next]_vars => [Kept]_vars
  BY LostStep
<1> QED BY <1>1, Invariance, PTL DEF Spec, LostNeverRuns
=============================================================================
