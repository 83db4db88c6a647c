---------------------------- MODULE MCXsyncRepl -----------------------------
(***************************************************************************)
(* XsyncRepl for TLC.                                                      *)
(***************************************************************************)
EXTENDS XsyncRepl, TLC

CONSTANTS s1, s2, s3
ThreeServers == {s1, s2, s3}
Symmetry == Permutations(Servers)

\* A state too far from Init for the MaxDisruptions of the runs: a, once a
\* master, was resynced without the two writes b still has.  The way there: b
\* and then c are masters, write once, and all have both writes; a is promoted
\* and writes twice, and b, its replica, loses its backlog between the two; c
\* loses its own, and a becomes a replica of c, too far apart for a
\* continuation; b is promoted, and the links break.  With only <<a, 2>> in its
\* backlog, b will tell a to count <<a, 1>> as lost, and then send <<a, 2>>.
FormerMaster(a, b, c) ==
    LET own == {<<a, 1>>, <<a, 2>>}
        others == {<<b, 1>>, <<c, 1>>}
    IN  /\ executed = [s \in Servers |-> others \cup IF s = b THEN own ELSE {}]
        /\ lost = [s \in Servers |-> {}] /\ curnext = [s \in Servers |-> 0]
        /\ log = [s \in Servers |-> IF s = b THEN << <<a, 2>> >> ELSE <<>>]
        /\ master = [s \in Servers |-> IF s = b THEN None ELSE IF s = a THEN c ELSE b]
        /\ conn = [s \in Servers |-> Closed] /\ disruptions = 0
        /\ written = others \cup own /\ forgotten = own
        /\ reused = {} /\ returned = {}

LaterInit == \E a, b, c \in Servers : Cardinality({a, b, c}) = 3 /\ FormerMaster(a, b, c)
LaterSpec == LaterInit /\ [][Next]_vars
MCSpec == (Init \/ LaterInit) /\ [][Next]_vars
=============================================================================
