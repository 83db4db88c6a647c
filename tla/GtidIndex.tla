----------------------------- MODULE GtidIndex ------------------------------
(***************************************************************************)
(* What a gtidSeq promises: an index of the replication stream, one entry  *)
(* per command that carries a gtid, at the offset the command begins at.   *)
(* Entries leave it from the front only, when the backlog forgets them.    *)
(* Xsync and Psync are the questions a master asks of it.                  *)
(***************************************************************************)
EXTENDS Integers

CONSTANTS Uuids,     \* source ids of the commands in the stream
          MaxGno,    \* bound on the gnos appended
          MaxOffset  \* bound on the stream

VARIABLES idx,       \* the entries
          next       \* the offset of the next command

Entry == [uuid : Uuids, gno : 1..MaxGno, offset : 1..MaxOffset]

Init == idx = {} /\ next = 1

\* A command with (without) a gtid enters the stream.
Append(u, g) ==
    /\ idx' = idx \cup {[uuid |-> u, gno |-> g, offset |-> next]}
    /\ next' > next

Feed == next' > next /\ UNCHANGED idx

Trim == /\ \E until \in 1..next : idx' = {e \in idx : e.offset >= until}
        /\ UNCHANGED next

Recreate == idx' = {} /\ UNCHANGED next

Next == \/ \E u \in Uuids, g \in 1..MaxGno : Append(u, g)
        \/ Feed \/ Trim \/ Recreate

Spec == Init /\ [][Next]_<<idx, next>>

----------------------------------------------------------------------------
\* Where to continue for a replica that has, of each uuid u, every gno below
\* need[u]: from the first entry after the last one the replica has already.
\* Everything from there on is new to it.
Lacking(I, need) ==
    LET had == {e \in I : e.gno < need[e.uuid]}
    IN  {e \in I : \A h \in had : h.offset < e.offset}

\* The entries at or after an offset.
From(I, offset) == {e \in I : e.offset >= offset}
=============================================================================
