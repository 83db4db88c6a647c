---------------------------- MODULE MCServerGtid ----------------------------
(***************************************************************************)
(* ServerGtid for TLC: the server's own uuid and one other, three gnos.    *)
(* A reset installs empty sets (the server switches to xsync) or what a    *)
(* master's snapshot holds: per uuid a run of executed gnos and a run of   *)
(* lost ones after it.                                                     *)
(***************************************************************************)
EXTENDS ServerGtid

CONSTANTS self, other
MCUuids == {self, other}

MCSnapshots ==
    {[executed |-> [u \in MCUuids |-> 1..e[u]],
      lost |-> [u \in MCUuids |-> (e[u] + 1)..l[u]]] :
        e \in [MCUuids -> 0..2], l \in [MCUuids -> {0, 3}]}

\* Bound: the other uuid only uses two gnos.
OtherBound == executed[other] \cup lost[other] \subseteq 1..2
=============================================================================
