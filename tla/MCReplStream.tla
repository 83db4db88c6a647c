---------------------------- MODULE MCReplStream ----------------------------
(***************************************************************************)
(* ReplStream for TLC: the server's own uuid and one other, three gtids,    *)
(* a backlog of three bytes and a stream long enough to wrap it.           *)
(***************************************************************************)
EXTENDS ReplStream

CONSTANTS self, other
MCUuids == {self, other}
MCGtids == {<<self, 1>>, <<other, 1>>, <<other, 2>>}

\* Empty sets (gtid-enabled turned on), or what a master sends.
MCSnapshots == {[executed |-> {}, lost |-> {}],
                [executed |-> {<<self, 1>>}, lost |-> {<<other, 1>>}]}
=============================================================================
