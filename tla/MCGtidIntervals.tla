-------------------------- MODULE MCGtidIntervals ---------------------------
(***************************************************************************)
(* GtidIntervals and GtidSets for TLC: two uuidSets over the gnos          *)
(* 1..MaxGno.  Six gnos give lists of up to three nodes, so that one Add   *)
(* joins several nodes and one Remove cuts two and unlinks one between     *)
(* them.                                                                   *)
(***************************************************************************)
EXTENDS GtidSets

CONSTANTS a, b
MCLists == {a, b}
=============================================================================
