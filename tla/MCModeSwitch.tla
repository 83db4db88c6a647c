---------------------------- MODULE MCModeSwitch ----------------------------
(***************************************************************************)
(* ModeSwitch for TLC.                                                     *)
(***************************************************************************)
EXTENDS ModeSwitch

CONSTANTS s1, s2, s3
TwoServers == {s1, s2}
ThreeServers == {s1, s2, s3}
=============================================================================
