---------------------------- MODULE MCForkServer ----------------------------
(***************************************************************************)
(* ForkServer for TLC: the build with one instruction and zeroed memory,   *)
(* and the one with neither.                                               *)
(***************************************************************************)
EXTENDS ForkServer

OppositeBuilds == {<<TRUE, TRUE>>, <<FALSE, FALSE>>}
=============================================================================
