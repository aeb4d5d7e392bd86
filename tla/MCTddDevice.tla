---------------------------- MODULE MCTddDevice -----------------------------
(***************************************************************************)
(* TddDevice for TLC: processes and messages are interchangeable.          *)
(***************************************************************************)
EXTENDS TddDevice, TLC

Symmetry == Permutations(Procs) \cup Permutations(Msgs)
=============================================================================
