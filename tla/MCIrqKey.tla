------------------------------ MODULE MCIrqKey ------------------------------
(***************************************************************************)
(* IrqKey for TLC: processes are interchangeable.                          *)
(***************************************************************************)
EXTENDS IrqKey, TLC

ProcSymmetry == Permutations(Procs)
=============================================================================
