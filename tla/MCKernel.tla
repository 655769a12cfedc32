------------------------------ MODULE MCKernel ------------------------------
(* Instances of Kernel for TLC: processes are interchangeable.             *)
EXTENDS Kernel, TLC

ProcessSymmetry == Permutations(Processes)
=============================================================================
