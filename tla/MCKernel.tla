------------------------------ MODULE MCKernel ------------------------------
(* The process table and the scheduler on small instances. *)
EXTENDS Kernel
=============================================================================
