------------------------------ MODULE MCFrHeap ------------------------------
(* A small arena: bins of 32, 64 and 128 bytes, and one no block can have.  *)
EXTENDS FrHeap
==============================================================================
