------------------------------ MODULE MCAiQueue ------------------------------
(* Finite instances of AiQueue for TLC: the bounds are in the .cfg files. *)
EXTENDS AiQueue
=============================================================================
