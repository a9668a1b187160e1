------------------------------ MODULE MCSampler ------------------------------
(***************************************************************************)
(* Finite instances of Sampler.                                            *)
(***************************************************************************)
EXTENDS Sampler
=============================================================================
