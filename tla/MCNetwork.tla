----------------------------- MODULE MCNetwork ------------------------------
(***************************************************************************)
(* Finite instances of Network.                                            *)
(***************************************************************************)
EXTENDS Network
=============================================================================
