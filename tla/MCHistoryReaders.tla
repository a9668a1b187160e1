-------------------------- MODULE MCHistoryReaders --------------------------
(***************************************************************************)
(* Finite instances of HistoryReaders.                                     *)
(***************************************************************************)
EXTENDS HistoryReaders

NoTears == {}
TornOnly == {"torn"}
=============================================================================
