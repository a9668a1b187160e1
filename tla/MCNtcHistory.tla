---------------------------- MODULE MCNtcHistory ----------------------------
(***************************************************************************)
(* Finite instances of NtcHistory.                                         *)
(***************************************************************************)
EXTENDS NtcHistoryRing

NoTears == {}
TornOnly == {"torn"}
=============================================================================
