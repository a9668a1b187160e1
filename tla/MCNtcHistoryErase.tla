------------------------- MODULE MCNtcHistoryErase --------------------------
(***************************************************************************)
(* Finite instances of NtcHistoryErase.                                    *)
(***************************************************************************)
EXTENDS NtcHistoryErase

TornOnly == {"torn"}
=============================================================================
