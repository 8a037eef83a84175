-------------------------------- MODULE MCVacs --------------------------------
(***************************************************************************)
(* Vacs for TLC: four worlds on the web, one of them the manager, and one  *)
(* in a file.                                                              *)
(***************************************************************************)
EXTENDS Vacs

ASSUME EnoughChannels == Enough

CONSTANTS manager, w1, w2, w3, local
=============================================================================
