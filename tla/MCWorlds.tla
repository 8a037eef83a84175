------------------------------- MODULE MCWorlds -------------------------------
(***************************************************************************)
(* Worlds for TLC: up to four urls, and two channels for any of them.      *)
(***************************************************************************)
EXTENDS Worlds

CONSTANTS u1, u2, u3, u4, c1, c2
=============================================================================
