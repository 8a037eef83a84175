------------------------------- MODULE MCScene -------------------------------
(***************************************************************************)
(* Scene for TLC: the local user and another one.                          *)
(***************************************************************************)
EXTENDS Scene

CONSTANTS u1, u2
=============================================================================
