----------------------------- MODULE MCRtpSources -----------------------------
(***************************************************************************)
(* RtpSources with sequence numbers of three bits: two turns and a half;   *)
(* two senders, and hosts of either byte order.                            *)
(***************************************************************************)
EXTENDS RtpSources, TLC

CONSTANTS me, x, y, xraw

\* Heap memory that was never used, and memory with something in it
Used == {0, 2}

\* y's host has the byte order of the network
Swapped == x :> xraw @@ y :> y
=============================================================================
