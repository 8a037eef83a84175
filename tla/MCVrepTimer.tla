---------------------------- MODULE MCVrepTimer ----------------------------
(***************************************************************************)
(* Small instances of VrepTimer for TLC, with refresh delays of 1 to 3     *)
(* periods of NetTimeout's timer.                                          *)
(***************************************************************************)
EXTENDS VrepTimer, FiniteSets

CONSTANTS c, q, r                  \* clients: the creator and two others

\* The shortest and (almost) the longest assume delay
Extremes == {0, 3 * Refresh - 1}

\* The user moves once, or stands still
OneMove == [k \in Prop |-> IF k = 0 THEN 1 ELSE 0]
NoMove == [k \in Prop |-> 0]

\* Bounds of the run with ghosts: the user leaves early, few packets are under way
ShortVisit == (Alive => now <= 2 * Refresh + 1) /\ Cardinality(wire) <= 4
=============================================================================
