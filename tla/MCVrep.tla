------------------------------- MODULE MCVrep -------------------------------
(***************************************************************************)
(* Small instances of Vrep for TLC.  Property 0 is the name of an object   *)
(* (static), 1 its place, 2 the one a strike is sent on.                   *)
(***************************************************************************)
EXTENDS VrepLive

CONSTANTS p1, p2,             \* clients
          a1, a2, s1, d1      \* p1's and p2's avatars, a shot of p1's, a door

OwnerMC ==
    [o \in Volatile |-> IF o = a2 THEN p2 ELSE p1]

\* Only the permanent objects refreshed; a lift, whose first property moves
TimedQuiet == [o \in Object |-> IF o \in Permanent THEN {0} ELSE {}]
MovingLift == [o \in Object |-> IF o \in Permanent THEN {0} ELSE {}]

\* Every object has one property, its place
TimedPlace == [o \in Object |-> {0}]

\* User: PROPBEGINVAR .. PROPENDVAR; other objects: every property they have
TimedMC == [o \in Object |-> IF o \in Avatar THEN {1} ELSE {0, 1}]
MovingMC == [o \in Object |-> {1}]

\* Every client draws the step 1; or p1 draws 1 and the others 2
DrawsOne == [p \in Peer |-> {1}]
DrawsApart == [p \in Peer |-> IF p = p1 THEN {1} ELSE {2}]

\* Bound of the larger instances: packets under way at any time
SmallNet == Cardinality(net) <= 3
=============================================================================
