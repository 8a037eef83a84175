----------------------------- MODULE VrepVersion -----------------------------
(***************************************************************************)
(* Property versions of the VREP protocol.                                 *)
(*                                                                         *)
(* A property carries an int16_t version (net/netprop.hpp).  Versions are  *)
(* kept here as residues 0 .. VersMod-1 (VersMod is 2^16 in the code: the  *)
(* residue v stands for the int16_t congruent to v).  incomingDelta        *)
(* compares two versions by their difference truncated to an int16_t, and  *)
(* declareObjDelta draws the next version at random.                       *)
(***************************************************************************)
EXTENDS Integers

CONSTANTS VersMod,      \* number of versions: 2^16 in the code
          VersJump      \* VREP_VERS_JUMP: the largest step of a version (10)

ASSUME VersionAssumption ==
    /\ VersMod \in Nat /\ VersMod >= 4 /\ VersMod % 2 = 0
    /\ VersJump \in 1 .. (VersMod \div 2 - 1)

Version == 0 .. VersMod - 1

(***************************************************************************)
(* int16_t d = pprop->version - vers_id: the difference of the two,        *)
(* reduced to the range -VersMod/2 .. VersMod/2 - 1 of the signed type.    *)
(***************************************************************************)
Distance(mine, received) ==
    LET d == (mine - received) % VersMod
    IN  IF d >= VersMod \div 2 THEN d - VersMod ELSE d

\* Mutants: the sign of d, and d = 0, forgotten
NewerEitherSide(received, mine) == Distance(mine, received) # 0
NewerOrSame(received, mine) == Distance(mine, received) <= 0

\* d < 0: the version received is the more recent one
Newer(received, mine) == Distance(mine, received) < 0

\* d > 0: mine is the more recent one, the packet is dropped
Outdated(received, mine) == Distance(mine, received) > 0

\* pprop->version += j
Bump(v, j) == (v + j) % VersMod

\* 1 + abs(rand() % VREP_VERS_JUMP)
Jump == 1 .. VersJump
=============================================================================
