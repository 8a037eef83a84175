------------------------------ MODULE VrepLive ------------------------------
(***************************************************************************)
(* What the protocol of module Vrep eventually achieves, and the fairness  *)
(* it takes:                                                               *)
(*  - a packet under way is handled in the end (select() serves the socket *)
(*    between two frames), unless FaultBudget lets it be lost;             *)
(*  - a client in the world sends its heart-beats (net_timer runs for      *)
(*    ever, every half second);                                            *)
(*  - assume_at passes for a property nobody refreshes.                    *)
(* Nothing is assumed of the users: they may never move, leave or enter.   *)
(***************************************************************************)
EXTENDS VrepSafety

\* Packets to one client that are of one command and on one object
Kind(m) == <<m.cmd, m.obj>>

Kinds == {"Delta", "Create", "Query", "Delete"} \X Object

Handled(p, kind) == \E m \in net : Kind(m) = kind /\ Handle(p, m)

\* p refreshes all it is responsible for
Beat(p) == LET mine == {s \in Scanned(p) : Mine(p, s)}
           IN  NetTimeout(p, mine, <<>>)

\* Nobody refreshes s: a volatile object whose creator is gone, a permanent
\* one nobody is responsible for
Unattended(s) ==
    IF s[1] \in Permanent
    THEN \A q \in here : ~Mine(q, s)
    ELSE s[1] \notin Creations(Owner[s[1]])

\* p's delay is over for a property nobody refreshes
Expire(p, s) ==
    /\ s \in Scanned(p) /\ ~Mine(p, s) /\ Unattended(s)
    /\ \E draw \in [Assumed(p, {s}) -> Draws[p]] : NetTimeout(p, {s}, draw)

Fairness ==
    \A p \in Peer :
        /\ \A kind \in Kinds : WF_vars(Handled(p, kind))
        /\ SF_vars(Beat(p))
        /\ \A s \in Object \X Prop : s[2] \in Timed[s[1]] => SF_vars(Expire(p, s))

FairSpec == Spec /\ Fairness

(***************************************************************************)
(* Packets in time: assume_at passes at least min_assume_delay (twice the  *)
(* refresh delay) after the last Delta, so in the end a client assumes the *)
(* responsibility of no permanent property whose heart-beats reach it.     *)
(***************************************************************************)
Refreshed(p, s) ==
    \E q \in Others(p) :
        Mine(q, s) /\ ~Outdated(version[q][s[1]][s[2]], version[p][s[1]][s[2]])

Hasty == \E p \in here : \E s \in Permanent \X Prop :
            ~Mine(p, s) /\ Refreshed(p, s) /\ responsible'[p][s[1]][s[2]]

TimelySpec == FairSpec /\ <>[][~Hasty]_vars
-----------------------------------------------------------------------------
(***************************************************************************)
(* Users meet: an avatar in the world ends up listed by every client that  *)
(* stays, though its entry is announced to nobody and packets may be lost: *)
(* its heart-beats bring the Query, the Query brings the Create.           *)
(***************************************************************************)
UsersMeet ==
    \A o \in Avatar : \A q \in Peer \ {Owner[o]} :
        (me[Owner[o]] = o /\ q \in here) ~>
            (o \in listed[q] \/ me[Owner[o]] # o \/ q \notin here)

(***************************************************************************)
(* Ghosts vanish: once users have stopped coming and going, no client      *)
(* lists a volatile object whose creator left, crashed or deleted it, even *)
(* if the Delete was lost or a late Create brought it back.                *)
(***************************************************************************)
GhostsVanish ==
    <>[](\A q \in here : \A o \in listed[q] \cap Volatile : o \in Creations(Owner[o]))

(***************************************************************************)
(* Replicas catch up: once users have stopped moving, whoever lists an     *)
(* avatar has taken the last change its user declared, on all the          *)
(* properties NetTimeout refreshes, whichever packets were lost and        *)
(* overtaken.  (Its value may still differ by what nobody declares.)       *)
(***************************************************************************)
ReplicasCatchUp ==
    <>[](\A p, q \in here : \A o \in Creations(p) \cap Avatar \cap listed[q] :
            \A k \in Timed[o] : version[q][o][k] = version[p][o][k])

(***************************************************************************)
(* A permanent property that somebody holds in a later version than the    *)
(* initial one gets a responsible client again after its own has left.     *)
(***************************************************************************)
VersionAssumed ==
    \A o \in Permanent : \A k \in Prop :
        (\E p \in here : version[p][o][k] # 0) ~>
            \/ \E p \in here : responsible[p][o][k]
            \/ \A p \in here : version[p][o][k] = 0

(***************************************************************************)
(* Conflicts end: of the clients that assumed responsibility for the same  *)
(* permanent property at the same time, one is left responsible, provided  *)
(* their random version steps differ.                                      *)
(***************************************************************************)
ConflictsEnd ==
    <>[](\A p, q \in here : \A o \in Permanent : \A k \in Prop :
            responsible[p][o][k] /\ responsible[q][o][k] => p = q)
=============================================================================
