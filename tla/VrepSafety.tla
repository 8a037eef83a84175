----------------------------- MODULE VrepSafety -----------------------------
(***************************************************************************)
(* What module Vrep promises: the type invariant, the safety invariants    *)
(* and the action properties of the replication protocol.                  *)
(***************************************************************************)
EXTENDS Vrep

\* Every variable of a client ranges over what its C++ type and use allow.
TypeOK ==
    /\ here \subseteq Peer
    /\ me \in [Peer -> Avatar \cup {NoOne}]
    /\ listed \in [Peer -> SUBSET Object]
    /\ responsible \in [Peer -> [Object -> [Prop -> BOOLEAN]]]
    /\ version \in [Peer -> [Object -> [Prop -> Version]]]
    /\ value \in [Peer -> [Object -> [Prop -> Value]]]
    /\ struck \in [Peer -> SUBSET Avatar]
    /\ asked \in [Peer -> [obj : Object \cup {NoOne}, count : 0 .. QueryBurst]]
    /\ named \subseteq Volatile
    /\ net \subseteq Packet
    /\ acts \in 0 .. ActBudget /\ faults \in 0 .. FaultBudget

(***************************************************************************)
(* The local user is never lost: while a client is in the world its own    *)
(* avatar stays in its netobjectList whatever Deletes arrive (the other    *)
(* clients' time-outs, leavers) and whatever its own time-outs find.       *)
(***************************************************************************)
LocalUserSurvives ==
    \A p \in here : me[p] \in listed[p] /\ me[p] \in Avatar /\ Owner[me[p]] = p

(***************************************************************************)
(* Any client may send a Delta on the struck property of any avatar        *)
(* (User::whenIntersect); the other properties of volatile objects are     *)
(* their creator's alone.                                                  *)
(***************************************************************************)
Exclusive == {s \in Volatile \X Prop : ~(s[1] \in Avatar /\ s[2] = HitProp)}

\* The volatile objects p created that still live.  An avatar of an earlier
\* visit is not one: p may list it again, as the replica of a ghost.
Creations(p) == {o \in listed[p] \cap Volatile :
                    Owner[o] = p /\ (o \in Avatar => o = me[p])}

(***************************************************************************)
(* The creator of a volatile object keeps the responsibility of its        *)
(* properties for as long as it lists it: no Delta in the network, however *)
(* old or duplicated, and however versions wrap, takes it away.  This is   *)
(* what keeps the heart-beats going and NetTimeout from declaring the      *)
(* death of an object its creator still has.                               *)
(***************************************************************************)
CreatorResponsible ==
    \A p \in Peer : \A s \in Exclusive :
        s[1] \in Creations(p) => responsible[p][s[1]][s[2]]

(***************************************************************************)
(* Nobody but its creator is ever responsible for a volatile object, and   *)
(* he only while it lives: a replica, his own of an avatar of an earlier   *)
(* visit included, never publishes the properties of a user, ball or shot, *)
(* and two clients never fight over them with conflicting versions.        *)
(***************************************************************************)
ReplicasSilent ==
    \A p \in Peer : \A s \in Exclusive :
        s[1] \notin Creations(p) => ~responsible[p][s[1]][s[2]]

(***************************************************************************)
(* What keeps the creator's responsibility safe on the wire: a Delta on an *)
(* exclusive property comes from the object's creator and never reaches    *)
(* him, and nobody sends the creator of a ball or a shot a Create of it or *)
(* gets a Query for it from him.                                           *)
(***************************************************************************)
WireOwned ==
    \A m \in net :
        /\ m.cmd = "Delta" /\ <<m.obj, m.prop>> \in Exclusive
              => m.from = Owner[m.obj] /\ m.to # Owner[m.obj]
        /\ m.cmd = "Create" /\ m.obj \in Ball \cup Shot => m.to # Owner[m.obj]
        /\ m.cmd = "Query" /\ m.obj \in Ball \cup Shot => m.from # Owner[m.obj]

\* A client outside the world lists nothing.
OutsideEmpty == \A p \in Peer \ here : listed[p] = {}

\* The inductive invariant: the conjuncts between the first and the last are not
\* inductive alone.
OwnershipInvariant ==
    /\ TypeOK
    /\ LocalUserSurvives /\ CreatorResponsible /\ ReplicasSilent /\ WireOwned
    /\ OutsideEmpty

(***************************************************************************)
(* In a world visited by clients of this version only, the protocol for    *)
(* permanent objects never starts: nobody is ever responsible for one and  *)
(* none leaves version 0, because initProperties(false) is undone only by  *)
(* a Delta and every Delta on one needs a responsible client or a version  *)
(* that is not 0.                                                          *)
(***************************************************************************)
PermanentsDormant ==
    ~ForeignClient =>
        /\ \A p \in Peer : \A o \in Permanent : \A k \in Prop :
              ~responsible[p][o][k] /\ version[p][o][k] = 0
        /\ \A m \in net : m.cmd = "Delta" => m.obj \notin Permanent

\* n is a version after v, by at most half of the versions
After(n, v) == \E j \in 1 .. VersMod \div 2 : n = (v + j) % VersMod

(***************************************************************************)
(* A replica never runs ahead of the object's creator (as long as versions *)
(* do not wrap): the version it shows is one the creator has declared.     *)
(***************************************************************************)
NeverAhead ==
    \A p, q \in here : \A o \in Creations(p) \cap listed[q] : \A k \in Moving[o] :
        ~After(version[q][o][k], version[p][o][k])

(***************************************************************************)
(* A replica never goes back: as long as a client lists an object, a step  *)
(* leaves each of its versions alone or replaces it by a newer one, in the *)
(* cyclic order incomingDelta uses.                                        *)
(***************************************************************************)
NoRegress ==
    [][\A p \in Peer : \A o \in listed[p] \cap listed'[p] : \A k \in Prop :
          \/ version'[p][o][k] = version[p][o][k]
          \/ After(version'[p][o][k], version[p][o][k])]_vars

(***************************************************************************)
(* Responsibility for a property is given up only to a client that holds a *)
(* newer version of it: a step that clears the flag raises the version, or *)
(* the object is gone from the list.                                       *)
(***************************************************************************)
YieldsToNewer ==
    [][\A p \in Peer : \A o \in listed[p] \cap listed'[p] : \A k \in Prop :
          responsible[p][o][k] /\ ~responsible'[p][o][k]
            => After(version'[p][o][k], version[p][o][k])]_vars
=============================================================================
