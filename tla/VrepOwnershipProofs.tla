------------------------ MODULE VrepOwnershipProofs ------------------------
(***************************************************************************)
(* Who is responsible for what, for any number of clients, objects,        *)
(* packets and faults.  Volatile objects: the invariants LocalUserSurvives,*)
(* CreatorResponsible and ReplicasSilent of module VrepSafety, proved by   *)
(* the inductive OwnershipInvariant.  Permanent ones: PermanentsDormant,   *)
(* proved by DormantInvariant.                                             *)
(***************************************************************************)
EXTENDS VrepProofs

-----------------------------------------------------------------------------
(* The flags of the exclusive properties. *)

LEMMA ExclusivePairs ==
    /\ \A s \in Exclusive : /\ s = <<s[1], s[2]>>
                            /\ s[1] \in Volatile /\ s[1] \in Object /\ s[2] \in Prop
                            /\ Owner[s[1]] \in Peer
    /\ \A o \in Volatile, k \in Prop :
          <<o, k>> \in Exclusive <=> ~(o \in Avatar /\ k = HitProp)
    /\ \A o \in Ball \cup Shot, k \in Prop : <<o, k>> \in Exclusive
BY NamesAssumption DEF Exclusive, Object, Volatile

(***************************************************************************)
(* What they make of the flags of the exclusive properties, as formulas:   *)
(* set for the objects or pairs of S, cleared for the objects of S.        *)
(***************************************************************************)
LEMMA FlagsSet ==
    ASSUME TypeOK, NEW p \in Peer, NEW S,
           responsible' = Whole(responsible, p, S, AllProps(TRUE))
    PROVE  \A q \in Peer, s \in Exclusive :
              responsible'[q][s[1]][s[2]]
                 <=> responsible[q][s[1]][s[2]] \/ (q = p /\ s[1] \in S)
<1>. SUFFICES ASSUME NEW q \in Peer, NEW s \in Exclusive
              PROVE  responsible'[q][s[1]][s[2]]
                 <=> responsible[q][s[1]][s[2]] \/ (q = p /\ s[1] \in S)
  OBVIOUS
<1>1. s[1] \in Object /\ s[2] \in Prop
  BY ExclusivePairs
<1>2. responsible \in [Peer -> [Object -> [Prop -> BOOLEAN]]]
  BY DEF TypeOK
<1>3. responsible'[q][s[1]] =
        IF q = p /\ s[1] \in S THEN AllProps(TRUE) ELSE responsible[q][s[1]]
  BY <1>1, <1>2 DEF Whole
<1>. QED
  BY <1>1, <1>3 DEF AllProps

LEMMA FlagsCleared ==
    ASSUME TypeOK, NEW p \in Peer, NEW S,
           responsible' = Whole(responsible, p, S, AllProps(FALSE))
    PROVE  \A q \in Peer, s \in Exclusive :
              responsible'[q][s[1]][s[2]]
                 <=> responsible[q][s[1]][s[2]] /\ ~(q = p /\ s[1] \in S)
<1>. SUFFICES ASSUME NEW q \in Peer, NEW s \in Exclusive
              PROVE  responsible'[q][s[1]][s[2]]
                 <=> responsible[q][s[1]][s[2]] /\ ~(q = p /\ s[1] \in S)
  OBVIOUS
<1>1. s[1] \in Object /\ s[2] \in Prop
  BY ExclusivePairs
<1>2. responsible \in [Peer -> [Object -> [Prop -> BOOLEAN]]]
  BY DEF TypeOK
<1>3. responsible'[q][s[1]] =
        IF q = p /\ s[1] \in S THEN AllProps(FALSE) ELSE responsible[q][s[1]]
  BY <1>1, <1>2 DEF Whole
<1>. QED
  BY <1>1, <1>3 DEF AllProps

LEMMA FlagsDeclared ==
    ASSUME TypeOK, NEW p \in Peer, NEW S, NEW q \in Peer, NEW s \in Exclusive
    PROVE  Updated(responsible, p, S, TRUE)[q][s[1]][s[2]]
              <=> responsible[q][s[1]][s[2]] \/ (q = p /\ s \in S)
<1>1. s[1] \in Object /\ s[2] \in Prop /\ s = <<s[1], s[2]>>
  BY ExclusivePairs
<1>2. responsible \in [Peer -> [Object -> [Prop -> BOOLEAN]]]
  BY DEF TypeOK
<1>3. Updated(responsible, p, S, TRUE)[q][s[1]][s[2]] =
        IF q = p /\ <<s[1], s[2]>> \in S THEN TRUE ELSE responsible[q][s[1]][s[2]]
  BY <1>1, <1>2 DEF Updated
<1>. QED
  BY <1>1, <1>3

(***************************************************************************)
(* Strike and NetTimeout set the flags of some pairs, none of them         *)
(* another client's exclusive property, and clear those of some objects.   *)
(***************************************************************************)
LEMMA FlagsDeclaredCleared ==
    ASSUME TypeOK, NEW p \in Peer, NEW S, NEW T,
           responsible' = Whole(Updated(responsible, p, S, TRUE), p, T,
                                AllProps(FALSE)),
           \A s \in S : s \notin Exclusive
    PROVE  \A q \in Peer, s \in Exclusive :
              responsible'[q][s[1]][s[2]]
                 <=> responsible[q][s[1]][s[2]] /\ ~(q = p /\ s[1] \in T)
<1>. SUFFICES ASSUME NEW q \in Peer, NEW s \in Exclusive
              PROVE  responsible'[q][s[1]][s[2]]
                 <=> responsible[q][s[1]][s[2]] /\ ~(q = p /\ s[1] \in T)
  OBVIOUS
<1>. DEFINE u == Updated(responsible, p, S, TRUE)
<1>1. s[1] \in Object /\ s[2] \in Prop
  BY ExclusivePairs
<1>2. u \in [Peer -> [Object -> [Prop -> BOOLEAN]]]
  BY UpdatedType DEF TypeOK
<1>3. u[q][s[1]][s[2]] <=> responsible[q][s[1]][s[2]]
  BY FlagsDeclared
<1>. HIDE DEF u
<1>4. responsible'[q][s[1]] =
        IF q = p /\ s[1] \in T THEN AllProps(FALSE) ELSE u[q][s[1]]
  BY <1>1, <1>2 DEF Whole, u
<1>. QED
  BY <1>1, <1>3, <1>4 DEF AllProps

(***************************************************************************)
(* A step keeps the two ownership invariants if it makes no new creation   *)
(* of a client but with its responsibility, clears the flag of no creation *)
(* and leaves it set for creations only.                                   *)
(***************************************************************************)
LEMMA OwnershipKept ==
    ASSUME OwnershipInvariant,
           \A q \in Peer : \A s \in Exclusive :
              /\ s[1] \in Creations(q)' /\ s[1] \notin Creations(q)
                    => responsible'[q][s[1]][s[2]]
              /\ s[1] \in Creations(q)' /\ responsible[q][s[1]][s[2]]
                    => responsible'[q][s[1]][s[2]]
              /\ responsible'[q][s[1]][s[2]] => s[1] \in Creations(q)'
    PROVE  CreatorResponsible' /\ ReplicasSilent'
<1>1. CreatorResponsible'
  <2>. SUFFICES ASSUME NEW q \in Peer, NEW s \in Exclusive, s[1] \in Creations(q)'
                PROVE  responsible'[q][s[1]][s[2]]
    BY DEF CreatorResponsible, Exclusive
  <2>. QED
    BY DEF OwnershipInvariant, CreatorResponsible
<1>2. ReplicasSilent'
  BY DEF ReplicasSilent, Exclusive
<1>. QED
  BY <1>1, <1>2

\* The objects of S leave p's list and their flags are cleared
LEMMA OwnershipForgotten ==
    ASSUME OwnershipInvariant, NEW p \in Peer, NEW S,
           \A q \in Peer : Creations(q)' = Creations(q) \ (IF q = p THEN S ELSE {}),
           \A q \in Peer, s \in Exclusive :
              responsible'[q][s[1]][s[2]]
                 <=> responsible[q][s[1]][s[2]] /\ ~(q = p /\ s[1] \in S)
    PROVE  CreatorResponsible' /\ ReplicasSilent'
<1>1. \A q \in Peer, s \in Exclusive :
        /\ s[1] \in Creations(q)' => s[1] \in Creations(q) /\ ~(q = p /\ s[1] \in S)
        /\ responsible'[q][s[1]][s[2]] => s[1] \in Creations(q)'
  BY DEF OwnershipInvariant, ReplicasSilent
<1>. QED
  BY <1>1, OwnershipKept

\* Steps that leave the list and the flags of every client alone
LEMMA OwnershipUnchanged ==
    ASSUME OwnershipInvariant, UNCHANGED <<here, me, listed, responsible>>
    PROVE  LocalUserSurvives' /\ CreatorResponsible' /\ ReplicasSilent'
BY DEF OwnershipInvariant, LocalUserSurvives, CreatorResponsible, ReplicasSilent,
       Creations, Exclusive

-----------------------------------------------------------------------------
(* The network: a step keeps WireOwned if every packet it adds is owned. *)

Owned(m) ==
    /\ m.cmd = "Delta" /\ <<m.obj, m.prop>> \in Exclusive
          => m.from = Owner[m.obj] /\ m.to # Owner[m.obj]
    /\ m.cmd = "Create" /\ m.obj \in Ball \cup Shot => m.to # Owner[m.obj]
    /\ m.cmd = "Query" /\ m.obj \in Ball \cup Shot => m.from # Owner[m.obj]

LEMMA WireKept ==
    ASSUME OwnershipInvariant, NEW sent, net' \subseteq net \cup sent,
           \A m \in sent : Owned(m)
    PROVE  WireOwned'
<1>. SUFFICES \A m \in net' : Owned(m)
  BY DEF WireOwned, Owned, Exclusive
<1>1. \A m \in net : Owned(m)
  BY DEF OwnershipInvariant, WireOwned, Owned
<1>. QED
  BY <1>1

\* A step that sends nothing
LEMMA WireUnchanged ==
    ASSUME OwnershipInvariant, net' \subseteq net
    PROVE  WireOwned'
BY DEF OwnershipInvariant, WireOwned, Exclusive

\* Deltas of p are owned if it sends none on another client's exclusive property.
LEMMA DeltasOwned ==
    ASSUME NEW p, NEW S, S \subseteq Object \X Prop,
           NEW n, NEW x, \A s \in S : s \in Exclusive => Owner[s[1]] = p
    PROVE  \A m \in Deltas(p, S, n, x) : Owned(m)
<1>. SUFFICES ASSUME NEW q \in Others(p), NEW s \in S
              PROVE  Owned(DeltaPacket(q, p, s[1], s[2], n[s[1]][s[2]], x[s[1]][s[2]]))
  BY DEF Deltas
<1>1. q # p /\ s = <<s[1], s[2]>>
  BY DEF Others
<1>. QED
  BY <1>1 DEF DeltaPacket, Owned

LEMMA DeletesOwned ==
    ASSUME NEW p, NEW S
    PROVE  \A m \in Deletes(p, S) : Owned(m)
BY DEF Deletes, DeletePacket, Owned
-----------------------------------------------------------------------------
(* One lemma per action. *)

LEMMA EnterOwnership ==
    ASSUME OwnershipInvariant, NEW p \in Peer, NEW o \in Avatar, Enter(p, o)
    PROVE  LocalUserSurvives' /\ CreatorResponsible' /\ ReplicasSilent' /\ WireOwned'
<1>. USE DEF OwnershipInvariant
<1>1. LocalUserSurvives'
  BY DEF Enter, LocalUserSurvives, TypeOK
<1>2. \A q \in Peer, s \in Exclusive :
        responsible'[q][s[1]][s[2]]
            <=> responsible[q][s[1]][s[2]] \/ (q = p /\ s[1] \in {o})
  BY FlagsSet, ZenonT(30) DEF Enter
<1>3. \A q \in Peer : q # p => Creations(q)' = Creations(q)
  BY DEF Enter, Creations, TypeOK
<1>4. Creations(p)' = {o} /\ Creations(p) = {}
  <2>1. /\ listed[p] = {} /\ Owner[o] = p
        /\ listed'[p] = Permanent \cup {o} /\ me'[p] = o
    BY DEF Enter, TypeOK, OutsideEmpty
  <2>. QED
    BY <2>1, NamesAssumption DEF Creations, Volatile
<1>5. CreatorResponsible' /\ ReplicasSilent'
  <2>1. Owner[o] = p
    BY DEF Enter
  <2>. QED
    BY <1>2, <1>3, <1>4, <2>1, OwnershipKept DEF ReplicasSilent
<1>6. WireOwned'
  <2>1. net' \subseteq net
    BY DEF Enter
  <2>. QED
    BY <2>1, WireUnchanged
<1>. QED
  BY <1>1, <1>5, <1>6

LEMMA ThrowOwnership ==
    ASSUME OwnershipInvariant, NEW p \in Peer, NEW o \in Ball \cup Shot, Throw(p, o)
    PROVE  LocalUserSurvives' /\ CreatorResponsible' /\ ReplicasSilent' /\ WireOwned'
<1>. USE DEF OwnershipInvariant
<1>1. LocalUserSurvives'
  BY DEF Throw, List, LocalUserSurvives, TypeOK
<1>2. \A q \in Peer, s \in Exclusive :
        responsible'[q][s[1]][s[2]]
            <=> responsible[q][s[1]][s[2]] \/ (q = p /\ s[1] \in {o})
  BY FlagsSet DEF Throw, List
<1>3. \A q \in Peer : Creations(q)' = Creations(q) \cup (IF q = p THEN {o} ELSE {})
  BY NamesAssumption DEF Throw, List, Creations, TypeOK, Volatile
<1>4. Owner[o] = p
  BY DEF Throw
<1>5. CreatorResponsible' /\ ReplicasSilent'
  BY <1>2, <1>3, <1>4, OwnershipKept DEF ReplicasSilent
<1>6. WireOwned'
  <2>. DEFINE sent == {CreatePacket(q, p, o, AllProps(0), AllProps(Start)) :
                          q \in Others(p)}
  <2>1. \A m \in sent : Owned(m)
    BY <1>4 DEF CreatePacket, Owned, Others
  <2>2. net' \subseteq net \cup sent
    BY DEF Throw
  <2>. QED
    BY <2>1, <2>2, WireKept
<1>. QED
  BY <1>1, <1>5, <1>6

\* declareObjDelta on pairs that p owns or that are not exclusive
LEMMA DeclareOwnership ==
    ASSUME OwnershipInvariant, NEW p \in Peer, NEW S, S \subseteq Object \X Prop,
           NEW draw, NEW vals, Declare(p, S, draw, vals),
           UNCHANGED <<here, me, listed>>,
           \A s \in S : s \in Exclusive => s[1] \in Creations(p)
    PROVE  /\ LocalUserSurvives' /\ CreatorResponsible' /\ ReplicasSilent'
           /\ \A m \in DeclareDeltas(p, S, draw, vals) : Owned(m)
<1>. USE DEF OwnershipInvariant
<1>1. LocalUserSurvives'
  BY DEF LocalUserSurvives
<1>2. \A q \in Peer, s \in Exclusive :
        responsible'[q][s[1]][s[2]]
            <=> responsible[q][s[1]][s[2]] \/ (q = p /\ s \in S)
  <2>1. responsible' = Updated(responsible, p, S, TRUE)
    BY DEF Declare
  <2>. SUFFICES ASSUME NEW q \in Peer, NEW s \in Exclusive
                PROVE  responsible'[q][s[1]][s[2]]
                   <=> responsible[q][s[1]][s[2]] \/ (q = p /\ s \in S)
    OBVIOUS
  <2>2. Updated(responsible, p, S, TRUE)[q][s[1]][s[2]]
           <=> responsible[q][s[1]][s[2]] \/ (q = p /\ s \in S)
    BY FlagsDeclared
  <2>. QED
    BY <2>1, <2>2
<1>3. \A q \in Peer : Creations(q)' = Creations(q)
  BY DEF Creations
<1>4. \A q \in Peer, s \in Exclusive :
        /\ responsible[q][s[1]][s[2]] => responsible'[q][s[1]][s[2]]
        /\ responsible'[q][s[1]][s[2]] => s[1] \in Creations(q)'
  BY <1>2, <1>3 DEF ReplicasSilent
<1>5. CreatorResponsible' /\ ReplicasSilent'
  BY <1>3, <1>4, OwnershipKept
<1>. QED
  BY <1>1, <1>5, DeltasOwned DEF DeclareDeltas, Creations

\* A volatile object moves, with publication, at its creator's only.
LEMMA MovedCreation ==
    ASSUME OwnershipInvariant, NEW p \in Peer, NEW o \in Volatile, NEW K, NEW x,
           NEW draw, Move(p, o, K, x, draw)
    PROVE  o \in Creations(p)
<1>1. CASE o \in Avatar \cup Shot
  BY <1>1, NamesAssumption
     DEF Move, Moves, OwnershipInvariant, LocalUserSurvives, Creations
<1>2. CASE o \in Ball
  <2>1. <<o, FirstProp>> \in Exclusive
    BY <1>2, ExclusivePairs, PropAssumption
  <2>2. o # me[p]
    BY <1>2, NamesAssumption DEF Move, OwnershipInvariant, LocalUserSurvives
  <2>3. responsible[p][o][FirstProp]
    BY <2>2 DEF Move, Publishes
  <2>. QED
    BY <2>1, <2>3 DEF OwnershipInvariant, ReplicasSilent
<1>. QED
  BY <1>1, <1>2 DEF Volatile

LEMMA MoveOwnership ==
    ASSUME OwnershipInvariant, NEW p \in Peer, NEW o \in Object, NEW x \in Value,
           NEW K \in SUBSET Moving[o], NEW draw, Move(p, o, K, x, draw)
    PROVE  LocalUserSurvives' /\ CreatorResponsible' /\ ReplicasSilent' /\ WireOwned'
<1>1. \A s \in {o} \X K : s \in Exclusive => s[1] \in Creations(p)
  BY MovedCreation, ExclusivePairs
<1>2. {o} \X K \subseteq Object \X Prop
  BY PropAssumption
<1>3. Declare(p, {o} \X K, draw, MovedValues(p, o, K, x)) /\ UNCHANGED <<here, me, listed>>
  BY DEF Move
<1>4. /\ LocalUserSurvives' /\ CreatorResponsible' /\ ReplicasSilent'
      /\ \A m \in DeclareDeltas(p, {o} \X K, draw, MovedValues(p, o, K, x)) : Owned(m)
  BY <1>1, <1>2, <1>3, DeclareOwnership
<1>5. WireOwned'
  BY <1>4, WireKept DEF Move
<1>. QED
  BY <1>4, <1>5

LEMMA StrikeOwnership ==
    ASSUME OwnershipInvariant, NEW p \in Peer, NEW b \in Shot, NEW o \in Avatar,
           Strike(p, b, o)
    PROVE  LocalUserSurvives' /\ CreatorResponsible' /\ ReplicasSilent' /\ WireOwned'
<1>. DEFINE hit == IF o \in struck[p] THEN {} ELSE {<<o, HitProp>>}
<1>. USE DEF OwnershipInvariant
<1>1. LocalUserSurvives'
  BY NamesAssumption DEF Strike, LocalUserSurvives, TypeOK
<1>2. hit \subseteq Object \X Prop /\ \A s \in hit : s \notin Exclusive
  BY PropAssumption, ExclusivePairs DEF Object, Volatile
<1>. HIDE DEF hit
<1>3. \A q \in Peer, s \in Exclusive :
        responsible'[q][s[1]][s[2]]
            <=> responsible[q][s[1]][s[2]] /\ ~(q = p /\ s[1] \in {b})
  <2>1. responsible' = Whole(Updated(responsible, p, hit, TRUE), p, {b}, AllProps(FALSE))
    BY DEF Strike, hit
  <2>. QED
    BY <1>2, <2>1, FlagsDeclaredCleared, ZenonT(30)
<1>4. \A q \in Peer : Creations(q)' = Creations(q) \ (IF q = p THEN {b} ELSE {})
  BY DEF Strike, Creations, TypeOK
<1>5. CreatorResponsible' /\ ReplicasSilent'
  BY <1>3, <1>4, OwnershipForgotten
<1>6. WireOwned'
  <2>1. \A m \in Deltas(p, hit, version[p], value[p]) : Owned(m)
    BY <1>2, DeltasOwned
  <2>2. \A m \in Deletes(p, {b}) : Owned(m)
    BY DeletesOwned
  <2>3. net' \subseteq net \cup (Deltas(p, hit, version[p], value[p]) \cup Deletes(p, {b}))
    BY DEF Strike, hit
  <2>. QED
    BY <2>1, <2>2, <2>3, WireKept
<1>. QED
  BY <1>1, <1>5, <1>6

\* Objects leave p's list, p's own avatar not among them
LEMMA ForgetOwnership ==
    ASSUME OwnershipInvariant, NEW p \in Peer, NEW S, Forget(p, S), me[p] \notin S,
           UNCHANGED <<here, me>>
    PROVE  LocalUserSurvives' /\ CreatorResponsible' /\ ReplicasSilent'
<1>. USE DEF OwnershipInvariant
<1>1. LocalUserSurvives'
  BY DEF Forget, LocalUserSurvives, TypeOK
<1>2. \A q \in Peer, s \in Exclusive :
        responsible'[q][s[1]][s[2]]
            <=> responsible[q][s[1]][s[2]] /\ ~(q = p /\ s[1] \in S)
  BY FlagsCleared DEF Forget
<1>3. \A q \in Peer : Creations(q)' = Creations(q) \ (IF q = p THEN S ELSE {})
  BY DEF Forget, Creations, TypeOK
<1>. QED
  BY <1>1, <1>2, <1>3, OwnershipForgotten

LEMMA DiscardOwnership ==
    ASSUME OwnershipInvariant, NEW p \in Peer, NEW o \in Ball \cup Shot, Discard(p, o)
    PROVE  LocalUserSurvives' /\ CreatorResponsible' /\ ReplicasSilent' /\ WireOwned'
<1>1. me[p] \notin {o}
  BY NamesAssumption DEF Discard, OwnershipInvariant, LocalUserSurvives
<1>2. WireOwned'
  BY DeletesOwned, WireKept DEF Discard
<1>. QED
  BY <1>1, <1>2, ForgetOwnership DEF Discard

LEMMA LeaveOwnership ==
    ASSUME OwnershipInvariant, NEW p \in Peer, NEW S, NEW sent,
           \A m \in sent : Owned(m), Leave(p, sent)
    PROVE  LocalUserSurvives' /\ CreatorResponsible' /\ ReplicasSilent' /\ WireOwned'
<1>. USE DEF OwnershipInvariant
<1>1. LocalUserSurvives'
  BY DEF Leave, Forget, LocalUserSurvives, TypeOK
<1>2. \A q \in Peer, s \in Exclusive :
        responsible'[q][s[1]][s[2]]
            <=> responsible[q][s[1]][s[2]] /\ ~(q = p /\ s[1] \in listed[p])
  BY FlagsCleared DEF Leave, Forget
<1>3. \A q \in Peer : Creations(q)' = Creations(q) \ (IF q = p THEN listed[p] ELSE {})
  <2>1. listed' = [listed EXCEPT ![p] = @ \ listed[p]] /\ me' = [me EXCEPT ![p] = NoOne]
    BY DEF Leave, Forget
  <2>. QED
    BY <2>1 DEF Creations, TypeOK
<1>4. CreatorResponsible' /\ ReplicasSilent'
  BY <1>2, <1>3, OwnershipForgotten
<1>5. WireOwned'
  BY WireKept DEF Leave
<1>. QED
  BY <1>1, <1>4, <1>5

-----------------------------------------------------------------------------
(* The packet handlers. *)

\* Packets leave the network and owned ones may enter it.
LEMMA ReceiveOwned ==
    ASSUME OwnershipInvariant, NEW m, NEW sent, Receive(m, sent),
           \A r \in sent : Owned(r)
    PROVE  WireOwned'
<1>1. net' \subseteq net \cup sent
  BY DEF Receive
<1>. QED
  BY <1>1, WireKept

\* What a handler knows of the packet it handles
LEMMA ArrivedOwned ==
    ASSUME OwnershipInvariant, NEW p \in Peer, NEW m, NEW cmd, Arrived(p, m, cmd)
    PROVE  Owned(m) /\ m \in Packet /\ m.to = p /\ p \in here /\ m.cmd = cmd
BY DEF OwnershipInvariant, WireOwned, Owned, Arrived, TypeOK

LEMMA DeltaOwned ==
    ASSUME OwnershipInvariant, NEW p \in Peer, NEW m, Arrived(p, m, "Delta")
    PROVE  /\ m.obj \in Object /\ m.prop \in Prop
           /\ <<m.obj, m.prop>> \in Exclusive
                 => /\ Owner[m.obj] # p
                    /\ ~responsible[p][m.obj][m.prop]
           /\ m.obj \in Ball \cup Shot => Owner[m.obj] # p
<1>1. Owned(m) /\ m \in Packet /\ m.to = p /\ m.cmd = "Delta"
  BY ArrivedOwned
<1>2. m.obj \in Object /\ m.prop \in Prop
  BY <1>1, PacketFields
<1>3. <<m.obj, m.prop>> \in Exclusive => Owner[m.obj] # p
  BY <1>1 DEF Owned
<1>4. ReplicasSilent
  BY DEF OwnershipInvariant
<1>5. <<m.obj, m.prop>> \in Exclusive => ~responsible[p][m.obj][m.prop]
  BY <1>3, <1>4 DEF ReplicasSilent, Creations
<1>. QED
  BY <1>2, <1>3, <1>5, ExclusivePairs

LEMMA DeltaUnknownOwnership ==
    ASSUME OwnershipInvariant, NEW p \in Peer, NEW m \in net, DeltaUnknown(p, m)
    PROVE  LocalUserSurvives' /\ CreatorResponsible' /\ ReplicasSilent' /\ WireOwned'
<1>1. UNCHANGED <<here, me, listed, responsible>>
  BY DEF DeltaUnknown, replicas
<1>2. LocalUserSurvives' /\ CreatorResponsible' /\ ReplicasSilent'
  BY <1>1, OwnershipUnchanged
<1>. DEFINE q == QueryPacket(m.from, p, NameOnWire(p, m.obj))
<1>3. Owned(q)
  <2>1. m.obj \in Ball \cup Shot => Owner[m.obj] # p
    BY DeltaOwned DEF DeltaUnknown
  <2>. QED
    BY <2>1, NamesAssumption DEF QueryPacket, Owned, NameOnWire, Object, Volatile
<1>. HIDE DEF q
<1>4. WireOwned'
  <2>1. CASE Swallowed(p, m.obj)
    <3>1. net' \subseteq net
      BY <2>1 DEF DeltaUnknown, Receive
    <3>. QED
      BY <3>1, WireUnchanged
  <2>2. CASE ~Swallowed(p, m.obj)
    <3>1. Receive(m, Unicast(m.from, q))
      BY <2>2 DEF DeltaUnknown, q
    <3>2. \A r \in Unicast(m.from, q) : Owned(r)
      BY <1>3 DEF Unicast
    <3>. QED
      BY <3>1, <3>2, ReceiveOwned
  <2>. QED
    BY <2>1, <2>2
<1>. QED
  BY <1>2, <1>4

\* Handlers that change nothing but the network
LEMMA DroppedOwnership ==
    ASSUME OwnershipInvariant, NEW p \in Peer, NEW m \in net,
           DeltaOutdated(p, m) \/ DeltaRecall(p, m)
    PROVE  LocalUserSurvives' /\ CreatorResponsible' /\ ReplicasSilent' /\ WireOwned'
<1>1. UNCHANGED <<here, me, listed, responsible>>
  BY DEF DeltaOutdated, DeltaRecall, replicas
<1>2. net' \subseteq net
  BY DEF DeltaOutdated, DeltaRecall, Receive
<1>. QED
  BY <1>1, <1>2, OwnershipUnchanged, WireUnchanged

\* The creator is never told to yield.
LEMMA DeltaNewerOwnership ==
    ASSUME OwnershipInvariant, NEW p \in Peer, NEW m \in net, DeltaNewer(p, m)
    PROVE  LocalUserSurvives' /\ CreatorResponsible' /\ ReplicasSilent' /\ WireOwned'
<1>. USE DEF OwnershipInvariant
<1>1. UNCHANGED <<here, me, listed>>
  BY DEF DeltaNewer
<1>2. LocalUserSurvives'
  BY <1>1 DEF LocalUserSurvives
<1>3. /\ m.obj \in Object /\ m.prop \in Prop
      /\ <<m.obj, m.prop>> \in Exclusive => ~responsible[p][m.obj][m.prop]
  BY DeltaOwned DEF DeltaNewer
<1>4. \A q \in Peer, s \in Exclusive :
        responsible'[q][s[1]][s[2]] <=> responsible[q][s[1]][s[2]]
  <2>. SUFFICES ASSUME NEW q \in Peer, NEW s \in Exclusive
                PROVE  responsible'[q][s[1]][s[2]] <=> responsible[q][s[1]][s[2]]
    OBVIOUS
  <2>1. s[1] \in Object /\ s[2] \in Prop /\ s = <<s[1], s[2]>>
    BY ExclusivePairs
  <2>2. responsible \in [Peer -> [Object -> [Prop -> BOOLEAN]]]
    BY DEF TypeOK
  <2>3. responsible' = [responsible EXCEPT ![p][m.obj][m.prop] = FALSE]
    BY DEF DeltaNewer
  <2>4. CASE q = p /\ s[1] = m.obj /\ s[2] = m.prop
    BY <1>3, <2>1, <2>2, <2>3, <2>4
  <2>5. CASE ~(q = p /\ s[1] = m.obj /\ s[2] = m.prop)
    BY <2>1, <2>2, <2>3, <2>5
  <2>. QED
    BY <2>4, <2>5
<1>5. \A q \in Peer : Creations(q)' = Creations(q)
  BY <1>1 DEF Creations
<1>6. CreatorResponsible' /\ ReplicasSilent'
  BY <1>4, <1>5, OwnershipKept DEF ReplicasSilent
<1>7. net' \subseteq net
  BY DEF DeltaNewer, Receive
<1>. QED
  BY <1>2, <1>6, <1>7, WireUnchanged

\* Nobody conflicts with a creator: both would have to be responsible.
LEMMA DeltaConflictOwnership ==
    ASSUME OwnershipInvariant, NEW p \in Peer, NEW m \in net, NEW draw,
           DeltaConflict(p, m, draw)
    PROVE  LocalUserSurvives' /\ CreatorResponsible' /\ ReplicasSilent' /\ WireOwned'
<1>. DEFINE S == {<<m.obj, m.prop>>}
<1>1. S \subseteq Object \X Prop /\ \A s \in S : s \notin Exclusive
  BY DeltaOwned DEF DeltaConflict
<1>2. Declare(p, S, draw, value[p]) /\ UNCHANGED <<here, me, listed>>
  BY DEF DeltaConflict
<1>3. Receive(m, DeclareDeltas(p, S, draw, value[p]))
  BY DEF DeltaConflict
<1>. HIDE DEF S
<1>4. /\ LocalUserSurvives' /\ CreatorResponsible' /\ ReplicasSilent'
      /\ \A r \in DeclareDeltas(p, S, draw, value[p]) : Owned(r)
  BY <1>1, <1>2, DeclareOwnership
<1>5. WireOwned'
  BY <1>3, <1>4, ReceiveOwned
<1>. QED
  BY <1>4, <1>5

\* What a Create lists is no creation of the client's.
LEMMA CreatedElsewhere ==
    ASSUME OwnershipInvariant, NEW p \in Peer, NEW m \in net, IncomingCreate(p, m),
           m.obj \notin listed[p]
    PROVE  /\ List(p, {m.obj}, FALSE, m.vers, m.vals)
           /\ m.obj \notin Creations(p)
           /\ \A q \in Peer : Creations(q)' = Creations(q)
<1>. USE DEF OwnershipInvariant
<1>1. List(p, {m.obj}, FALSE, m.vers, m.vals) /\ UNCHANGED me
  BY DEF IncomingCreate
<1>2. m.obj \in Ball \cup Shot => Owner[m.obj] # p
  <2>1. Owned(m) /\ m.to = p /\ m.cmd = "Create"
    BY ArrivedOwned DEF IncomingCreate
  <2>. QED
    BY <2>1 DEF Owned
<1>3. p \in here
  BY DEF IncomingCreate, Arrived
<1>4. ASSUME NEW q \in Peer, NEW o \in Creations(q)' PROVE o \in Creations(q)
  <2>1. o \in Volatile /\ Owner[o] = q /\ (o \in Avatar => o = me[q])
    BY <1>1 DEF Creations
  <2>2. o \in listed[q] \/ (q = p /\ o = m.obj)
    BY <1>1 DEF List, Creations, TypeOK
  <2>3. ~(q = p /\ o = m.obj)
    BY <1>2, <1>3, <2>1 DEF LocalUserSurvives, Volatile
  <2>. QED
    BY <2>1, <2>2, <2>3 DEF Creations
<1>5. ASSUME NEW q \in Peer, NEW o \in Creations(q) PROVE o \in Creations(q)'
  BY <1>1 DEF List, Creations, TypeOK
<1>. QED
  BY <1>1, <1>4, <1>5 DEF Creations

\* A replica is listed; its creator lists it already or is not sent a Create.
LEMMA IncomingCreateOwnership ==
    ASSUME OwnershipInvariant, NEW p \in Peer, NEW m \in net, IncomingCreate(p, m)
    PROVE  LocalUserSurvives' /\ CreatorResponsible' /\ ReplicasSilent' /\ WireOwned'
<1>1. net' \subseteq net
  BY DEF IncomingCreate, Receive
<1>2. WireOwned'
  BY <1>1, WireUnchanged
<1>3. UNCHANGED <<here, me>>
  BY DEF IncomingCreate
<1>4. CASE m.obj \in listed[p]
  <2>1. UNCHANGED <<here, me, listed, responsible>>
    BY <1>3, <1>4 DEF IncomingCreate, replicas
  <2>. QED
    BY <1>2, <2>1, OwnershipUnchanged
<1>5. CASE m.obj \notin listed[p]
  <2>. USE DEF OwnershipInvariant
  <2>1. List(p, {m.obj}, FALSE, m.vers, m.vals)
    BY <1>5 DEF IncomingCreate
  <2>3. LocalUserSurvives'
    BY <1>3, <2>1 DEF List, LocalUserSurvives, TypeOK
  <2>4. \A q \in Peer, s \in Exclusive :
          responsible'[q][s[1]][s[2]]
             <=> responsible[q][s[1]][s[2]] /\ ~(q = p /\ s[1] \in {m.obj})
    BY <2>1, FlagsCleared DEF List
  <2>8. \A q \in Peer : Creations(q)' = Creations(q) \ (IF q = p THEN {m.obj} ELSE {})
    BY <1>5, CreatedElsewhere
  <2>9. CreatorResponsible' /\ ReplicasSilent'
    BY <2>4, <2>8, OwnershipForgotten
  <2>. QED
    BY <1>2, <2>3, <2>9
<1>. QED
  BY <1>4, <1>5

\* The answer to a Query goes to a client that is not the creator.
LEMMA IncomingQueryOwnership ==
    ASSUME OwnershipInvariant, NEW p \in Peer, NEW m \in net, IncomingQuery(p, m)
    PROVE  LocalUserSurvives' /\ CreatorResponsible' /\ ReplicasSilent' /\ WireOwned'
<1>1. UNCHANGED <<here, me, listed, responsible>>
  BY DEF IncomingQuery, replicas
<1>2. LocalUserSurvives' /\ CreatorResponsible' /\ ReplicasSilent'
  BY <1>1, OwnershipUnchanged
<1>3. m.obj \in Ball \cup Shot => m.from # Owner[m.obj]
  <2>1. Owned(m) /\ m.cmd = "Query"
    BY ArrivedOwned DEF IncomingQuery
  <2>. QED
    BY <2>1 DEF Owned
<1>. DEFINE reply == IF m.obj \in listed[p]
                     THEN CreatePacket(m.from, p, m.obj, version[p][m.obj],
                                       value[p][m.obj])
                     ELSE DeletePacket(m.from, p, NameOnWire(p, m.obj))
<1>4. Owned(reply)
  BY <1>3 DEF CreatePacket, DeletePacket, Owned
<1>5. Receive(m, Unicast(m.from, reply)) \/ Receive(m, {})
  BY DEF IncomingQuery
<1>. HIDE DEF reply
<1>6. \A r \in Unicast(m.from, reply) : Owned(r)
  BY <1>4 DEF Unicast
<1>7. WireOwned'
  <2>1. CASE Receive(m, Unicast(m.from, reply))
    BY <1>6, <2>1, ReceiveOwned
  <2>2. CASE Receive(m, {})
    <3>1. net' \subseteq net
      BY <2>2 DEF Receive
    <3>. QED
      BY <3>1, WireUnchanged
  <2>. QED
    BY <1>5, <2>1, <2>2
<1>. QED
  BY <1>2, <1>7

LEMMA IncomingDeleteOwnership ==
    ASSUME OwnershipInvariant, NEW p \in Peer, NEW m \in net, IncomingDelete(p, m)
    PROVE  LocalUserSurvives' /\ CreatorResponsible' /\ ReplicasSilent' /\ WireOwned'
<1>1. net' \subseteq net
  BY DEF IncomingDelete, Receive
<1>2. UNCHANGED <<here, me>>
  BY DEF IncomingDelete
<1>. DEFINE S == (listed[p] \cap {m.obj}) \ {me[p]}
<1>3. Forget(p, S) /\ me[p] \notin S
  BY DEF IncomingDelete
<1>. QED
  BY <1>1, <1>2, <1>3, ForgetOwnership, WireUnchanged
-----------------------------------------------------------------------------
(* Time-outs and surroundings. *)

LEMMA NetTimeoutOwnership ==
    ASSUME OwnershipInvariant, NEW p \in Peer, NEW late \in SUBSET Scanned(p),
           NEW draw, NetTimeout(p, late, draw)
    PROVE  LocalUserSurvives' /\ CreatorResponsible' /\ ReplicasSilent' /\ WireOwned'
<1>. DEFINE gone == Dying(p, late) \ {me[p]}
            taken == Assumed(p, late)
<1>1. late \subseteq Object \X Prop
  BY DEF Scanned
<1>2. taken \subseteq Object \X Prop /\ \A s \in taken : s \notin Exclusive
  BY <1>1, NamesAssumption DEF Assumed, Exclusive
<1>3. /\ Beating(p, late) \subseteq Object \X Prop
      /\ \A s \in Beating(p, late) : s \in Exclusive => Owner[s[1]] = p
  BY <1>1 DEF Beating, Mine, OwnershipInvariant, ReplicasSilent, Creations
<1>4. responsible' = Whole(Updated(responsible, p, taken, TRUE), p, gone,
                           AllProps(FALSE))
  BY DEF NetTimeout
<1>5. listed' = [listed EXCEPT ![p] = @ \ gone] /\ UNCHANGED <<here, me>>
  BY DEF NetTimeout
<1>6. net' \subseteq net \cup (Deltas(p, Beating(p, late), version[p], value[p])
                             \cup DeclareDeltas(p, taken, draw, value[p])
                             \cup Deletes(p, Dying(p, late)))
  BY DEF NetTimeout
<1>7. me[p] \notin gone
  OBVIOUS
<1>. HIDE DEF gone, taken
<1>. USE DEF OwnershipInvariant
<1>8. LocalUserSurvives'
  BY <1>5, <1>7 DEF LocalUserSurvives, TypeOK
<1>9. \A q \in Peer, s \in Exclusive :
        responsible'[q][s[1]][s[2]]
           <=> responsible[q][s[1]][s[2]] /\ ~(q = p /\ s[1] \in gone)
  BY <1>2, <1>4, FlagsDeclaredCleared
<1>10. \A q \in Peer : Creations(q)' = Creations(q) \ (IF q = p THEN gone ELSE {})
  BY <1>5 DEF Creations, TypeOK
<1>11. CreatorResponsible' /\ ReplicasSilent'
  BY <1>9, <1>10, OwnershipForgotten
<1>12. WireOwned'
  <2>1. \A m \in Deltas(p, Beating(p, late), version[p], value[p]) : Owned(m)
    BY <1>3, DeltasOwned
  <2>2. \A m \in DeclareDeltas(p, taken, draw, value[p]) : Owned(m)
    BY <1>2, DeltasOwned DEF DeclareDeltas
  <2>3. \A m \in Deletes(p, Dying(p, late)) : Owned(m)
    BY DeletesOwned
  <2>. QED
    BY <1>6, <2>1, <2>2, <2>3, WireKept
<1>. QED
  BY <1>8, <1>11, <1>12

LEMMA MoveLocallyOwnership ==
    ASSUME OwnershipInvariant, NEW p \in Peer, NEW o \in Object, NEW K, NEW x,
           MoveLocally(p, o, K, x)
    PROVE  LocalUserSurvives' /\ CreatorResponsible' /\ ReplicasSilent' /\ WireOwned'
<1>1. UNCHANGED <<here, me, listed, responsible>> /\ net' \subseteq net
  BY DEF MoveLocally
<1>. QED
  BY <1>1, OwnershipUnchanged, WireUnchanged

\* The foreign client publishes permanent objects only.
LEMMA ForeignOwnership ==
    ASSUME OwnershipInvariant, NEW o \in Permanent, NEW k, NEW n, NEW x,
           ForeignDelta(o, k, n, x)
    PROVE  LocalUserSurvives' /\ CreatorResponsible' /\ ReplicasSilent' /\ WireOwned'
<1>. DEFINE sent == {DeltaPacket(q, NoOne, o, k, n, x) : q \in here}
<1>1. UNCHANGED <<here, me, listed, responsible>>
  BY DEF ForeignDelta, replicas
<1>2. net' \subseteq net \cup sent
  BY DEF ForeignDelta
<1>3. \A m \in sent : Owned(m)
  BY NamesAssumption DEF DeltaPacket, Owned, Exclusive
<1>. QED
  BY <1>1, <1>2, <1>3, OwnershipUnchanged, WireKept

LEMMA LoseOwnership ==
    ASSUME OwnershipInvariant, NEW m, Lose(m)
    PROVE  LocalUserSurvives' /\ CreatorResponsible' /\ ReplicasSilent' /\ WireOwned'
<1>1. UNCHANGED <<here, me, listed, responsible>> /\ net' \subseteq net
  BY DEF Lose, replicas
<1>. QED
  BY <1>1, OwnershipUnchanged, WireUnchanged
-----------------------------------------------------------------------------
(* The invariant is inductive. *)

LEMMA OutsideStep ==
    ASSUME TypeOK, OutsideEmpty, [Next]_vars
    PROVE  OutsideEmpty'
<1>. USE DEF TypeOK, OutsideEmpty
<1>1. ASSUME NEW p \in Peer, UserAction(p) PROVE OutsideEmpty'
  <2>1. ASSUME NEW o, Enter(p, o) \/ Throw(p, o) PROVE OutsideEmpty'
    BY <2>1 DEF Enter, Throw, List
  <2>2. ASSUME NEW o, NEW K, NEW x, NEW draw, Move(p, o, K, x, draw) PROVE OutsideEmpty'
    BY <2>2 DEF Move
  <2>3. ASSUME NEW o, NEW K, NEW x, MoveLocally(p, o, K, x) PROVE OutsideEmpty'
    BY <2>3 DEF MoveLocally
  <2>4. ASSUME NEW b, NEW o, Strike(p, b, o) PROVE OutsideEmpty'
    BY <2>4 DEF Strike
  <2>5. ASSUME NEW o, Discard(p, o) PROVE OutsideEmpty'
    BY <2>5 DEF Discard, Forget
  <2>6. ASSUME Quit(p) PROVE OutsideEmpty'
    BY <2>6 DEF Quit, Leave, Forget
  <2>. QED
    BY <1>1, <2>1, <2>2, <2>3, <2>4, <2>5, <2>6 DEF UserAction
<1>2. ASSUME NEW p \in Peer, NEW m, Handle(p, m) PROVE OutsideEmpty'
  <2>1. ASSUME DeltaUnknown(p, m) \/ DeltaOutdated(p, m) \/ DeltaRecall(p, m)
               \/ DeltaNewer(p, m) \/ IncomingQuery(p, m)
        PROVE  OutsideEmpty'
    BY <2>1 DEF DeltaUnknown, DeltaOutdated, DeltaRecall, DeltaNewer, IncomingQuery,
                replicas
  <2>2. ASSUME NEW draw, DeltaConflict(p, m, draw) PROVE OutsideEmpty'
    BY <2>2 DEF DeltaConflict
  <2>3. ASSUME IncomingCreate(p, m) PROVE OutsideEmpty'
    BY <2>3 DEF IncomingCreate, Arrived, List, replicas
  <2>4. ASSUME IncomingDelete(p, m) PROVE OutsideEmpty'
    BY <2>4 DEF IncomingDelete, Forget
  <2>. QED
    BY <1>2, <2>1, <2>2, <2>3, <2>4 DEF Handle
<1>3. ASSUME NEW p \in Peer, NEW late, NEW draw, NetTimeout(p, late, draw)
      PROVE  OutsideEmpty'
  BY <1>3 DEF NetTimeout
<1>4. ASSUME NEW p \in Peer, Crash(p) PROVE OutsideEmpty'
  BY <1>4 DEF Crash, Leave, Forget
<1>5. ASSUME NEW m, Lose(m) PROVE OutsideEmpty'
  BY <1>5 DEF Lose, replicas
<1>6. ASSUME NEW o, NEW k, NEW n, NEW x, ForeignDelta(o, k, n, x) PROVE OutsideEmpty'
  BY <1>6 DEF ForeignDelta, replicas
<1>7. ASSUME UNCHANGED vars PROVE OutsideEmpty'
  BY <1>7 DEF vars
<1>. HIDE DEF TypeOK, OutsideEmpty
<1>. QED
  BY <1>1, <1>2, <1>3, <1>4, <1>5, <1>6, <1>7
     DEF Next, PacketAction, TimerAction, Environment

LEMMA OwnershipInit == Init => OwnershipInvariant
<1>. SUFFICES ASSUME Init PROVE OwnershipInvariant
  OBVIOUS
<1>1. TypeOK
  BY TypeInit
<1>2. LocalUserSurvives /\ WireOwned /\ OutsideEmpty
  BY DEF Init, LocalUserSurvives, WireOwned, OutsideEmpty
<1>3. CreatorResponsible
  BY DEF Init, CreatorResponsible, Creations, Exclusive
<1>4. ReplicasSilent
  BY ExclusivePairs DEF Init, ReplicasSilent, AllProps
<1>. QED
  BY <1>1, <1>2, <1>3, <1>4 DEF OwnershipInvariant

LEMMA OwnershipUserStep ==
    ASSUME OwnershipInvariant, NEW p \in Peer, UserAction(p)
    PROVE  LocalUserSurvives' /\ CreatorResponsible' /\ ReplicasSilent' /\ WireOwned'
<1>1. ASSUME NEW o \in Avatar, Enter(p, o)
      PROVE  LocalUserSurvives' /\ CreatorResponsible' /\ ReplicasSilent' /\ WireOwned'
  BY <1>1, EnterOwnership
<1>2. ASSUME NEW o \in Ball \cup Shot, Throw(p, o)
      PROVE  LocalUserSurvives' /\ CreatorResponsible' /\ ReplicasSilent' /\ WireOwned'
  BY <1>2, ThrowOwnership
<1>3. ASSUME NEW o \in Object, NEW x \in Value, NEW K \in SUBSET Moving[o],
             \/ \E draw \in [{o} \X K -> Draws[p]] : Move(p, o, K, x, draw)
             \/ MoveLocally(p, o, K, x)
      PROVE  LocalUserSurvives' /\ CreatorResponsible' /\ ReplicasSilent' /\ WireOwned'
  BY <1>3, MoveOwnership, MoveLocallyOwnership
<1>4. ASSUME NEW b \in Shot, NEW o \in Avatar, Strike(p, b, o)
      PROVE  LocalUserSurvives' /\ CreatorResponsible' /\ ReplicasSilent' /\ WireOwned'
  BY <1>4, StrikeOwnership
<1>5. ASSUME NEW o \in Ball \cup Shot, Discard(p, o)
      PROVE  LocalUserSurvives' /\ CreatorResponsible' /\ ReplicasSilent' /\ WireOwned'
  BY <1>5, DiscardOwnership
<1>6. ASSUME Quit(p)
      PROVE  LocalUserSurvives' /\ CreatorResponsible' /\ ReplicasSilent' /\ WireOwned'
  <2>1. Leave(p, Deletes(p, listed[p] \ Permanent))
    BY <1>6 DEF Quit
  <2>2. \A m \in Deletes(p, listed[p] \ Permanent) : Owned(m)
    BY DeletesOwned
  <2>. QED
    BY <2>1, <2>2, LeaveOwnership
<1>. QED
  BY <1>1, <1>2, <1>3, <1>4, <1>5, <1>6 DEF UserAction

LEMMA OwnershipPacketStep ==
    ASSUME OwnershipInvariant, NEW p \in Peer, PacketAction(p)
    PROVE  LocalUserSurvives' /\ CreatorResponsible' /\ ReplicasSilent' /\ WireOwned'
<1>. PICK m \in net : Handle(p, m)
  BY DEF PacketAction
<1>1. ASSUME NEW draw, DeltaConflict(p, m, draw)
      PROVE  LocalUserSurvives' /\ CreatorResponsible' /\ ReplicasSilent' /\ WireOwned'
  BY <1>1, DeltaConflictOwnership
<1>2. CASE \E d \in Draws[p] : DeltaConflict(p, m, [s \in Object \X Prop |-> d])
  BY <1>1, <1>2
<1>3. CASE DeltaUnknown(p, m)
  BY <1>3, DeltaUnknownOwnership
<1>4. CASE DeltaOutdated(p, m) \/ DeltaRecall(p, m)
  BY <1>4, DroppedOwnership
<1>5. CASE DeltaNewer(p, m)
  BY <1>5, DeltaNewerOwnership
<1>6. CASE IncomingCreate(p, m)
  BY <1>6, IncomingCreateOwnership
<1>7. CASE IncomingQuery(p, m)
  BY <1>7, IncomingQueryOwnership
<1>8. CASE IncomingDelete(p, m)
  BY <1>8, IncomingDeleteOwnership
<1>. QED
  BY <1>2, <1>3, <1>4, <1>5, <1>6, <1>7, <1>8 DEF Handle

LEMMA OwnershipEnvironmentStep ==
    ASSUME OwnershipInvariant, Environment
    PROVE  LocalUserSurvives' /\ CreatorResponsible' /\ ReplicasSilent' /\ WireOwned'
<1>1. ASSUME NEW p \in Peer, Crash(p)
      PROVE  LocalUserSurvives' /\ CreatorResponsible' /\ ReplicasSilent' /\ WireOwned'
  <2>1. Leave(p, {})
    BY <1>1 DEF Crash
  <2>2. \A m \in {} : Owned(m)
    OBVIOUS
  <2>. QED
    BY <2>1, <2>2, LeaveOwnership
<1>2. ASSUME NEW m \in net, Lose(m)
      PROVE  LocalUserSurvives' /\ CreatorResponsible' /\ ReplicasSilent' /\ WireOwned'
  BY <1>2, LoseOwnership
<1>3. ASSUME NEW o \in Permanent, NEW k \in Prop, NEW n \in Version, NEW x \in Value,
             ForeignDelta(o, k, n, x)
      PROVE  LocalUserSurvives' /\ CreatorResponsible' /\ ReplicasSilent' /\ WireOwned'
  BY <1>3, ForeignOwnership
<1>. QED
  BY <1>1, <1>2, <1>3 DEF Environment

LEMMA OwnershipStep ==
    OwnershipInvariant /\ [Next]_vars => OwnershipInvariant'
<1>. SUFFICES ASSUME OwnershipInvariant, [Next]_vars PROVE OwnershipInvariant'
  OBVIOUS
<1>1. TypeOK' /\ OutsideEmpty'
  BY TypeStep, OutsideStep DEF OwnershipInvariant
<1>2. ASSUME NEW p \in Peer, TimerAction(p)
      PROVE  LocalUserSurvives' /\ CreatorResponsible' /\ ReplicasSilent' /\ WireOwned'
  BY <1>2, NetTimeoutOwnership DEF TimerAction
<1>3. ASSUME UNCHANGED vars
      PROVE  LocalUserSurvives' /\ CreatorResponsible' /\ ReplicasSilent' /\ WireOwned'
  <2>1. UNCHANGED <<here, me, listed, responsible>> /\ net' \subseteq net
    BY <1>3 DEF vars
  <2>. QED
    BY <2>1, OwnershipUnchanged, WireUnchanged
<1>4. LocalUserSurvives' /\ CreatorResponsible' /\ ReplicasSilent' /\ WireOwned'
  BY <1>2, <1>3, OwnershipUserStep, OwnershipPacketStep, OwnershipEnvironmentStep
     DEF Next
<1>. QED
  BY <1>1, <1>4 DEF OwnershipInvariant

(***************************************************************************)
(* The inductive invariant holds: type, local user, responsibilities and   *)
(* packets under way fit together in every state.                          *)
(***************************************************************************)
THEOREM OwnershipHolds == Spec => []OwnershipInvariant
<1>. QED
  BY OwnershipInit, OwnershipStep, PTL DEF Spec

(***************************************************************************)
(* The local user is never lost: no Delete, whoever sends it, and no       *)
(* time-out takes a client's own avatar off its list (deleteReplica and    *)
(* NetTimeout spare localuser).                                            *)
(***************************************************************************)
THEOREM LocalUserTheorem == Spec => []LocalUserSurvives
<1>1. OwnershipInvariant => LocalUserSurvives
  BY DEF OwnershipInvariant
<1>. QED
  BY <1>1, OwnershipHolds, PTL

(***************************************************************************)
(* The creator of a volatile object stays responsible for it, whatever     *)
(* Deltas incomingDelta reads, in whatever order and however old.          *)
(***************************************************************************)
THEOREM CreatorTheorem == Spec => []CreatorResponsible
<1>1. OwnershipInvariant => CreatorResponsible
  BY DEF OwnershipInvariant
<1>. QED
  BY <1>1, OwnershipHolds, PTL

(***************************************************************************)
(* No client is ever responsible for a volatile object it did not create   *)
(* (but for the struck property of an avatar): the conflicts               *)
(* incomingDelta resolves are about permanent objects only.                *)
(***************************************************************************)
THEOREM ReplicasTheorem == Spec => []ReplicasSilent
<1>1. OwnershipInvariant => ReplicasSilent
  BY DEF OwnershipInvariant
<1>. QED
  BY <1>1, OwnershipHolds, PTL

(***************************************************************************)
(* No packet that could disturb a creator reaches him: no Delta on what    *)
(* only he may publish, and no Create of a ball or shot he threw.          *)
(***************************************************************************)
THEOREM WireTheorem == Spec => []WireOwned
<1>1. OwnershipInvariant => WireOwned
  BY DEF OwnershipInvariant
<1>. QED
  BY <1>1, OwnershipHolds, PTL
-----------------------------------------------------------------------------
(* Permanent objects. *)

\* Nobody is responsible for a permanent object, none has moved
Asleep(r, v) ==
    \A p \in Peer : \A o \in Permanent : \A k \in Prop : ~r[p][o][k] /\ v[p][o][k] = 0

\* A packet that says nothing of a permanent object but that it is gone
Quiet(m) == m.cmd \in {"Delta", "Create", "Query"} => m.obj \notin Permanent

\* PermanentsDormant with what makes it inductive: no Query can wake one up
\* a Create with other versions, and no Create is under way.
DormantInvariant ==
    TypeOK /\ Asleep(responsible, version) /\ \A m \in net : Quiet(m)

LEMMA PermanentNames ==
    /\ Permanent \subseteq Object
    /\ \A o \in Permanent : o \notin Volatile
    /\ \A o \in Permanent : o \notin Avatar /\ o \notin Ball /\ o \notin Shot
    /\ NoOne \notin Permanent
BY NamesAssumption DEF Object, Volatile
-----------------------------------------------------------------------------
(* What the table operators do to permanent objects. *)

LEMMA AsleepWhole ==
    ASSUME NEW r \in [Peer -> [Object -> [Prop -> BOOLEAN]]],
           NEW v \in [Peer -> [Object -> [Prop -> Version]]],
           Asleep(r, v), NEW p \in Peer, NEW S, S \cap Permanent = {}, NEW g, NEW n
    PROVE  Asleep(Whole(r, p, S, g), Whole(v, p, S, n))
<1>. SUFFICES ASSUME NEW q \in Peer, NEW o \in Permanent, NEW k \in Prop
              PROVE  ~Whole(r, p, S, g)[q][o][k] /\ Whole(v, p, S, n)[q][o][k] = 0
  BY DEF Asleep
<1>1. o \in Object /\ o \notin S
  BY PermanentNames
<1>2. Whole(r, p, S, g)[q][o] = r[q][o] /\ Whole(v, p, S, n)[q][o] = v[q][o]
  BY <1>1 DEF Whole
<1>. QED
  BY <1>2 DEF Asleep

LEMMA AsleepForgotten ==
    ASSUME NEW r \in [Peer -> [Object -> [Prop -> BOOLEAN]]],
           NEW v \in [Peer -> [Object -> [Prop -> Version]]],
           Asleep(r, v), NEW p \in Peer, NEW S
    PROVE  Asleep(Whole(r, p, S, AllProps(FALSE)), Whole(v, p, S, AllProps(0)))
<1>. DEFINE r1 == Whole(r, p, S, AllProps(FALSE))
            v1 == Whole(v, p, S, AllProps(0))
<1>. SUFFICES ASSUME NEW q \in Peer, NEW o \in Permanent, NEW k \in Prop
              PROVE  ~r1[q][o][k] /\ v1[q][o][k] = 0
  BY DEF Asleep
<1>1. o \in Object
  BY PermanentNames
<1>2. ~r[q][o][k] /\ v[q][o][k] = 0
  BY DEF Asleep
<1>3. CASE q = p /\ o \in S
  <2>1. r1[q][o] = AllProps(FALSE) /\ v1[q][o] = AllProps(0)
    BY <1>1, <1>3 DEF Whole
  <2>. QED
    BY <2>1 DEF AllProps
<1>4. CASE ~(q = p /\ o \in S)
  <2>1. r1[q][o] = r[q][o] /\ v1[q][o] = v[q][o]
    BY <1>1, <1>4 DEF Whole
  <2>. QED
    BY <1>2, <2>1
<1>. QED
  BY <1>3, <1>4

LEMMA AsleepDeclared ==
    ASSUME TypeOK, Asleep(responsible, version), NEW p \in Peer, NEW S, NEW draw,
           \A s \in S : s[1] \notin Permanent
    PROVE  Asleep(Updated(responsible, p, S, TRUE),
                  [version EXCEPT ![p] = Bumped(p, S, draw)])
<1>. DEFINE r1 == Updated(responsible, p, S, TRUE)
            v1 == [version EXCEPT ![p] = Bumped(p, S, draw)]
<1>. SUFFICES ASSUME NEW q \in Peer, NEW o \in Permanent, NEW k \in Prop
              PROVE  ~r1[q][o][k] /\ v1[q][o][k] = 0
  BY DEF Asleep
<1>1. o \in Object /\ <<o, k>> \notin S
  BY PermanentNames
<1>2. ~responsible[q][o][k] /\ version[q][o][k] = 0
  BY DEF Asleep
<1>3. r1[q][o][k] = responsible[q][o][k]
  BY <1>1 DEF Updated, TypeOK
<1>4. v1[q][o][k] = version[q][o][k]
  BY <1>1 DEF Bumped, TypeOK
<1>. HIDE DEF r1, v1
<1>. QED
  BY <1>2, <1>3, <1>4
-----------------------------------------------------------------------------
(* The network. *)

LEMMA DeltasQuiet ==
    ASSUME NEW p, NEW S, NEW n, NEW x, \A s \in S : s[1] \notin Permanent
    PROVE  \A m \in Deltas(p, S, n, x) : Quiet(m)
BY DEF Deltas, DeltaPacket, Quiet

LEMMA DeletesQuiet ==
    ASSUME NEW p, NEW S
    PROVE  \A m \in Deletes(p, S) : Quiet(m)
BY DEF Deletes, DeletePacket, Quiet

LEMMA QuietKept ==
    ASSUME DormantInvariant, NEW sent, net' \subseteq net \cup sent,
           \A m \in sent : Quiet(m)
    PROVE  \A m \in net' : Quiet(m)
BY DEF DormantInvariant

LEMMA QuietReceive ==
    ASSUME DormantInvariant, NEW m, NEW sent, Receive(m, sent),
           \A r \in sent : Quiet(r)
    PROVE  \A r \in net' : Quiet(r)
<1>1. net' \subseteq net \cup sent
  BY DEF Receive
<1>. QED
  BY <1>1, QuietKept

\* Steps that send nothing and leave flags and versions alone
LEMMA DormantUnchanged ==
    ASSUME DormantInvariant, UNCHANGED <<responsible, version>>, net' \subseteq net
    PROVE  Asleep(responsible, version)' /\ \A m \in net' : Quiet(m)
BY DEF DormantInvariant, Asleep
-----------------------------------------------------------------------------
(* One lemma per action. *)

LEMMA EnterDormant ==
    ASSUME DormantInvariant, NEW p \in Peer, NEW o \in Avatar, Enter(p, o)
    PROVE  Asleep(responsible, version)' /\ \A m \in net' : Quiet(m)
<1>. USE DEF DormantInvariant
<1>1. \A m \in net' : Quiet(m)
  BY DEF Enter
<1>2. ASSUME NEW q \in Peer, NEW s \in Permanent, NEW k \in Prop
      PROVE  ~responsible'[q][s][k] /\ version'[q][s][k] = 0
  <2>1. s \in Object /\ s # o
    BY PermanentNames
  <2>2. responsible'[q][s] = responsible[q][s] /\ version' = version
    BY <2>1 DEF Enter, Whole, TypeOK
  <2>. QED
    BY <2>2 DEF Asleep
<1>. QED
  BY <1>1, <1>2 DEF Asleep

LEMMA ThrowDormant ==
    ASSUME DormantInvariant, NEW p \in Peer, NEW o \in Ball \cup Shot, Throw(p, o)
    PROVE  Asleep(responsible, version)' /\ \A m \in net' : Quiet(m)
<1>. USE DEF DormantInvariant
<1>1. o \notin Permanent /\ {o} \cap Permanent = {}
  BY PermanentNames
<1>2. Asleep(Whole(responsible, p, {o}, AllProps(TRUE)),
             Whole(version, p, {o}, AllProps(0)))
  BY <1>1, AsleepWhole DEF TypeOK
<1>3. Asleep(responsible, version)'
  BY <1>2 DEF Throw, List
<1>. DEFINE sent == {CreatePacket(q, p, o, AllProps(0), AllProps(Start)) :
                        q \in Others(p)}
<1>4. \A m \in sent : Quiet(m)
  BY <1>1 DEF CreatePacket, Quiet
<1>5. net' \subseteq net \cup sent
  BY DEF Throw
<1>. QED
  BY <1>3, <1>4, <1>5, QuietKept

\* declareObjDelta on volatile objects
LEMMA DeclareDormant ==
    ASSUME DormantInvariant, NEW p \in Peer, NEW S, NEW draw, NEW vals,
           Declare(p, S, draw, vals), \A s \in S : s[1] \notin Permanent
    PROVE  /\ Asleep(responsible, version)'
           /\ \A m \in DeclareDeltas(p, S, draw, vals) : Quiet(m)
<1>1. Asleep(Updated(responsible, p, S, TRUE),
             [version EXCEPT ![p] = Bumped(p, S, draw)])
  BY AsleepDeclared DEF DormantInvariant
<1>. QED
  BY <1>1, DeltasQuiet DEF Declare, DeclareDeltas

\* A user cannot publish the movement of a permanent object: nobody is
\* responsible for it.
LEMMA MoveDormant ==
    ASSUME DormantInvariant, NEW p \in Peer, NEW o \in Object, NEW K, NEW x, NEW draw,
           Move(p, o, K, x, draw)
    PROVE  Asleep(responsible, version)' /\ \A m \in net' : Quiet(m)
<1>1. o \notin Permanent
  <2>1. o = me[p] \/ responsible[p][o][FirstProp]
    BY DEF Move, Publishes
  <2>2. me[p] \notin Permanent
    BY PermanentNames DEF DormantInvariant, TypeOK
  <2>. QED
    BY <2>1, <2>2, PropAssumption DEF DormantInvariant, Asleep
<1>2. \A s \in {o} \X K : s[1] \notin Permanent
  BY <1>1
<1>3. /\ Declare(p, {o} \X K, draw, MovedValues(p, o, K, x))
      /\ net' \subseteq net \cup DeclareDeltas(p, {o} \X K, draw, MovedValues(p, o, K, x))
  BY DEF Move
<1>. QED
  BY <1>2, <1>3, DeclareDormant, QuietKept

\* Objects struck, forgotten: the flags of volatile pairs set, those of any cleared
LEMMA RaisedForgotten ==
    ASSUME DormantInvariant, NEW p \in Peer, NEW S, NEW T, NEW draw,
           \A s \in S : s[1] \notin Permanent, Draw(S, draw),
           responsible' = Whole(Updated(responsible, p, S, TRUE), p, T, AllProps(FALSE)),
           version' = Whole([version EXCEPT ![p] = Bumped(p, S, draw)], p, T, AllProps(0))
    PROVE  Asleep(responsible, version)'
<1>. DEFINE r1 == Updated(responsible, p, S, TRUE)
            v1 == [version EXCEPT ![p] = Bumped(p, S, draw)]
<1>1. Asleep(r1, v1)
  BY AsleepDeclared DEF DormantInvariant
<1>2. r1 \in [Peer -> [Object -> [Prop -> BOOLEAN]]]
  BY UpdatedType DEF DormantInvariant, TypeOK
<1>3. v1 \in [Peer -> [Object -> [Prop -> Version]]]
  BY BumpedType DEF DormantInvariant, TypeOK
<1>. HIDE DEF r1, v1
<1>4. Asleep(Whole(r1, p, T, AllProps(FALSE)), Whole(v1, p, T, AllProps(0)))
  BY <1>1, <1>2, <1>3, AsleepForgotten
<1>. QED
  BY <1>4 DEF r1, v1

LEMMA ForgetDormant ==
    ASSUME DormantInvariant, NEW p \in Peer, NEW S, Forget(p, S)
    PROVE  Asleep(responsible, version)'
<1>1. Asleep(Whole(responsible, p, S, AllProps(FALSE)),
             Whole(version, p, S, AllProps(0)))
  BY AsleepForgotten DEF DormantInvariant, TypeOK
<1>. QED
  BY <1>1 DEF Forget

LEMMA StrikeDormant ==
    ASSUME DormantInvariant, NEW p \in Peer, NEW b \in Shot, NEW o \in Avatar,
           Strike(p, b, o)
    PROVE  Asleep(responsible, version)' /\ \A m \in net' : Quiet(m)
<1>. DEFINE hit == IF o \in struck[p] THEN {} ELSE {<<o, HitProp>>}
            r1 == Updated(responsible, p, hit, TRUE)
<1>1. \A s \in hit : s[1] \notin Permanent
  BY PermanentNames
<1>2. /\ responsible' = Whole(r1, p, {b}, AllProps(FALSE))
      /\ version' = Whole(version, p, {b}, AllProps(0))
      /\ net' = net \cup Deltas(p, hit, version[p], value[p]) \cup Deletes(p, {b})
  BY DEF Strike
<1>. HIDE DEF hit
<1>3. Asleep(r1, version)
  <2>1. Asleep(r1, [version EXCEPT ![p] = Bumped(p, hit, 0)]) /\ Asleep(responsible, version)
    BY <1>1, AsleepDeclared DEF DormantInvariant
  <2>. QED
    BY <2>1 DEF Asleep
<1>4. /\ r1 \in [Peer -> [Object -> [Prop -> BOOLEAN]]]
      /\ version \in [Peer -> [Object -> [Prop -> Version]]]
  BY UpdatedType DEF DormantInvariant, TypeOK
<1>. HIDE DEF r1
<1>5. Asleep(responsible, version)'
  <2>1. Asleep(Whole(r1, p, {b}, AllProps(FALSE)), Whole(version, p, {b}, AllProps(0)))
    BY <1>3, <1>4, AsleepForgotten
  <2>. QED
    BY <1>2, <2>1
<1>6. net' \subseteq net \cup (Deltas(p, hit, version[p], value[p]) \cup Deletes(p, {b}))
  BY <1>2
<1>7. \A m \in Deltas(p, hit, version[p], value[p]) \cup Deletes(p, {b}) : Quiet(m)
  BY <1>1, DeltasQuiet, DeletesQuiet
<1>. QED
  BY <1>5, <1>6, <1>7, QuietKept

LEMMA DiscardDormant ==
    ASSUME DormantInvariant, NEW p \in Peer, NEW o, Discard(p, o)
    PROVE  Asleep(responsible, version)' /\ \A m \in net' : Quiet(m)
<1>1. Forget(p, {o}) /\ net' \subseteq net \cup Deletes(p, {o})
  BY DEF Discard
<1>. QED
  BY <1>1, ForgetDormant, DeletesQuiet, QuietKept

LEMMA LeaveDormant ==
    ASSUME DormantInvariant, NEW p \in Peer, Quit(p) \/ Crash(p)
    PROVE  Asleep(responsible, version)' /\ \A m \in net' : Quiet(m)
<1>1. PICK S : Leave(p, Deletes(p, S)) \/ Leave(p, {})
  BY DEF Quit, Crash
<1>2. Forget(p, listed[p]) /\ net' \subseteq net \cup Deletes(p, S)
  BY <1>1 DEF Leave
<1>. QED
  BY <1>2, ForgetDormant, DeletesQuiet, QuietKept

\* No Delta on a permanent object arrives, so none is asked for.
LEMMA DeltaUnknownDormant ==
    ASSUME DormantInvariant, NEW p \in Peer, NEW m \in net, DeltaUnknown(p, m)
    PROVE  Asleep(responsible, version)' /\ \A r \in net' : Quiet(r)
<1>. DEFINE q == QueryPacket(m.from, p, NameOnWire(p, m.obj))
<1>1. Quiet(q)
  <2>1. m.obj \notin Permanent
    BY DEF DormantInvariant, Quiet, DeltaUnknown, Arrived
  <2>. QED
    BY <2>1, PermanentNames DEF QueryPacket, NameOnWire, Quiet
<1>. HIDE DEF q
<1>2. UNCHANGED <<responsible, version>>
  BY DEF DeltaUnknown, replicas
<1>3. net' \subseteq net \cup Unicast(m.from, q)
  BY DEF DeltaUnknown, Receive, q
<1>4. \A r \in Unicast(m.from, q) : Quiet(r)
  BY <1>1 DEF Unicast
<1>. QED
  BY <1>2, <1>3, <1>4, QuietKept DEF DormantInvariant, Asleep

LEMMA DroppedDormant ==
    ASSUME DormantInvariant, NEW p \in Peer, NEW m \in net,
           DeltaOutdated(p, m) \/ DeltaRecall(p, m)
    PROVE  Asleep(responsible, version)' /\ \A r \in net' : Quiet(r)
<1>1. UNCHANGED <<responsible, version>> /\ net' \subseteq net
  BY DEF DeltaOutdated, DeltaRecall, replicas, Receive
<1>. QED
  BY <1>1, DormantUnchanged

LEMMA DeltaNewerDormant ==
    ASSUME DormantInvariant, NEW p \in Peer, NEW m \in net, DeltaNewer(p, m)
    PROVE  Asleep(responsible, version)' /\ \A r \in net' : Quiet(r)
<1>1. m.obj \notin Permanent
  BY DEF DormantInvariant, Quiet, DeltaNewer, Arrived
<1>2. ASSUME NEW q \in Peer, NEW o \in Permanent, NEW k \in Prop
      PROVE  ~responsible'[q][o][k] /\ version'[q][o][k] = 0
  <2>1. o \in Object /\ o # m.obj
    BY <1>1, PermanentNames
  <2>2. responsible'[q][o] = responsible[q][o]
    BY <2>1 DEF DeltaNewer, DormantInvariant, TypeOK
  <2>3. version'[q][o] = version[q][o]
    BY <2>1 DEF DeltaNewer, DormantInvariant, TypeOK
  <2>. QED
    BY <2>2, <2>3 DEF DormantInvariant, Asleep
<1>3. \A r \in net' : Quiet(r)
  BY DEF DeltaNewer, Receive, DormantInvariant
<1>. QED
  BY <1>2, <1>3 DEF Asleep

LEMMA DeltaConflictDormant ==
    ASSUME DormantInvariant, NEW p \in Peer, NEW m \in net, NEW draw,
           DeltaConflict(p, m, draw)
    PROVE  Asleep(responsible, version)' /\ \A r \in net' : Quiet(r)
<1>. DEFINE S == {<<m.obj, m.prop>>}
<1>1. \A s \in S : s[1] \notin Permanent
  BY DEF DormantInvariant, Quiet, DeltaConflict, Arrived
<1>2. Declare(p, S, draw, value[p]) /\ Receive(m, DeclareDeltas(p, S, draw, value[p]))
  BY DEF DeltaConflict
<1>. HIDE DEF S
<1>. QED
  BY <1>1, <1>2, DeclareDormant, QuietReceive

LEMMA IncomingCreateDormant ==
    ASSUME DormantInvariant, NEW p \in Peer, NEW m \in net, IncomingCreate(p, m)
    PROVE  Asleep(responsible, version)' /\ \A r \in net' : Quiet(r)
<1>1. net' \subseteq net
  BY DEF IncomingCreate, Receive
<1>2. CASE m.obj \in listed[p]
  BY <1>1, <1>2, DormantUnchanged DEF IncomingCreate, replicas
<1>3. CASE m.obj \notin listed[p]
  <2>1. {m.obj} \cap Permanent = {}
    BY DEF DormantInvariant, Quiet, IncomingCreate, Arrived
  <2>2. Asleep(Whole(responsible, p, {m.obj}, AllProps(FALSE)),
               Whole(version, p, {m.obj}, m.vers))
    BY <2>1, AsleepWhole DEF DormantInvariant, TypeOK
  <2>3. Asleep(responsible, version)'
    BY <1>3, <2>2 DEF IncomingCreate, List
  <2>. QED
    BY <1>1, <2>3 DEF DormantInvariant
<1>. QED
  BY <1>2, <1>3

LEMMA IncomingQueryDormant ==
    ASSUME DormantInvariant, NEW p \in Peer, NEW m \in net, IncomingQuery(p, m)
    PROVE  Asleep(responsible, version)' /\ \A r \in net' : Quiet(r)
<1>. DEFINE reply == IF m.obj \in listed[p]
                     THEN CreatePacket(m.from, p, m.obj, version[p][m.obj],
                                       value[p][m.obj])
                     ELSE DeletePacket(m.from, p, NameOnWire(p, m.obj))
<1>1. m.obj \notin Permanent
  BY DEF DormantInvariant, Quiet, IncomingQuery, Arrived
<1>2. Quiet(reply)
  BY <1>1 DEF CreatePacket, DeletePacket, Quiet
<1>3. net' \subseteq net \cup Unicast(m.from, reply)
  BY DEF IncomingQuery, Receive
<1>4. UNCHANGED <<responsible, version>>
  BY DEF IncomingQuery, replicas
<1>. HIDE DEF reply
<1>5. \A r \in Unicast(m.from, reply) : Quiet(r)
  BY <1>2 DEF Unicast
<1>. QED
  BY <1>3, <1>4, <1>5, QuietKept DEF DormantInvariant, Asleep

LEMMA IncomingDeleteDormant ==
    ASSUME DormantInvariant, NEW p \in Peer, NEW m \in net, IncomingDelete(p, m)
    PROVE  Asleep(responsible, version)' /\ \A r \in net' : Quiet(r)
<1>1. \A r \in net' : Quiet(r)
  BY DEF IncomingDelete, Receive, DormantInvariant
<1>. QED
  BY <1>1, ForgetDormant DEF IncomingDelete

\* No responsibility is assumed: no permanent object has left version 0.
LEMMA NetTimeoutDormant ==
    ASSUME DormantInvariant, NEW p \in Peer, NEW late \in SUBSET Scanned(p),
           NEW draw, NetTimeout(p, late, draw)
    PROVE  Asleep(responsible, version)' /\ \A m \in net' : Quiet(m)
<1>. DEFINE gone == Dying(p, late) \ {me[p]}
            taken == Assumed(p, late)
<1>1. late \subseteq Object \X Prop
  BY DEF Scanned
<1>2. \A s \in late : s[1] \in Permanent =>
         ~responsible[p][s[1]][s[2]] /\ version[p][s[1]][s[2]] = 0
  BY <1>1 DEF DormantInvariant, Asleep
<1>3. \A s \in taken : FALSE
  BY <1>2 DEF Assumed
<1>4. \A s \in Beating(p, late) : s[1] \notin Permanent
  BY <1>2 DEF Beating, Mine
<1>5. /\ responsible' = Whole(Updated(responsible, p, taken, TRUE), p, gone,
                              AllProps(FALSE))
      /\ version' = Whole([version EXCEPT ![p] = Bumped(p, taken, draw)], p, gone,
                          AllProps(0))
      /\ net' \subseteq net \cup (Deltas(p, Beating(p, late), version[p], value[p])
                                \cup DeclareDeltas(p, taken, draw, value[p])
                                \cup Deletes(p, Dying(p, late)))
  BY DEF NetTimeout
<1>. HIDE DEF gone, taken
<1>6. Draw(taken, draw) /\ \A s \in taken : s[1] \notin Permanent
  BY <1>3 DEF Draw
<1>7. Asleep(responsible, version)'
  BY <1>5, <1>6, RaisedForgotten
<1>8. \A m \in net' : Quiet(m)
  <2>1. \A m \in Deltas(p, Beating(p, late), version[p], value[p]) : Quiet(m)
    BY <1>4, DeltasQuiet
  <2>2. \A m \in DeclareDeltas(p, taken, draw, value[p]) : Quiet(m)
    BY <1>6, DeltasQuiet DEF DeclareDeltas
  <2>3. \A m \in Deletes(p, Dying(p, late)) : Quiet(m)
    BY DeletesQuiet
  <2>. QED
    BY <1>5, <2>1, <2>2, <2>3, QuietKept
<1>. QED
  BY <1>7, <1>8
-----------------------------------------------------------------------------
(* The invariant is inductive. *)

LEMMA DormantInit == Init => DormantInvariant
<1>. SUFFICES ASSUME Init PROVE DormantInvariant
  OBVIOUS
<1>1. Asleep(responsible, version)
  BY PermanentNames DEF Init, Asleep, AllProps
<1>2. \A m \in net : Quiet(m)
  BY DEF Init
<1>. QED
  BY <1>1, <1>2, TypeInit DEF DormantInvariant

LEMMA DormantPacketStep ==
    ASSUME DormantInvariant, NEW p \in Peer, PacketAction(p)
    PROVE  Asleep(responsible, version)' /\ \A m \in net' : Quiet(m)
<1>. PICK m \in net : Handle(p, m)
  BY DEF PacketAction
<1>. QED
  BY DeltaUnknownDormant, DroppedDormant, DeltaNewerDormant, DeltaConflictDormant,
     IncomingCreateDormant, IncomingQueryDormant, IncomingDeleteDormant DEF Handle

LEMMA DormantStep ==
    ~ForeignClient /\ DormantInvariant /\ [Next]_vars => DormantInvariant'
<1>. SUFFICES ASSUME ~ForeignClient, DormantInvariant, [Next]_vars
              PROVE  DormantInvariant'
  OBVIOUS
<1>1. TypeOK'
  BY TypeStep DEF DormantInvariant
<1>2. ASSUME NEW p \in Peer, UserAction(p)
      PROVE  Asleep(responsible, version)' /\ \A m \in net' : Quiet(m)
  <2>1. ASSUME NEW o, NEW K, NEW x, MoveLocally(p, o, K, x)
        PROVE  Asleep(responsible, version)' /\ \A m \in net' : Quiet(m)
    BY <2>1, DormantUnchanged DEF MoveLocally
  <2>. QED
    BY <1>2, <2>1, EnterDormant, ThrowDormant, MoveDormant, StrikeDormant,
       DiscardDormant, LeaveDormant DEF UserAction
<1>3. ASSUME NEW p \in Peer, TimerAction(p)
      PROVE  Asleep(responsible, version)' /\ \A m \in net' : Quiet(m)
  BY <1>3, NetTimeoutDormant DEF TimerAction
<1>4. ASSUME Environment
      PROVE  Asleep(responsible, version)' /\ \A m \in net' : Quiet(m)
  <2>1. ASSUME NEW m \in net, Lose(m)
        PROVE  Asleep(responsible, version)' /\ \A r \in net' : Quiet(r)
    BY <2>1, DormantUnchanged DEF Lose, replicas
  <2>. QED
    BY <1>4, <2>1, LeaveDormant DEF Environment, ForeignDelta
<1>5. ASSUME UNCHANGED vars
      PROVE  Asleep(responsible, version)' /\ \A m \in net' : Quiet(m)
  BY <1>5, DormantUnchanged DEF vars
<1>6. Asleep(responsible, version)' /\ \A m \in net' : Quiet(m)
  BY <1>2, <1>3, <1>4, <1>5, DormantPacketStep DEF Next
<1>. QED
  BY <1>1, <1>6 DEF DormantInvariant, Asleep, Quiet

(***************************************************************************)
(* Permanent objects sleep: in a world visited by clients of this version  *)
(* only, whatever they do and whatever the network loses or repeats, no    *)
(* one ever becomes responsible for a permanent object, none changes its   *)
(* version and no Delta on one is ever sent.                               *)
(***************************************************************************)
THEOREM DormantTheorem == Spec => []PermanentsDormant
<1>1. CASE ForeignClient
  <2>1. PermanentsDormant
    BY <1>1 DEF PermanentsDormant
  <2>. QED
    BY <2>1, PTL
<1>2. CASE ~ForeignClient
  <2>1. DormantInvariant => PermanentsDormant
    BY DEF DormantInvariant, Asleep, Quiet, PermanentsDormant
  <2>2. DormantInvariant /\ [Next]_vars => DormantInvariant'
    BY <1>2, DormantStep
  <2>. QED
    BY DormantInit, <2>1, <2>2, PTL DEF Spec
<1>. QED
  BY <1>1, <1>2
=============================================================================
