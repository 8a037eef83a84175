-------------------------------- MODULE Vrep --------------------------------
(***************************************************************************)
(* The VREP replication protocol of VREng (src/src/net): every client of a *)
(* world keeps a list of network objects (netobjectList), each with a      *)
(* version, a responsibility flag and a value per property, and keeps the  *)
(* lists alike by Create, Delta, Query and Delete packets on a multicast   *)
(* group, with heart-beats and time-outs (NetTimeout) in place of          *)
(* acknowledgements.                                                       *)
(*                                                                         *)
(* One client is one single-threaded process: a packet handler, a client   *)
(* operation and a run of NetTimeout are each one step.  The network       *)
(* reorders at will; losses, duplicates and crashes draw on FaultBudget.   *)
(***************************************************************************)
EXTENDS VrepVersion, FiniteSets

CONSTANTS
    Peer,           \* clients
    Avatar,         \* names of USER_TYPE objects: one per entry in the world
    Ball,           \* names of volatile objects never announced by a Create
    Shot,           \* names of bullets and darts, announced by a Create
    Permanent,      \* objects of the world's description file
    Owner,          \* the client that names a volatile object
    Prop,           \* property numbers
    HitProp,        \* Dart::PROPHIT = Bullet::PROPHIT, sent on a User
    Timed,          \* the properties of an object NetTimeout scans
    Moving,         \* the properties of an object that change, published or not
    Value,          \* values of a property
    Start,          \* the value of a property in a fresh object
    Draws,          \* the version steps a client's rand() may draw
    QueryBurst,     \* Deltas filterQuery swallows after a Query (15)
    ByRef,          \* clients whose ABI passes a Noid argument by reference
    NoOne,          \* "no object", "no client"
    ForeignClient,  \* TRUE: a client of an older VREP version takes part
    ActBudget,      \* bound: operations of the users
    FaultBudget,    \* bound: packets lost or duplicated, clients crashed
    NetBound        \* bound: packets under way beyond which a client waits

Volatile == Avatar \cup Ball \cup Shot
Object   == Volatile \cup Permanent
FirstProp == 0

ASSUME NamesAssumption ==
    /\ NoOne \notin Object /\ NoOne \notin Peer
    /\ Avatar \cap Ball = {} /\ Avatar \cap Shot = {} /\ Ball \cap Shot = {}
    /\ Volatile \cap Permanent = {}
    /\ Owner \in [Volatile -> Peer]
    /\ ByRef \subseteq Peer

ASSUME PropAssumption ==
    /\ Prop \subseteq Nat /\ FirstProp \in Prop /\ HitProp \in Prop
    /\ HitProp # FirstProp
    /\ Timed \in [Object -> SUBSET Prop] /\ Moving \in [Object -> SUBSET Prop]
    /\ \A o \in Avatar : HitProp \notin Timed[o] \cup Moving[o]
    /\ Start \in Value

ASSUME ParameterAssumption ==
    /\ Draws \in [Peer -> SUBSET Jump]
    /\ QueryBurst \in Nat /\ ActBudget \in Nat /\ FaultBudget \in Nat
    /\ NetBound \in Nat /\ ForeignClient \in BOOLEAN

VARIABLES
    here,           \* clients in the world (joined to its multicast group)
    me,             \* me[p]: the avatar of p's local user, or NoOne
    listed,         \* listed[p]: the names in p's netobjectList
    responsible,    \* responsible[p][o][k]: NetProperty::responsible
    version,        \* version[p][o][k]: NetProperty::version
    value,          \* value[p][o][k]: the property as the WObject holds it
    struck,         \* struck[p]: users of p with User::hit set
    asked,          \* asked[p]: oldnoid and countDelta of filterQuery
    named,          \* volatile names already given
    net,            \* packets under way
    acts, faults    \* what is spent of ActBudget and FaultBudget

replicas == <<listed, responsible, version, value>>
budgets  == <<acts, faults>>
vars == <<here, me, listed, responsible, version, value, struck, asked, named,
          net, acts, faults>>
-----------------------------------------------------------------------------
(* Packets. *)

DeltaPacket(q, p, o, k, n, x) ==
    [cmd |-> "Delta", to |-> q, from |-> p, obj |-> o,
     prop |-> k, ver |-> n, val |-> x]

CreatePacket(q, p, o, vers, vals) ==
    [cmd |-> "Create", to |-> q, from |-> p, obj |-> o,
     vers |-> vers, vals |-> vals]

QueryPacket(q, p, o)  == [cmd |-> "Query", to |-> q, from |-> p, obj |-> o]
DeletePacket(q, p, o) == [cmd |-> "Delete", to |-> q, from |-> p, obj |-> o]

Packet ==
    [cmd : {"Delta"}, to : Peer, from : Peer \cup {NoOne}, obj : Object,
     prop : Prop, ver : Version, val : Value]
    \cup
    [cmd : {"Create"}, to : Peer, from : Peer, obj : Object,
     vers : [Prop -> Version], vals : [Prop -> Value]]
    \cup
    [cmd : {"Query", "Delete"}, to : Peer, from : Peer,
     obj : Object \cup {NoOne}]

\* Mutant: a client reads its own packets
OthersLooped(p) == here

\* A multicast reaches the other members of the group: recvPayload drops what
\* the client itself sent
Others(p) == here \ {p}

\* sendDelta for each pair <<o, k>> of S, with versions n and values x
Deltas(p, S, n, x) ==
    {DeltaPacket(q, p, s[1], s[2], n[s[1]][s[2]], x[s[1]][s[2]]) :
        q \in Others(p), s \in S}

Deletes(p, S) == {DeletePacket(q, p, o) : q \in Others(p), o \in S}

\* Mutant: the address of the Noid where the Noid itself is read
NameByAddress(p, o) == IF p \in ByRef THEN NoOne ELSE o

(***************************************************************************)
(* sendQueryNoid and sendDeleteNoid hand putPayload a pointer where its    *)
(* "n" format reads a Noid: the name that leaves the client is the right   *)
(* one only where a Noid argument is passed by reference; elsewhere the    *)
(* bytes of a pointer are sent, the name of no object.                     *)
(***************************************************************************)
NameOnWire(p, o) == IF p \in ByRef THEN o ELSE NoOne

\* A unicast answer reaches the sender of a packet if it is still there
Unicast(q, packet) == IF q \in here THEN {packet} ELSE {}

\* p sends of its own accord only while few of its packets are under way
Room(p) == Cardinality({m \in net : m.from = p}) <= NetBound

\* A packet is handled: it leaves the network, or a duplicate of it is left
Receive(m, sent) ==
    \/ net' = (net \ {m}) \cup sent /\ UNCHANGED faults
    \/ /\ faults < FaultBudget
       /\ net' = net \cup sent
       /\ faults' = faults + 1

Act == acts < ActBudget /\ acts' = acts + 1
-----------------------------------------------------------------------------
(* The list of network objects of a client. *)

AllProps(x) == [k \in Prop |-> x]

\* f[p][o][k] becomes x for the pairs <<o, k>> of S
Updated(f, p, S, x) ==
    [f EXCEPT ![p] = [o \in Object |-> [k \in Prop |->
        IF <<o, k>> \in S THEN x ELSE f[p][o][k]]]]

\* f[p][o] becomes g for the objects of S
Whole(f, p, S, g) ==
    [f EXCEPT ![p] = [o \in Object |-> IF o \in S THEN g ELSE f[p][o]]]

\* initProperties of the objects of S, then addToList
List(p, S, resp, vers, vals) ==
    /\ listed' = [listed EXCEPT ![p] = @ \cup S]
    /\ responsible' = Whole(responsible, p, S, AllProps(resp))
    /\ version' = Whole(version, p, S, vers)
    /\ value' = Whole(value, p, S, vals)

\* delete noh: the objects of S leave the list, with their properties
Forget(p, S) ==
    /\ listed' = [listed EXCEPT ![p] = @ \ S]
    /\ responsible' = Whole(responsible, p, S, AllProps(FALSE))
    /\ version' = Whole(version, p, S, AllProps(0))
    /\ value' = Whole(value, p, S, AllProps(Start))
    /\ struck' = [struck EXCEPT ![p] = @ \ S]

\* versions after declareObjDelta on the pairs of S, draw[s] being rand()'s step
Bumped(p, S, draw) ==
    [o \in Object |-> [k \in Prop |->
        IF <<o, k>> \in S THEN Bump(version[p][o][k], draw[<<o, k>>])
                          ELSE version[p][o][k]]]

\* declareObjDelta on the pairs of S, when vals are the values p then holds
Declare(p, S, draw, vals) ==
    /\ responsible' = Updated(responsible, p, S, TRUE)
    /\ version' = [version EXCEPT ![p] = Bumped(p, S, draw)]
    /\ value' = [value EXCEPT ![p] = vals]

DeclareDeltas(p, S, draw, vals) == Deltas(p, S, Bumped(p, S, draw), vals)
-----------------------------------------------------------------------------
Init ==
    /\ here = {}
    /\ me = [p \in Peer |-> NoOne]
    /\ listed = [p \in Peer |-> {}]
    /\ responsible = [p \in Peer |-> [o \in Object |-> AllProps(FALSE)]]
    /\ version = [p \in Peer |-> [o \in Object |-> AllProps(0)]]
    /\ value = [p \in Peer |-> [o \in Object |-> AllProps(Start)]]
    /\ struck = [p \in Peer |-> {}]
    /\ asked = [p \in Peer |-> [obj |-> NoOne, count |-> 0]]
    /\ named = {}
    /\ net = {}
    /\ acts = 0 /\ faults = 0
-----------------------------------------------------------------------------
(* What users do. *)

\* Mutant: the creator is not responsible
EnterUnowned(p, o) ==
    /\ p \notin here /\ o \in Avatar \ named /\ Owner[o] = p
    /\ here' = here \cup {p}
    /\ me' = [me EXCEPT ![p] = o]
    /\ named' = named \cup {o}
    /\ listed' = [listed EXCEPT ![p] = Permanent \cup {o}]
    /\ UNCHANGED <<responsible, version, value, struck, asked, net, acts, faults>>

(***************************************************************************)
(* World::enter and Channel::join: the world's permanent objects are       *)
(* listed (nobody responsible), then the local user's avatar, under a      *)
(* fresh name, is (the creator is responsible).  Nothing is sent: others   *)
(* learn of the avatar by its first Delta.                                 *)
(***************************************************************************)
Enter(p, o) ==
    /\ p \notin here /\ o \in Avatar \ named /\ Owner[o] = p
    /\ here' = here \cup {p}
    /\ me' = [me EXCEPT ![p] = o]
    /\ named' = named \cup {o}
    /\ listed' = [listed EXCEPT ![p] = Permanent \cup {o}]
    /\ responsible' = Whole(responsible, p, {o}, AllProps(TRUE))
    /\ UNCHANGED <<version, value, struck, asked, net, acts, faults>>

\* A ball, bullet or dart is created; declareObjCreation for the last two
Throw(p, o) ==
    /\ p \in here /\ Room(p) /\ Act
    /\ o \in (Ball \cup Shot) \ named /\ Owner[o] = p
    /\ named' = named \cup {o}
    /\ List(p, {o}, TRUE, AllProps(0), AllProps(Start))
    /\ net' = net \cup IF o \in Shot
                       THEN {CreatePacket(q, p, o, AllProps(0), AllProps(Start)) :
                                q \in Others(p)}
                       ELSE {}
    /\ UNCHANGED <<here, me, struck, asked, faults>>

(***************************************************************************)
(* userMovement of the local user, imposedMovement of any other object:    *)
(* the properties of K get new values.  updateToNetwork publishes them if  *)
(* the object is the local user or if noh->isResponsible(), which looks at *)
(* the first property only.                                                *)
(***************************************************************************)
Publishes(p, o) == o = me[p] \/ responsible[p][o][FirstProp]

MovedValues(p, o, K, x) ==
    [value[p] EXCEPT ![o] = [k \in Prop |-> IF k \in K THEN x ELSE @[k]]]

\* What a client sets in motion: its own user (nothing starts the motion of a
\* remote one, the ghost of an earlier visit included), its shots, other objects
Moves(p, o) ==
    /\ o \in listed[p]
    /\ o \in Avatar => o = me[p]
    /\ o \in Shot => Owner[o] = p

Move(p, o, K, x, draw) ==
    /\ p \in here /\ Room(p) /\ Act
    /\ Moves(p, o) /\ Publishes(p, o)
    /\ K # {} /\ K \subseteq Moving[o]
    /\ Declare(p, {o} \X K, draw, MovedValues(p, o, K, x))
    /\ net' = net \cup DeclareDeltas(p, {o} \X K, draw, MovedValues(p, o, K, x))
    /\ UNCHANGED <<here, me, listed, struck, asked, named, faults>>

(***************************************************************************)
(* A change p tells nobody of: of an object p is not responsible for; of   *)
(* its own user by less than DELTAZ in one movement, in roll or pitch, or  *)
(* where a lift, a guide or a bumper moves it behind updateToNetwork's     *)
(* back; of any object, other clients' users too, by a Vrelet.  Version    *)
(* and responsibility stay what they are.                                  *)
(***************************************************************************)
MoveLocally(p, o, K, x) ==
    /\ p \in here /\ Act
    /\ o \in listed[p]
    /\ K # {} /\ K \subseteq Moving[o]
    /\ value' = [value EXCEPT ![p] = MovedValues(p, o, K, x)]
    /\ UNCHANGED <<here, me, listed, responsible, version, struck, asked, named,
                   net, faults>>

(***************************************************************************)
(* User::whenIntersect on a bullet or dart b of p: the first one to strike *)
(* user o makes p send a Delta on the property of o that has the number    *)
(* HitProp; b is deleted (World::deleteObjects), its deletion declared.    *)
(***************************************************************************)
Strike(p, b, o) ==
    /\ p \in here /\ Room(p) /\ Act
    /\ b \in Shot \cap listed[p] /\ Owner[b] = p
    /\ o \in Avatar \cap listed[p]
    /\ LET hit == IF o \in struck[p] THEN {} ELSE {<<o, HitProp>>}
       IN  /\ responsible' = Whole(Updated(responsible, p, hit, TRUE), p, {b},
                                   AllProps(FALSE))
           /\ net' = net \cup Deltas(p, hit, version[p], value[p])
                         \cup Deletes(p, {b})
    /\ struck' = [struck EXCEPT ![p] = @ \cup {o}]
    /\ listed' = [listed EXCEPT ![p] = @ \ {b}]
    /\ version' = Whole(version, p, {b}, AllProps(0))
    /\ value' = Whole(value, p, {b}, AllProps(Start))
    /\ UNCHANGED <<here, me, asked, named, faults>>

\* Ball::destroy by anybody, or the end of a shot of p that struck no user, of a
\* wall or of its time: ~WObject declares the deletion
Discard(p, o) ==
    /\ p \in here /\ Room(p) /\ Act
    /\ o \in (Ball \cup Shot) \cap listed[p] /\ (o \in Shot => Owner[o] = p)
    /\ Forget(p, {o})
    /\ net' = net \cup Deletes(p, {o})
    /\ UNCHANGED <<here, me, asked, named, faults>>

\* p's socket is closed: what it lists is gone, and so are the packets to it
Leave(p, sent) ==
    /\ here' = here \ {p}
    /\ me' = [me EXCEPT ![p] = NoOne]
    /\ Forget(p, listed[p])
    /\ net' = {m \in net \cup sent : m.to # p}
    /\ UNCHANGED <<named, acts>>

(***************************************************************************)
(* World::quit deletes every object of mobileList: ~WObject declares the   *)
(* deletion of all volatile ones, those other clients own included; then   *)
(* the local user's is declared and the channel deleted.                   *)
(***************************************************************************)
Quit(p) ==
    /\ p \in here
    /\ Leave(p, Deletes(p, listed[p] \ Permanent))
    /\ UNCHANGED <<asked, faults>>

\* The process dies; it starts anew with filterQuery's static variables reset
Crash(p) ==
    /\ p \in here /\ faults < FaultBudget
    /\ Leave(p, {})
    /\ asked' = [asked EXCEPT ![p] = [obj |-> NoOne, count |-> 0]]
    /\ faults' = faults + 1
-----------------------------------------------------------------------------
(* Packet handlers (NetIncoming: one packet, one handler). *)

Arrived(p, m, cmd) == p \in here /\ m \in net /\ m.to = p /\ m.cmd = cmd

\* Mutant: one Delta too many swallowed
SwallowedOneMore(p, o) == asked[p].obj = o /\ asked[p].count <= QueryBurst

\* filterQuery: a Query on the name asked for last is swallowed QueryBurst times
Swallowed(p, o) == asked[p].obj = o /\ asked[p].count < QueryBurst

\* incomingDelta on an unknown object: Query to the sender
DeltaUnknown(p, m) ==
    /\ Arrived(p, m, "Delta") /\ m.obj \notin listed[p]
    /\ IF Swallowed(p, m.obj)
       THEN /\ asked' = [asked EXCEPT ![p].count = @ + 1]
            /\ Receive(m, {})
       ELSE /\ asked' = [asked EXCEPT ![p] = [obj |-> m.obj, count |-> 0]]
            /\ Receive(m, Unicast(m.from,
                                  QueryPacket(m.from, p, NameOnWire(p, m.obj))))
    /\ UNCHANGED <<here, me, replicas, struck, named, acts>>

\* d > 0: mine is more recent
DeltaOutdated(p, m) ==
    /\ Arrived(p, m, "Delta") /\ m.obj \in listed[p]
    /\ Outdated(m.ver, version[p][m.obj][m.prop])
    /\ Receive(m, {})
    /\ UNCHANGED <<here, me, replicas, struck, asked, named, acts>>

\* Mutants: the responsibility is kept; the version is
DeltaNewerKept(p, m) ==
    /\ Arrived(p, m, "Delta") /\ m.obj \in listed[p]
    /\ Newer(m.ver, version[p][m.obj][m.prop])
    /\ value' = [value EXCEPT ![p][m.obj][m.prop] = m.val]
    /\ version' = [version EXCEPT ![p][m.obj][m.prop] = m.ver]
    /\ Receive(m, {})
    /\ UNCHANGED <<here, me, listed, responsible, struck, asked, named, acts>>

DeltaNewerUnnumbered(p, m) ==
    /\ Arrived(p, m, "Delta") /\ m.obj \in listed[p]
    /\ Newer(m.ver, version[p][m.obj][m.prop])
    /\ value' = [value EXCEPT ![p][m.obj][m.prop] = m.val]
    /\ responsible' = [responsible EXCEPT ![p][m.obj][m.prop] = FALSE]
    /\ Receive(m, {})
    /\ UNCHANGED <<here, me, listed, version, struck, asked, named, acts>>

\* d < 0: its own is more recent, leave responsibility to the other one
DeltaNewer(p, m) ==
    /\ Arrived(p, m, "Delta") /\ m.obj \in listed[p]
    /\ Newer(m.ver, version[p][m.obj][m.prop])
    /\ value' = [value EXCEPT ![p][m.obj][m.prop] = m.val]
    /\ responsible' = [responsible EXCEPT ![p][m.obj][m.prop] = FALSE]
    /\ version' = [version EXCEPT ![p][m.obj][m.prop] = m.ver]
    /\ Receive(m, {})
    /\ UNCHANGED <<here, me, listed, struck, asked, named, acts>>

\* Same version, two responsibles: conflict, resolved by a new random version
DeltaConflict(p, m, draw) ==
    /\ Arrived(p, m, "Delta") /\ m.obj \in listed[p]
    /\ m.ver = version[p][m.obj][m.prop]
    /\ responsible[p][m.obj][m.prop]
    /\ Declare(p, {<<m.obj, m.prop>>}, draw, value[p])
    /\ Receive(m, DeclareDeltas(p, {<<m.obj, m.prop>>}, draw, value[p]))
    /\ UNCHANGED <<here, me, listed, struck, asked, named, acts>>

\* Same version, not responsible: just a "recall", the value is not looked at
DeltaRecall(p, m) ==
    /\ Arrived(p, m, "Delta") /\ m.obj \in listed[p]
    /\ m.ver = version[p][m.obj][m.prop]
    /\ ~responsible[p][m.obj][m.prop]
    /\ Receive(m, {})
    /\ UNCHANGED <<here, me, replicas, struck, asked, named, acts>>

\* Mutant: initProperties(true)
IncomingCreateOwned(p, m) ==
    /\ Arrived(p, m, "Create")
    /\ Receive(m, {})
    /\ IF m.obj \in listed[p]
       THEN UNCHANGED replicas
       ELSE List(p, {m.obj}, TRUE, m.vers, m.vals)
    /\ UNCHANGED <<here, me, struck, asked, named, acts>>

\* incomingCreate: a replica with the packet's values and versions, or nothing
IncomingCreate(p, m) ==
    /\ Arrived(p, m, "Create")
    /\ Receive(m, {})
    /\ IF m.obj \in listed[p]
       THEN UNCHANGED replicas
       ELSE List(p, {m.obj}, FALSE, m.vers, m.vals)
    /\ UNCHANGED <<here, me, struck, asked, named, acts>>

\* incomingQuery: the object's state to the requester, or its deletion; the name
\* of no object may also have a null port_id, and is then not answered
IncomingQuery(p, m) ==
    /\ Arrived(p, m, "Query")
    /\ \/ Receive(m, Unicast(m.from,
             IF m.obj \in listed[p]
             THEN CreatePacket(m.from, p, m.obj, version[p][m.obj], value[p][m.obj])
             ELSE DeletePacket(m.from, p, NameOnWire(p, m.obj))))
       \/ m.obj = NoOne /\ Receive(m, {})
    /\ UNCHANGED <<here, me, replicas, struck, asked, named, acts>>

\* Mutant: deleteReplica without its test on localuser
IncomingDeleteAny(p, m) ==
    /\ Arrived(p, m, "Delete")
    /\ Receive(m, {})
    /\ Forget(p, listed[p] \cap {m.obj})
    /\ UNCHANGED <<here, me, asked, named, acts>>

\* incomingDelete: deleteReplica, which spares the local user ("he is back!")
IncomingDelete(p, m) ==
    /\ Arrived(p, m, "Delete")
    /\ Receive(m, {})
    /\ Forget(p, (listed[p] \cap {m.obj}) \ {me[p]})
    /\ UNCHANGED <<here, me, asked, named, acts>>
-----------------------------------------------------------------------------
(***************************************************************************)
(* NetTimeout, run every half second.  late is the set of properties whose *)
(* delay is over: last_seen older than the refresh delay for those p is    *)
(* responsible for, assume_at past for the others.  (assume_at is at least *)
(* twice the refresh delay after last_seen and a heart-beat renews both,   *)
(* so assume_at is never past for a responsible one: module VrepTimer.)    *)
(* Properties are scanned in order, and the scan of an object stops at the *)
(* death of that object.                                                   *)
(***************************************************************************)
Scanned(p) == {s \in Object \X Prop : s[1] \in listed[p] /\ s[2] \in Timed[s[1]]}

Mine(p, s) == responsible[p][s[1]][s[2]]

\* Mutant: the test on version 0 meant for permanent objects
DyingChanged(p, late) ==
    {o \in Volatile : \E s \in late :
        s[1] = o /\ ~Mine(p, s) /\ version[p][s[1]][s[2]] # 0}

\* Volatile objects not refreshed in time: assumed dead
Dying(p, late) == {o \in Volatile : \E s \in late : s[1] = o /\ ~Mine(p, s)}

\* Heart-beats of the scan, before the death of their object if it dies
Beating(p, late) ==
    {s \in late : /\ Mine(p, s)
                  /\ s[1] \in Volatile =>
                        \A t \in late : t[1] = s[1] /\ ~Mine(p, t) => s[2] < t[2]}

\* Mutants: the test on version 0 dropped; inverted
AssumedAlways(p, late) == {s \in late : s[1] \in Permanent /\ ~Mine(p, s)}
AssumedInitial(p, late) ==
    {s \in late : s[1] \in Permanent /\ ~Mine(p, s) /\ version[p][s[1]][s[2]] = 0}

\* Permanent properties not in their initial version: p assumes responsibility
Assumed(p, late) ==
    {s \in late : s[1] \in Permanent /\ ~Mine(p, s) /\ version[p][s[1]][s[2]] # 0}

NetTimeout(p, late, draw) ==
    /\ p \in here /\ Room(p)
    /\ late # {} /\ late \subseteq Scanned(p)
    /\ LET gone == Dying(p, late) \ {me[p]}
           taken == Assumed(p, late)
       IN  /\ listed' = [listed EXCEPT ![p] = @ \ gone]
           /\ responsible' = Whole(Updated(responsible, p, taken, TRUE), p, gone,
                                   AllProps(FALSE))
           /\ version' = Whole([version EXCEPT ![p] = Bumped(p, taken, draw)],
                               p, gone, AllProps(0))
           /\ value' = Whole(value, p, gone, AllProps(Start))
           /\ struck' = [struck EXCEPT ![p] = @ \ gone]
           /\ net' = net \cup Deltas(p, Beating(p, late), version[p], value[p])
                         \cup DeclareDeltas(p, taken, draw, value[p])
                         \cup Deletes(p, Dying(p, late))
    /\ UNCHANGED <<here, me, asked, named, acts, faults>>
-----------------------------------------------------------------------------
(* Surroundings. *)

\* A packet is lost
Lose(m) ==
    /\ m \in net /\ faults < FaultBudget
    /\ net' = net \ {m}
    /\ faults' = faults + 1
    /\ UNCHANGED <<here, me, replicas, struck, asked, named, acts>>

(***************************************************************************)
(* A client of an older VREP version, whose packets recvPayload and        *)
(* NetIncoming still read, moves a permanent object of the world.          *)
(***************************************************************************)
ForeignDelta(o, k, n, x) ==
    /\ ForeignClient /\ Room(NoOne) /\ Act
    /\ o \in Permanent /\ k \in Moving[o]
    /\ net' = net \cup {DeltaPacket(q, NoOne, o, k, n, x) : q \in here}
    /\ UNCHANGED <<here, me, replicas, struck, asked, named, faults>>
-----------------------------------------------------------------------------
UserAction(p) ==
    \/ \E o \in Avatar : Enter(p, o)
    \/ \E o \in Ball \cup Shot : Throw(p, o)
    \/ \E o \in Object, x \in Value : \E K \in SUBSET Moving[o] :
          \/ \E draw \in [{o} \X K -> Draws[p]] : Move(p, o, K, x, draw)
          \/ MoveLocally(p, o, K, x)
    \/ \E b \in Shot, o \in Avatar : Strike(p, b, o)
    \/ \E o \in Ball \cup Shot : Discard(p, o)
    \/ Quit(p)

Handle(p, m) ==
    \/ DeltaUnknown(p, m)
    \/ DeltaOutdated(p, m)
    \/ DeltaNewer(p, m)
    \/ \E d \in Draws[p] : DeltaConflict(p, m, [s \in Object \X Prop |-> d])
    \/ DeltaRecall(p, m)
    \/ IncomingCreate(p, m)
    \/ IncomingQuery(p, m)
    \/ IncomingDelete(p, m)

PacketAction(p) == \E m \in net : Handle(p, m)

TimerAction(p) ==
    \E late \in SUBSET Scanned(p) :
        \E draw \in [Assumed(p, late) -> Draws[p]] : NetTimeout(p, late, draw)

Environment ==
    \/ \E p \in Peer : Crash(p)
    \/ \E m \in net : Lose(m)
    \/ \E o \in Permanent, k \in Prop, n \in Version, x \in Value :
          ForeignDelta(o, k, n, x)

Next ==
    \/ \E p \in Peer : UserAction(p) \/ PacketAction(p) \/ TimerAction(p)
    \/ Environment

Spec == Init /\ [][Next]_vars
=============================================================================
