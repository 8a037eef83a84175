------------------------------ MODULE VrepTimer ------------------------------
(***************************************************************************)
(* The dates of VREng's network objects (class NetProperty: last_seen,     *)
(* assume_at), which module Vrep abstracts to the set "late" of NetTimeout *)
(* : one avatar, its creator and the replicas of it at the other clients,  *)
(* with discrete time.  Heart-beats leave when last_seen is older than the *)
(* refresh delay, a replica dies when the assume_at of one of its          *)
(* properties is past.  Steps take no time; time passes only as far as the *)
(* timers and the packets under way let it (Period, Transit).  The clients *)
(* have no common clock, but the model compares dates of one client only.  *)
(***************************************************************************)
EXTENDS Integers

CONSTANTS
    Peer,       \* clients
    Creator,    \* the client whose avatar the object is
    Prop,       \* the properties NetTimeout scans
    Refresh,    \* DEF_REFRESH_TIMEOUT, in units of time
    Draw,       \* the random parts of an assume delay rand() may draw
    Period,     \* at most this long between two runs of NetTimeout
    Transit,    \* at most this long between sending and handling a packet
    MaxMoves,   \* MaxMoves[k], bound: Deltas of the user's own on property k
    MaxHits,    \* bound: Deltas on the property a strike is sent on
    MaxLosses,  \* bound: packets lost
    Horizon     \* bound: the last date considered

MinAssume == 2 * Refresh
MaxAssume == 5 * Refresh

ASSUME TimerAssumption ==
    /\ Creator \in Peer
    /\ Prop \subseteq Nat /\ Prop # {}
    /\ Refresh \in Nat /\ Period \in Nat /\ Transit \in Nat
    /\ Draw \subseteq 0 .. (MaxAssume - MinAssume)
    /\ MaxMoves \in [Prop -> Nat] /\ MaxHits \in Nat
    /\ MaxLosses \in Nat /\ Horizon \in Nat

VARIABLES
    now,        \* gettimeofday
    knows,      \* the clients that list the object
    version,    \* version[p][k]: NetProperty::version
    last_seen,  \* last_seen[p][k], assume_at[p][k]: NetProperty's dates
    assume_at,
    scanned,    \* scanned[p]: the date of p's last run of NetTimeout
    died,       \* the date the creator left
    stirred,    \* the date of the last Delta on the property of a strike
    wire,       \* packets under way, with the date they were sent
    hits,       \* Deltas on the property of a strike so far
    losses      \* packets lost so far

dates == <<last_seen, assume_at>>
vars == <<now, knows, version, last_seen, assume_at, scanned, died, stirred, wire,
          hits, losses>>

Alive == Creator \in knows
Replicas == Peer \ {Creator}

\* Clients in the world; the creator never is without its avatar
Present == Replicas \cup knows
-----------------------------------------------------------------------------
(* Packets. *)

\* A Delta on a property NetTimeout scans: only the creator is responsible for one
Delta(q, k, n) ==
    [cmd |-> "Delta", to |-> q, from |-> Creator, prop |-> k, ver |-> n, sent |-> now]

\* A Delta on the property of a strike, which NetTimeout does not scan
HitDelta(q, p) == [cmd |-> "Hit", to |-> q, from |-> p, sent |-> now]

Create(q, p) ==
    [cmd |-> "Create", to |-> q, from |-> p, vers |-> version[p], sent |-> now]

Query(q, p) == [cmd |-> "Query", to |-> q, from |-> p, sent |-> now]
Delete(q)   == [cmd |-> "Delete", to |-> q, sent |-> now]

Packet ==
    [cmd : {"Delta"}, to : Replicas, from : {Creator}, prop : Prop, ver : Nat, sent : Nat]
    \cup [cmd : {"Hit"}, to : Peer, from : Peer, sent : Nat]
    \cup [cmd : {"Create"}, to : Replicas, from : Peer, vers : [Prop -> Nat], sent : Nat]
    \cup [cmd : {"Query"}, to : Peer, from : Replicas, sent : Nat]
    \cup [cmd : {"Delete"}, to : Peer, sent : Nat]

Deletes(p) == {Delete(q) : q \in Present \ {p}}
HitDeltas(p) == {HitDelta(q, p) : q \in Present \ {p}}

\* A packet is handled; a duplicate may stay under way
Receive(m, sent) ==
    /\ wire' = (wire \ {m}) \cup sent \/ wire' = wire \cup sent
    /\ UNCHANGED losses

\* Mutants: the whole maximum added; no minimum
AssumeDelayAboveMax == {MaxAssume + x : x \in Draw}
AssumeDelayFromZero == Draw

AssumeDelay == {MinAssume + x : x \in Draw}

\* Mutant: the delay added to both dates
ResetDatesBoth(p, K, d) ==
    /\ last_seen' = [last_seen EXCEPT ![p] =
                        [k \in Prop |-> IF k \in K THEN now + d[k] ELSE @[k]]]
    /\ assume_at' = [assume_at EXCEPT ![p] =
                        [k \in Prop |-> IF k \in K THEN now + d[k] ELSE @[k]]]

\* resetDates of the properties K of the object at p, d[k] being the delay drawn
ResetDates(p, K, d) ==
    /\ last_seen' = [last_seen EXCEPT ![p] =
                        [k \in Prop |-> IF k \in K THEN now ELSE @[k]]]
    /\ assume_at' = [assume_at EXCEPT ![p] =
                        [k \in Prop |-> IF k \in K THEN now + d[k] ELSE @[k]]]

\* delete noh: the properties are freed
Forget(p) ==
    /\ knows' = knows \ {p}
    /\ version' = [version EXCEPT ![p] = [k \in Prop |-> 0]]
    /\ last_seen' = [last_seen EXCEPT ![p] = [k \in Prop |-> 0]]
    /\ assume_at' = [assume_at EXCEPT ![p] = [k \in Prop |-> 0]]
-----------------------------------------------------------------------------
\* The creator has just named its avatar (initProperties); nobody knows of it
Init ==
    /\ now = 0
    /\ knows = {Creator}
    /\ version = [p \in Peer |-> [k \in Prop |-> 0]]
    /\ last_seen = [p \in Peer |-> [k \in Prop |-> 0]]
    /\ \E d \in [Prop -> AssumeDelay] :
          assume_at = [p \in Peer |-> IF p = Creator THEN d ELSE [k \in Prop |-> 0]]
    /\ scanned = [p \in Peer |-> 0]
    /\ died = 0 /\ stirred = 0
    /\ wire = {}
    /\ hits = 0 /\ losses = 0

\* Time passes: no timer and no packet is overdue
Tick ==
    /\ now < Horizon
    /\ \A p \in Present : now < scanned[p] + Period
    /\ \A m \in wire : now < m.sent + Transit
    /\ now' = now + 1
    /\ UNCHANGED <<knows, version, dates, scanned, died, stirred, wire, hits, losses>>
-----------------------------------------------------------------------------
(* The creator. *)

\* The user moves: declareObjDelta on the properties K
Move(K, d) ==
    /\ Alive
    /\ K # {} /\ \A k \in K : version[Creator][k] < MaxMoves[k]
    /\ version' = [version EXCEPT ![Creator] =
                      [k \in Prop |-> IF k \in K THEN @[k] + 1 ELSE @[k]]]
    /\ ResetDates(Creator, K, d)
    /\ wire' = wire \cup {Delta(q, k, version[Creator][k] + 1) : q \in Replicas, k \in K}
    /\ UNCHANGED <<now, knows, scanned, died, stirred, hits, losses>>

\* now - last_seen > refresh
Due(k) == now - last_seen[Creator][k] > Refresh

\* "should assume death of something I am responsible for": the scan is given up
GivesUp(k) == ~Due(k) /\ now > assume_at[Creator][k]

\* The properties the scan refreshes, in order, before it is given up
Refreshed == {k \in Prop : Due(k) /\ \A j \in Prop : GivesUp(j) => k < j}

\* NetTimeout at the creator: heart-beats
ScanOwn(d) ==
    /\ Alive
    /\ ResetDates(Creator, Refreshed, d)
    /\ wire' = wire \cup {Delta(q, k, version[Creator][k]) :
                             q \in Replicas, k \in Refreshed}
    /\ scanned' = [scanned EXCEPT ![Creator] = now]
    /\ UNCHANGED <<now, knows, version, died, stirred, hits, losses>>

\* World::quit, with the deletion declared, or a crash; the socket is closed
Leave(sent) ==
    /\ Alive
    /\ Forget(Creator)
    /\ died' = now
    /\ wire' = {m \in wire \cup sent : m.to # Creator}
    /\ UNCHANGED <<now, scanned, stirred, hits, losses>>

Quit == Leave({Delete(q) : q \in Replicas})
Crash == Leave({})
-----------------------------------------------------------------------------
(* The other clients. *)

\* NetTimeout at p: the first property overdue is the death of the object
ScanReplica(p) ==
    /\ p \in Replicas
    /\ scanned' = [scanned EXCEPT ![p] = now]
    /\ IF p \in knows /\ \E k \in Prop : now > assume_at[p][k]
       THEN /\ Forget(p)
            /\ wire' = wire \cup Deletes(p)
       ELSE UNCHANGED <<knows, version, dates, wire>>
    /\ UNCHANGED <<now, died, stirred, hits, losses>>

\* incomingDelta on an unknown object: Query to whom the Delta came from, unless
\* filterQuery swallows it or the name that leaves is wrong (NameOnWire of Vrep)
DeltaUnknown(p, m) ==
    /\ p \in Replicas \ knows
    /\ m \in wire /\ m.to = p /\ m.cmd \in {"Delta", "Hit"}
    /\ \/ Receive(m, IF m.from \in Present THEN {Query(m.from, p)} ELSE {})
       \/ Receive(m, {})
    /\ UNCHANGED <<now, knows, version, dates, scanned, died, stirred, hits>>

\* Mutant: only news renew the dates
CurrentIfNewer(p, m) == m.ver > version[p][m.prop]

\* Not d > 0: news, or a heart-beat of what p has already
Current(p, m) == m.ver >= version[p][m.prop]

\* incomingDelta on a known object, by a client that is not responsible
DeltaKnown(p, m, d) ==
    /\ m \in wire /\ m.to = p /\ m.cmd = "Delta" /\ p \in knows
    /\ Receive(m, {})
    /\ IF Current(p, m)
       THEN /\ version' = [version EXCEPT ![p][m.prop] = m.ver]
            /\ ResetDates(p, {m.prop}, d)
       ELSE UNCHANGED <<version, dates>>
    /\ UNCHANGED <<now, knows, scanned, died, stirred, hits>>

\* incomingCreate: a replica, unless there is one
IncomingCreate(p, m, d) ==
    /\ m \in wire /\ m.to = p /\ m.cmd = "Create"
    /\ Receive(m, {})
    /\ IF p \in knows
       THEN UNCHANGED <<knows, version, dates>>
       ELSE /\ knows' = knows \cup {p}
            /\ version' = [version EXCEPT ![p] = m.vers]
            /\ ResetDates(p, Prop, d)
    /\ UNCHANGED <<now, scanned, died, stirred, hits>>

\* incomingDelete: deleteReplica, which spares the local user
IncomingDelete(p, m) ==
    /\ m \in wire /\ m.to = p /\ m.cmd = "Delete"
    /\ Receive(m, {})
    /\ IF p \in knows \ {Creator} THEN Forget(p) ELSE UNCHANGED <<knows, version, dates>>
    /\ UNCHANGED <<now, scanned, died, stirred, hits>>
-----------------------------------------------------------------------------
(* Whoever lists the avatar. *)

\* incomingQuery: the state p has of it, the replica of a ghost included; of an
\* unknown object its deletion, or the deletion of another name (NameOnWire)
IncomingQuery(p, m) ==
    /\ p \in Present
    /\ m \in wire /\ m.to = p /\ m.cmd = "Query"
    /\ \/ p \in knows /\ Receive(m, {Create(m.from, p)})
       \/ p \notin knows /\ (Receive(m, {Delete(m.from)}) \/ Receive(m, {}))
    /\ UNCHANGED <<now, knows, version, dates, scanned, died, stirred, hits>>

PublishHit(p) ==
    /\ hits < MaxHits
    /\ hits' = hits + 1
    /\ stirred' = now

(***************************************************************************)
(* User::whenIntersect: a bullet or dart of p strikes the user as p shows  *)
(* him (once for each listing in the code, as often as MaxHits lets it     *)
(* here).  sendDelta renews the dates of that one property, which nobody   *)
(* scans.                                                                  *)
(***************************************************************************)
Strike(p) ==
    /\ p \in knows
    /\ PublishHit(p)
    /\ wire' = wire \cup HitDeltas(p)
    /\ UNCHANGED <<now, knows, version, dates, scanned, died, losses>>

\* incomingDelta of a strike: no date that is scanned is renewed.  A client
\* responsible for the property, the creator or one who struck, may find its own
\* version there and answer with a new one.
IncomingHit(p, m) ==
    /\ m \in wire /\ m.to = p /\ m.cmd = "Hit" /\ p \in knows
    /\ \/ Receive(m, {}) /\ UNCHANGED <<stirred, hits>>
       \/ Receive(m, HitDeltas(p)) /\ PublishHit(p)
    /\ UNCHANGED <<now, knows, version, dates, scanned, died>>
-----------------------------------------------------------------------------
Lose(m) ==
    /\ m \in wire /\ losses < MaxLosses
    /\ wire' = wire \ {m}
    /\ losses' = losses + 1
    /\ UNCHANGED <<now, knows, version, dates, scanned, died, stirred, hits>>

Own ==
    \/ \E K \in SUBSET Prop, d \in [Prop -> AssumeDelay] : Move(K, d)
    \/ \E d \in [Prop -> AssumeDelay] : ScanOwn(d)
    \/ Quit
    \/ Crash

Other(p) ==
    \/ ScanReplica(p)
    \/ \E m \in wire :
          \/ DeltaUnknown(p, m)
          \/ \E d \in [Prop -> AssumeDelay] : DeltaKnown(p, m, d) \/ IncomingCreate(p, m, d)
          \/ IncomingDelete(p, m)

Any(p) ==
    \/ Strike(p)
    \/ \E m \in wire : IncomingQuery(p, m) \/ IncomingHit(p, m)

Next ==
    \/ Tick
    \/ Own
    \/ \E p \in Peer : Other(p) \/ Any(p)
    \/ \E m \in wire : Lose(m)

Spec == Init /\ [][Next]_vars
-----------------------------------------------------------------------------
(* Properties. *)

(***************************************************************************)
(* Types, and no date of the past is in the future: last_seen and the      *)
(* dates of packets and timers (NetProperty::resetDates).                  *)
(***************************************************************************)
TypeOK ==
    /\ now \in Nat /\ died \in 0 .. now /\ stirred \in 0 .. now
    /\ hits \in Nat /\ losses \in Nat
    /\ knows \subseteq Peer
    /\ version \in [Peer -> [Prop -> Nat]]
    /\ last_seen \in [Peer -> [Prop -> 0 .. now]]
    /\ assume_at \in [Peer -> [Prop -> Nat]]
    /\ scanned \in [Peer -> 0 .. now]
    /\ wire \subseteq Packet /\ \A m \in wire : m.sent <= now

(***************************************************************************)
(* A creator is never silent for longer than the refresh delay and one     *)
(* period of NetTimeout: the branch of NetTimeout that gives the scan up   *)
(* because a property p is responsible for is overdue never holds a        *)
(* heart-beat back, whatever the random delays.                            *)
(***************************************************************************)
HeartbeatsPunctual ==
    Alive => \A k \in Prop : now <= last_seen[Creator][k] + Refresh + Period

(***************************************************************************)
(* NetTimeout never declares an avatar dead, or has others delete it,      *)
(* while its user is there: if no packet is lost, timers and packets are   *)
(* timely (Period + Transit at most Refresh), every property's own         *)
(* heart-beat comes before its assume_at, however packets overtake each    *)
(* other, and whenever and from whose replica a replica was created.       *)
(***************************************************************************)
NoFalseDeath == [][\A p \in knows : p \notin knows' => ~Alive']_vars

\* Nothing renews a replica of the avatar after this date: the last packets of a
\* dead creator have arrived, and the Create that answers the Query that answers
\* the last strike
LastRenewal ==
    IF died >= stirred + 2 * Transit THEN died + Transit ELSE stirred + 3 * Transit

(***************************************************************************)
(* Ghosts do not keep each other alive.  A replica of an avatar whose user *)
(* has left, by a crash too, is gone once the longest assume delay and one *)
(* run of NetTimeout are over since the creator's last packet can have     *)
(* arrived, lost Deletes and duplicates included; and though any client    *)
(* that lists it answers Queries with a new replica, only a strike on it   *)
(* makes anybody ask: the ghost outlives the last strike by three transits *)
(* and the same delay, not by more.                                        *)
(***************************************************************************)
GhostsShortLived ==
    ~Alive /\ now > LastRenewal + MaxAssume + Period => knows = {}
=============================================================================
