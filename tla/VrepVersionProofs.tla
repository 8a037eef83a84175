-------------------------- MODULE VrepVersionProofs --------------------------
(***************************************************************************)
(* The order of versions, for any number of versions and any jump, and     *)
(* what follows for replicas: the action properties NoRegress and          *)
(* YieldsToNewer of module VrepSafety; and, until versions wrap, its       *)
(* invariant NeverAhead.                                                   *)
(***************************************************************************)
EXTENDS VrepOwnershipProofs

-----------------------------------------------------------------------------
(* Arithmetic of the versions. *)

LEMMA ModBelow ==
    ASSUME NEW M \in Nat, M > 0, NEW a \in Int, -M <= a, a < 0
    PROVE  a % M = a + M
OBVIOUS

LEMMA ModInside ==
    ASSUME NEW M \in Nat, M > 0, NEW a \in Int, 0 <= a, a < M
    PROVE  a % M = a
OBVIOUS

LEMMA ModAbove ==
    ASSUME NEW M \in Nat, M > 0, NEW a \in Int, M <= a, a < 2 * M
    PROVE  a % M = a - M
OBVIOUS

LEMMA Halves ==
    /\ VersMod \in Nat /\ VersMod > 0
    /\ VersMod = 2 * (VersMod \div 2) /\ VersMod \div 2 \in Nat
BY VersionAssumption

\* The residue of the difference of two versions
LEMMA DifferenceModulo ==
    ASSUME NEW a \in Version, NEW b \in Version
    PROVE  (a - b) % VersMod = IF a < b THEN a - b + VersMod ELSE a - b
<1>1. a \in Int /\ b \in Int /\ 0 <= a /\ a < VersMod /\ 0 <= b /\ b < VersMod
  BY Halves DEF Version
<1>2. CASE a < b
  BY <1>1, <1>2, Halves, ModBelow
<1>3. CASE ~(a < b)
  BY <1>1, <1>3, Halves, ModInside
<1>. QED
  BY <1>2, <1>3

(***************************************************************************)
(* incomingDelta's three cases: a Delta is newer, outdated or of the same  *)
(* version, never two of these, and a newer one is after by at most half   *)
(* of the versions.                                                        *)
(***************************************************************************)
LEMMA NewerAfter ==
    ASSUME NEW r \in Version, NEW v \in Version, Newer(r, v)
    PROVE  After(r, v)
<1>. DEFINE d == (v - r) % VersMod
            j == VersMod - d
<1>1. r \in Int /\ v \in Int /\ 0 <= r /\ r < VersMod /\ 0 <= v /\ v < VersMod
  BY Halves DEF Version
<1>2. d = IF v < r THEN v - r + VersMod ELSE v - r
  BY DifferenceModulo
<1>3. d >= VersMod \div 2 /\ d < VersMod
  BY <1>1, <1>2, Halves DEF Newer, Distance
<1>. HIDE DEF d
<1>4. j \in 1 .. VersMod \div 2
  BY <1>1, <1>2, <1>3, Halves
<1>5. r = (v + j) % VersMod
  <2>1. CASE v < r
    <3>1. v + j = r
      BY <1>1, <1>2, <2>1, Halves
    <3>. QED
      BY <1>1, <3>1, Halves, ModInside
  <2>2. CASE ~(v < r)
    <3>1. v + j = r + VersMod
      BY <1>1, <1>2, <2>2, Halves
    <3>. QED
      BY <1>1, <3>1, Halves, ModAbove
  <2>. QED
    BY <2>1, <2>2
<1>. QED
  BY <1>4, <1>5 DEF After

LEMMA BumpAfter ==
    ASSUME NEW v \in Version, NEW j \in Jump
    PROVE  After(Bump(v, j), v)
BY VersionAssumption, Halves DEF After, Bump, Jump

(***************************************************************************)
(* The tests on d in incomingDelta leave exactly one case: any two         *)
(* versions are equal, or the received one is newer, or it is outdated.    *)
(***************************************************************************)
THEOREM VersionCases ==
    ASSUME NEW r \in Version, NEW v \in Version
    PROVE  /\ r = v \/ Newer(r, v) \/ Outdated(r, v)
           /\ ~(Newer(r, v) /\ Outdated(r, v))
           /\ r = v => ~Newer(r, v) /\ ~Outdated(r, v)
<1>1. r \in Int /\ v \in Int /\ 0 <= r /\ r < VersMod /\ 0 <= v /\ v < VersMod
  BY Halves DEF Version
<1>2. (v - r) % VersMod = IF v < r THEN v - r + VersMod ELSE v - r
  BY DifferenceModulo
<1>. QED
  BY <1>1, <1>2, Halves DEF Newer, Outdated, Distance

\* A version just declared is taken by every replica of the version before it.
THEOREM BumpedIsNewer ==
    ASSUME NEW v \in Version, NEW j \in Jump
    PROVE  Newer(Bump(v, j), v)
<1>. DEFINE n == (v + j) % VersMod
<1>1. /\ v \in Int /\ 0 <= v /\ v < VersMod
      /\ j \in Int /\ 1 <= j /\ j < VersMod \div 2
  BY VersionAssumption, Halves DEF Version, Jump
<1>2. n = IF v + j < VersMod THEN v + j ELSE v + j - VersMod
  <2>1. CASE v + j < VersMod
    BY <1>1, <2>1, Halves, ModInside
  <2>2. CASE ~(v + j < VersMod)
    <3>1. v + j < 2 * VersMod
      BY <1>1, Halves
    <3>. QED
      BY <1>1, <2>2, <3>1, Halves, ModAbove
  <2>. QED
    BY <2>1, <2>2
<1>. HIDE DEF n
<1>3. n \in Version
  BY <1>1, <1>2, Halves DEF Version
<1>4. (v - n) % VersMod = IF v < n THEN v - n + VersMod ELSE v - n
  BY <1>3, DifferenceModulo
<1>5. (v - n) % VersMod = VersMod - j
  BY <1>1, <1>2, <1>4, Halves
<1>. QED
  BY <1>1, <1>5, Halves DEF Newer, Distance, Bump, n
-----------------------------------------------------------------------------
(***************************************************************************)
(* A name listed again gets fresh versions, so no client may throw a ball  *)
(* or a shot under a name it lists: names are listed after they are given, *)
(* and a client outside the world lists nothing.                           *)
(***************************************************************************)
NamedInvariant ==
    /\ TypeOK
    /\ \A p \in Peer : /\ listed[p] \subseteq named \cup Permanent
                       /\ p \notin here => listed[p] = {}
    /\ \A m \in net : m.cmd = "Create" => m.obj \in named \cup Permanent

LEMMA DeltasKnown ==
    ASSUME NEW p, NEW S, NEW n, NEW x
    PROVE  \A m \in Deltas(p, S, n, x) : m.cmd = "Delta"
BY DEF Deltas, DeltaPacket

LEMMA DeletesKnown ==
    ASSUME NEW p, NEW S
    PROVE  \A m \in Deletes(p, S) : m.cmd = "Delete"
BY DEF Deletes, DeletePacket

LEMMA NamedFrom ==
    ASSUME TypeOK',
           \A p \in Peer : /\ listed'[p] \subseteq named' \cup Permanent
                           /\ p \notin here' => listed'[p] = {},
           \A m \in net' : m.cmd = "Create" => m.obj \in named' \cup Permanent
    PROVE  NamedInvariant'
BY DEF NamedInvariant

\* Steps that list nothing and send no Create
LEMMA NamedKept ==
    ASSUME NamedInvariant, TypeOK', NEW sent,
           here' = here, named' = named, net' \subseteq net \cup sent,
           \A m \in sent : m.cmd # "Create",
           \A p \in Peer : listed'[p] \subseteq listed[p]
    PROVE  NamedInvariant'
<1>1. \A p \in Peer : /\ listed'[p] \subseteq named' \cup Permanent
                      /\ p \notin here' => listed'[p] = {}
  BY DEF NamedInvariant
<1>2. \A m \in net' : m.cmd = "Create" => m.obj \in named' \cup Permanent
  BY DEF NamedInvariant
<1>. QED
  BY <1>1, <1>2 DEF NamedInvariant

LEMMA NamedQuiet ==
    ASSUME NamedInvariant, TypeOK',
           here' = here, named' = named, net' \subseteq net,
           \A p \in Peer : listed'[p] \subseteq listed[p]
    PROVE  NamedInvariant'
<1>1. \A p \in Peer : /\ listed'[p] \subseteq named' \cup Permanent
                      /\ p \notin here' => listed'[p] = {}
  BY DEF NamedInvariant
<1>2. \A m \in net' : m.cmd = "Create" => m.obj \in named' \cup Permanent
  BY DEF NamedInvariant
<1>. QED
  BY <1>1, <1>2, NamedFrom

LEMMA NamedUserStep ==
    ASSUME NamedInvariant, TypeOK', NEW p \in Peer, UserAction(p)
    PROVE  NamedInvariant'
<1>1. ASSUME NEW o \in Avatar, Enter(p, o) PROVE NamedInvariant'
  BY <1>1 DEF Enter, NamedInvariant, TypeOK
<1>2. ASSUME NEW o \in Ball \cup Shot, Throw(p, o) PROVE NamedInvariant'
  <2>1. /\ named' = named \cup {o} /\ here' = here /\ p \in here
        /\ listed' = [listed EXCEPT ![p] = @ \cup {o}]
    BY <1>2 DEF Throw, List
  <2>2. \A q \in Peer : /\ listed'[q] \subseteq named' \cup Permanent
                        /\ q \notin here' => listed'[q] = {}
    BY <2>1 DEF NamedInvariant, TypeOK
  <2>3. \A m \in net' : m.cmd = "Create" => m.obj \in named' \cup Permanent
    BY <1>2, <2>1 DEF Throw, CreatePacket, NamedInvariant
  <2>. QED
    BY <2>2, <2>3, NamedFrom
<1>3. ASSUME NEW o \in Object, NEW x \in Value, NEW K \in SUBSET Moving[o],
             NEW draw, Move(p, o, K, x, draw)
      PROVE  NamedInvariant'
  <2>1. /\ here' = here /\ named' = named /\ listed' = listed
        /\ net' \subseteq net \cup DeclareDeltas(p, {o} \X K, draw, MovedValues(p, o, K, x))
    BY <1>3 DEF Move
  <2>. QED
    BY <2>1, DeltasKnown, NamedKept DEF DeclareDeltas
<1>4. ASSUME NEW o \in Object, NEW x \in Value, NEW K, MoveLocally(p, o, K, x)
      PROVE  NamedInvariant'
  <2>1. here' = here /\ named' = named /\ listed' = listed /\ net' \subseteq net
    BY <1>4 DEF MoveLocally
  <2>. QED
    BY <2>1, NamedQuiet
<1>5. ASSUME NEW b \in Shot, NEW o \in Avatar, Strike(p, b, o) PROVE NamedInvariant'
  <2>. DEFINE hit == IF o \in struck[p] THEN {} ELSE {<<o, HitProp>>}
  <2>1. /\ here' = here /\ named' = named
        /\ net' \subseteq net \cup (Deltas(p, hit, version[p], value[p]) \cup Deletes(p, {b}))
        /\ listed' = [listed EXCEPT ![p] = @ \ {b}]
    BY <1>5 DEF Strike
  <2>. HIDE DEF hit
  <2>2. \A q \in Peer : listed'[q] \subseteq listed[q]
    BY <2>1 DEF NamedInvariant, TypeOK
  <2>3. \A m \in Deltas(p, hit, version[p], value[p]) \cup Deletes(p, {b}) : m.cmd # "Create"
    BY DeltasKnown, DeletesKnown
  <2>. QED
    BY <2>1, <2>2, <2>3, NamedKept
<1>6. ASSUME NEW o \in Ball \cup Shot, Discard(p, o) PROVE NamedInvariant'
  <2>1. /\ here' = here /\ named' = named
        /\ net' \subseteq net \cup Deletes(p, {o})
        /\ listed' = [listed EXCEPT ![p] = @ \ {o}]
    BY <1>6 DEF Discard, Forget
  <2>2. \A q \in Peer : listed'[q] \subseteq listed[q]
    BY <2>1 DEF NamedInvariant, TypeOK
  <2>. QED
    BY <2>1, <2>2, DeletesKnown, NamedKept
<1>7. ASSUME Quit(p) PROVE NamedInvariant'
  <2>1. /\ here' = here \ {p} /\ named' = named
        /\ net' \subseteq net \cup Deletes(p, listed[p] \ Permanent)
        /\ listed' = [listed EXCEPT ![p] = @ \ listed[p]]
    BY <1>7 DEF Quit, Leave, Forget
  <2>2. \A q \in Peer : /\ listed'[q] \subseteq named' \cup Permanent
                        /\ q \notin here' => listed'[q] = {}
    BY <2>1 DEF NamedInvariant, TypeOK
  <2>3. \A m \in net' : m.cmd = "Create" => m.obj \in named' \cup Permanent
    BY <2>1, DeletesKnown DEF NamedInvariant
  <2>. QED
    BY <2>2, <2>3, NamedFrom
<1>. QED
  BY <1>1, <1>2, <1>3, <1>4, <1>5, <1>6, <1>7 DEF UserAction

LEMMA NamedPacketStep ==
    ASSUME NamedInvariant, TypeOK', NEW p \in Peer, PacketAction(p)
    PROVE  NamedInvariant'
<1>. PICK m \in net : Handle(p, m)
  BY DEF PacketAction
<1>1. CASE DeltaUnknown(p, m)
  <2>. DEFINE sent == Unicast(m.from, QueryPacket(m.from, p, NameOnWire(p, m.obj)))
  <2>1. here' = here /\ named' = named /\ listed' = listed /\ net' \subseteq net \cup sent
    BY <1>1 DEF DeltaUnknown, Receive, replicas
  <2>2. \A r \in sent : r.cmd # "Create"
    BY DEF Unicast, QueryPacket
  <2>. QED
    BY <2>1, <2>2, NamedKept
<1>2. CASE DeltaOutdated(p, m) \/ DeltaRecall(p, m) \/ DeltaNewer(p, m)
  <2>1. here' = here /\ named' = named /\ listed' = listed /\ net' \subseteq net
    BY <1>2 DEF DeltaOutdated, DeltaRecall, DeltaNewer, Receive, replicas
  <2>. QED
    BY <2>1, NamedQuiet
<1>3. ASSUME NEW draw, DeltaConflict(p, m, draw) PROVE NamedInvariant'
  <2>. DEFINE S == {<<m.obj, m.prop>>}
  <2>1. here' = here /\ named' = named /\ listed' = listed
    BY <1>3 DEF DeltaConflict
  <2>2. net' \subseteq net \cup DeclareDeltas(p, S, draw, value[p])
    BY <1>3 DEF DeltaConflict, Receive
  <2>. HIDE DEF S
  <2>. QED
    BY <2>1, <2>2, DeltasKnown, NamedKept DEF DeclareDeltas
<1>4. CASE IncomingCreate(p, m)
  <2>1. /\ here' = here /\ named' = named /\ net' \subseteq net /\ p \in here
        /\ listed' = listed \/ listed' = [listed EXCEPT ![p] = @ \cup {m.obj}]
    BY <1>4 DEF IncomingCreate, Arrived, Receive, List, replicas
  <2>2. m.obj \in named \cup Permanent
    BY <1>4 DEF IncomingCreate, Arrived, NamedInvariant
  <2>3. \A q \in Peer : listed'[q] \subseteq listed[q] \cup (IF q = p THEN {m.obj} ELSE {})
    BY <2>1 DEF NamedInvariant, TypeOK
  <2>4. \A q \in Peer : /\ listed'[q] \subseteq named' \cup Permanent
                        /\ q \notin here' => listed'[q] = {}
    BY <2>1, <2>2, <2>3 DEF NamedInvariant
  <2>5. \A r \in net' : r.cmd = "Create" => r.obj \in named' \cup Permanent
    BY <2>1 DEF NamedInvariant
  <2>. QED
    BY <2>4, <2>5, NamedFrom
<1>5. CASE IncomingQuery(p, m)
  <2>. DEFINE reply == IF m.obj \in listed[p]
                       THEN CreatePacket(m.from, p, m.obj, version[p][m.obj],
                                         value[p][m.obj])
                       ELSE DeletePacket(m.from, p, NameOnWire(p, m.obj))
  <2>1. /\ here' = here /\ named' = named /\ listed' = listed
        /\ net' \subseteq net \cup Unicast(m.from, reply)
    BY <1>5 DEF IncomingQuery, Receive, replicas
  <2>2. reply.cmd = "Create" => reply.obj \in named \cup Permanent
    BY DEF CreatePacket, DeletePacket, NamedInvariant
  <2>. HIDE DEF reply
  <2>3. \A r \in net' : r.cmd = "Create" => r.obj \in named' \cup Permanent
    BY <2>1, <2>2 DEF Unicast, NamedInvariant
  <2>4. \A q \in Peer : /\ listed'[q] \subseteq named' \cup Permanent
                        /\ q \notin here' => listed'[q] = {}
    BY <2>1 DEF NamedInvariant
  <2>. QED
    BY <2>3, <2>4, NamedFrom
<1>6. CASE IncomingDelete(p, m)
  <2>1. /\ here' = here /\ named' = named /\ net' \subseteq net
        /\ listed' = [listed EXCEPT ![p] = @ \ ((listed[p] \cap {m.obj}) \ {me[p]})]
    BY <1>6 DEF IncomingDelete, Forget, Receive
  <2>2. \A q \in Peer : listed'[q] \subseteq listed[q]
    BY <2>1 DEF NamedInvariant, TypeOK
  <2>. QED
    BY <2>1, <2>2, NamedQuiet
<1>. QED
  BY <1>1, <1>2, <1>3, <1>4, <1>5, <1>6 DEF Handle

LEMMA NamedStep ==
    NamedInvariant /\ [Next]_vars => NamedInvariant'
<1>. SUFFICES ASSUME NamedInvariant, [Next]_vars PROVE NamedInvariant'
  OBVIOUS
<1>1. TypeOK'
  BY TypeStep DEF NamedInvariant
<1>2. ASSUME NEW p \in Peer, TimerAction(p) PROVE NamedInvariant'
  <2>. PICK late \in SUBSET Scanned(p) :
              \E draw \in [Assumed(p, late) -> Draws[p]] : NetTimeout(p, late, draw)
    BY <1>2 DEF TimerAction
  <2>1. PICK draw \in [Assumed(p, late) -> Draws[p]] : NetTimeout(p, late, draw)
    OBVIOUS
  <2>. DEFINE sent == Deltas(p, Beating(p, late), version[p], value[p])
                      \cup DeclareDeltas(p, Assumed(p, late), draw, value[p])
                      \cup Deletes(p, Dying(p, late))
  <2>2. /\ here' = here /\ named' = named /\ net' \subseteq net \cup sent
        /\ listed' = [listed EXCEPT ![p] = @ \ (Dying(p, late) \ {me[p]})]
    BY <2>1 DEF NetTimeout
  <2>3. \A m \in sent : m.cmd # "Create"
    BY DeltasKnown, DeletesKnown DEF DeclareDeltas
  <2>4. \A q \in Peer : listed'[q] \subseteq listed[q]
    BY <2>2 DEF NamedInvariant, TypeOK
  <2>. QED
    BY <1>1, <2>2, <2>3, <2>4, NamedKept
<1>3. ASSUME NEW p \in Peer, Crash(p) PROVE NamedInvariant'
  <2>1. /\ here' = here \ {p} /\ named' = named /\ net' \subseteq net
        /\ listed' = [listed EXCEPT ![p] = @ \ listed[p]]
    BY <1>3 DEF Crash, Leave, Forget
  <2>2. \A q \in Peer : /\ listed'[q] \subseteq named' \cup Permanent
                        /\ q \notin here' => listed'[q] = {}
    BY <2>1 DEF NamedInvariant, TypeOK
  <2>. QED
    BY <1>1, <2>1, <2>2 DEF NamedInvariant
<1>4. ASSUME NEW m \in net, Lose(m) PROVE NamedInvariant'
  <2>1. here' = here /\ named' = named /\ listed' = listed /\ net' \subseteq net
    BY <1>4 DEF Lose, replicas
  <2>. QED
    BY <1>1, <2>1, NamedQuiet
<1>5. ASSUME NEW o \in Permanent, NEW k, NEW n, NEW x,
             ForeignDelta(o, k, n, x)
      PROVE  NamedInvariant'
  <2>1. /\ here' = here /\ named' = named /\ listed' = listed
        /\ net' \subseteq net \cup {DeltaPacket(q, NoOne, o, k, n, x) : q \in here}
    BY <1>5 DEF ForeignDelta, replicas
  <2>2. \A m \in {DeltaPacket(q, NoOne, o, k, n, x) : q \in here} : m.cmd # "Create"
    BY DEF DeltaPacket
  <2>. QED
    BY <1>1, <2>1, <2>2, NamedKept
<1>6. ASSUME UNCHANGED vars PROVE NamedInvariant'
  BY <1>6 DEF vars, NamedInvariant, TypeOK
<1>. QED
  BY <1>1, <1>2, <1>3, <1>4, <1>5, <1>6, NamedUserStep, NamedPacketStep
     DEF Next, Environment

LEMMA NamedInit == Init => NamedInvariant
<1>. SUFFICES ASSUME Init PROVE NamedInvariant
  OBVIOUS
<1>. QED
  BY TypeInit DEF Init, NamedInvariant
-----------------------------------------------------------------------------
(***************************************************************************)
(* What the action properties say of a step: the versions of the objects   *)
(* that stay listed move forward, and responsibility is given up to a      *)
(* newer version only.                                                     *)
(***************************************************************************)
Forward(q, o, k) ==
    /\ version'[q][o][k] = version[q][o][k] \/ After(version'[q][o][k], version[q][o][k])
    /\ responsible[q][o][k] /\ ~responsible'[q][o][k]
          => After(version'[q][o][k], version[q][o][k])

AllForward ==
    \A q \in Peer : \A o \in listed[q] \cap listed'[q] : \A k \in Prop : Forward(q, o, k)

\* declareObjDelta on the pairs of S: flags are set, versions bumped
LEMMA DeclaredForward ==
    ASSUME TypeOK, NEW p \in Peer, NEW S, NEW draw, Draw(S, draw),
           NEW q \in Peer, NEW o \in Object, NEW k \in Prop
    PROVE  LET r == Updated(responsible, p, S, TRUE)
               v == [version EXCEPT ![p] = Bumped(p, S, draw)]
           IN  /\ responsible[q][o][k] => r[q][o][k]
               /\ v[q][o][k] = version[q][o][k] \/ After(v[q][o][k], version[q][o][k])
<1>. DEFINE r == Updated(responsible, p, S, TRUE)
            v == [version EXCEPT ![p] = Bumped(p, S, draw)]
<1>1. responsible[q][o][k] => r[q][o][k]
  BY DEF Updated, TypeOK
<1>2. CASE q = p /\ <<o, k>> \in S
  <2>1. v[q][o][k] = Bump(version[q][o][k], draw[<<o, k>>])
    BY <1>2 DEF Bumped, TypeOK
  <2>2. version[q][o][k] \in Version /\ draw[<<o, k>>] \in Jump
    BY <1>2 DEF TypeOK, Draw
  <2>. QED
    BY <1>1, <2>1, <2>2, BumpAfter
<1>3. CASE ~(q = p /\ <<o, k>> \in S)
  <2>1. v[q][o][k] = version[q][o][k]
    BY <1>3 DEF Bumped, TypeOK
  <2>. QED
    BY <1>1, <2>1
<1>. QED
  BY <1>2, <1>3

LEMMA UnchangedForward ==
    ASSUME UNCHANGED <<responsible, version>>
    PROVE  AllForward
BY DEF AllForward, Forward

\* Steps that only declare
LEMMA DeclareForward ==
    ASSUME TypeOK, NEW p \in Peer, NEW S, NEW draw, NEW vals, Draw(S, draw),
           Declare(p, S, draw, vals)
    PROVE  AllForward
<1>. SUFFICES ASSUME NEW q \in Peer, NEW o \in listed[q] \cap listed'[q], NEW k \in Prop
              PROVE  Forward(q, o, k)
  BY DEF AllForward
<1>1. o \in Object
  BY DEF TypeOK
<1>. QED
  BY <1>1, DeclaredForward DEF Declare, Forward

\* The properties of objects of S may be reset: none stays listed
LEMMA WholeForward ==
    ASSUME TypeOK, NEW p \in Peer, NEW S, NEW g, NEW n,
           responsible' = Whole(responsible, p, S, g), version' = Whole(version, p, S, n),
           \A o \in S : ~(o \in listed[p] /\ o \in listed'[p])
    PROVE  AllForward
<1>. SUFFICES ASSUME NEW q \in Peer, NEW o \in listed[q] \cap listed'[q], NEW k \in Prop
              PROVE  Forward(q, o, k)
  BY DEF AllForward
<1>1. o \in Object /\ ~(q = p /\ o \in S)
  BY DEF TypeOK
<1>2. responsible'[q][o] = responsible[q][o]
  BY <1>1 DEF Whole, TypeOK
<1>3. version'[q][o] = version[q][o]
  BY <1>1 DEF Whole, TypeOK
<1>. QED
  BY <1>2, <1>3 DEF Forward

\* The pairs of S are declared, then the objects of T leave the list
LEMMA DeclaredThenForgotten ==
    ASSUME TypeOK, NEW p \in Peer, NEW S, NEW T, NEW draw, Draw(S, draw),
           responsible' = Whole(Updated(responsible, p, S, TRUE), p, T, AllProps(FALSE)),
           \/ version' = Whole([version EXCEPT ![p] = Bumped(p, S, draw)], p, T, AllProps(0))
           \/ version' = Whole(version, p, T, AllProps(0)),
           \A o \in T : o \notin listed'[p]
    PROVE  AllForward
<1>. SUFFICES ASSUME NEW q \in Peer, NEW o \in listed[q] \cap listed'[q], NEW k \in Prop
              PROVE  Forward(q, o, k)
  BY DEF AllForward
<1>. DEFINE r == Updated(responsible, p, S, TRUE)
            v == [version EXCEPT ![p] = Bumped(p, S, draw)]
<1>1. o \in Object /\ ~(q = p /\ o \in T)
  BY DEF TypeOK
<1>2. /\ r \in [Peer -> [Object -> [Prop -> BOOLEAN]]]
      /\ v \in [Peer -> [Object -> [Prop -> Version]]]
      /\ version \in [Peer -> [Object -> [Prop -> Version]]]
  BY UpdatedType, BumpedType DEF TypeOK
<1>3. /\ responsible[q][o][k] => r[q][o][k]
      /\ v[q][o][k] = version[q][o][k] \/ After(v[q][o][k], version[q][o][k])
  BY <1>1, DeclaredForward
<1>. HIDE DEF r, v
<1>4. responsible'[q][o] = r[q][o]
  BY <1>1, <1>2 DEF Whole, r
<1>5. version'[q][o] = v[q][o] \/ version'[q][o] = version[q][o]
  <2>1. CASE version' = Whole(v, p, T, AllProps(0))
    BY <1>1, <1>2, <2>1 DEF Whole
  <2>2. CASE version' = Whole(version, p, T, AllProps(0))
    BY <1>1, <1>2, <2>2 DEF Whole
  <2>. QED
    BY <2>1, <2>2 DEF v
<1>. QED
  BY <1>3, <1>4, <1>5 DEF Forward

LEMMA UserForward ==
    ASSUME NamedInvariant, NEW p \in Peer, UserAction(p)
    PROVE  AllForward
<1>. USE DEF NamedInvariant
<1>1. ASSUME NEW o \in Avatar, Enter(p, o) PROVE AllForward
  <2>. SUFFICES ASSUME NEW q \in Peer, NEW s \in listed[q] \cap listed'[q],
                       NEW k \in Prop
                PROVE  Forward(q, s, k)
    BY DEF AllForward
  <2>1. listed[p] = {} /\ version' = version
    BY <1>1 DEF Enter
  <2>2. q # p /\ s \in Object
    BY <2>1 DEF TypeOK
  <2>3. responsible'[q][s] = responsible[q][s]
    BY <1>1, <2>2 DEF Enter, Whole, TypeOK
  <2>. QED
    BY <2>1, <2>3 DEF Forward
<1>2. ASSUME NEW o \in Ball \cup Shot, Throw(p, o) PROVE AllForward
  <2>1. o \notin listed[p]
    BY <1>2, NamesAssumption DEF Throw, Volatile
  <2>2. /\ responsible' = Whole(responsible, p, {o}, AllProps(TRUE))
        /\ version' = Whole(version, p, {o}, AllProps(0))
    BY <1>2 DEF Throw, List
  <2>. QED
    BY <2>1, <2>2, WholeForward
<1>3. ASSUME NEW o \in Object, NEW x \in Value, NEW K \in SUBSET Moving[o],
             NEW draw \in [{o} \X K -> Draws[p]], Move(p, o, K, x, draw)
      PROVE  AllForward
  <2>1. Draw({o} \X K, draw)
    BY ParameterAssumption DEF Draw
  <2>2. Declare(p, {o} \X K, draw, MovedValues(p, o, K, x))
    BY <1>3 DEF Move
  <2>. QED
    BY <2>1, <2>2, DeclareForward
<1>4. ASSUME NEW o \in Object, NEW x \in Value, NEW K, MoveLocally(p, o, K, x)
      PROVE  AllForward
  BY <1>4, UnchangedForward DEF MoveLocally
<1>5. ASSUME NEW b \in Shot, NEW o \in Avatar, Strike(p, b, o) PROVE AllForward
  <2>. DEFINE hit == IF o \in struck[p] THEN {} ELSE {<<o, HitProp>>}
  <2>1. /\ responsible' = Whole(Updated(responsible, p, hit, TRUE), p, {b},
                                AllProps(FALSE))
        /\ version' = Whole(version, p, {b}, AllProps(0))
        /\ b \notin listed'[p]
    BY <1>5 DEF Strike, TypeOK
  <2>. DEFINE draw == [s \in hit |-> 1]
  <2>. HIDE DEF hit
  <2>2. Draw(hit, draw)
    BY VersionAssumption DEF Draw, Jump
  <2>3. \A s \in {b} : s \notin listed'[p]
    BY <2>1
  <2>. HIDE DEF draw
  <2>. QED
    BY <2>1, <2>2, <2>3, DeclaredThenForgotten
<1>6. ASSUME NEW o \in Ball \cup Shot, Discard(p, o) PROVE AllForward
  BY <1>6, WholeForward DEF Discard, Forget, TypeOK
<1>7. ASSUME Quit(p) PROVE AllForward
  BY <1>7, WholeForward DEF Quit, Leave, Forget, TypeOK
<1>. QED
  BY <1>1, <1>2, <1>3, <1>4, <1>5, <1>6, <1>7 DEF UserAction

LEMMA PacketForward ==
    ASSUME NamedInvariant, NEW p \in Peer, PacketAction(p)
    PROVE  AllForward
<1>. USE DEF NamedInvariant
<1>. PICK m \in net : Handle(p, m)
  BY DEF PacketAction
<1>1. CASE DeltaUnknown(p, m) \/ DeltaOutdated(p, m) \/ DeltaRecall(p, m)
           \/ IncomingQuery(p, m)
  BY <1>1, UnchangedForward
     DEF DeltaUnknown, DeltaOutdated, DeltaRecall, IncomingQuery, replicas
<1>2. CASE DeltaNewer(p, m)
  <2>. SUFFICES ASSUME NEW q \in Peer, NEW o \in listed[q] \cap listed'[q],
                       NEW k \in Prop
                PROVE  Forward(q, o, k)
    BY DEF AllForward
  <2>1. m \in Packet /\ m.cmd = "Delta" /\ o \in Object
    BY <1>2 DEF DeltaNewer, Arrived, TypeOK
  <2>2. m.obj \in Object /\ m.prop \in Prop /\ m.ver \in Version
    BY <2>1, PacketFields
  <2>3. CASE q = p /\ o = m.obj /\ k = m.prop
    <3>1. version'[q][o][k] = m.ver /\ version[q][o][k] \in Version
      BY <1>2, <2>1, <2>3 DEF DeltaNewer, TypeOK
    <3>2. Newer(m.ver, version[q][o][k])
      BY <1>2, <2>3 DEF DeltaNewer
    <3>. QED
      BY <2>2, <3>1, <3>2, NewerAfter DEF Forward
  <2>4. CASE ~(q = p /\ o = m.obj /\ k = m.prop)
    <3>1. version'[q][o][k] = version[q][o][k]
      BY <1>2, <2>1, <2>4 DEF DeltaNewer, TypeOK
    <3>2. /\ responsible \in [Peer -> [Object -> [Prop -> BOOLEAN]]]
          /\ responsible' = [responsible EXCEPT ![p][m.obj][m.prop] = FALSE]
      BY <1>2 DEF DeltaNewer, TypeOK
    <3>3. responsible'[q][o][k] <=> responsible[q][o][k]
      BY <2>1, <2>4, <3>2
    <3>. QED
      BY <3>1, <3>3 DEF Forward
  <2>. QED
    BY <2>3, <2>4
<1>3. CASE \E d \in Draws[p] : DeltaConflict(p, m, [s \in Object \X Prop |-> d])
  <2>1. PICK d \in Draws[p] : DeltaConflict(p, m, [s \in Object \X Prop |-> d])
    BY <1>3
  <2>. DEFINE S == {<<m.obj, m.prop>>}
              draw == [s \in Object \X Prop |-> d]
  <2>2. m \in Packet /\ m.cmd = "Delta"
    BY <2>1 DEF DeltaConflict, Arrived, TypeOK
  <2>3. S \subseteq Object \X Prop
    BY <2>2, PacketFields
  <2>4. Declare(p, S, draw, value[p])
    BY <2>1 DEF DeltaConflict
  <2>. HIDE DEF S
  <2>5. Draw(S, draw)
    BY <2>3, DrawsType DEF Draw
  <2>. HIDE DEF draw
  <2>. QED
    BY <2>4, <2>5, DeclareForward
<1>4. CASE IncomingCreate(p, m)
  <2>1. CASE m.obj \in listed[p]
    BY <1>4, <2>1, UnchangedForward DEF IncomingCreate, replicas
  <2>2. CASE m.obj \notin listed[p]
    <3>1. List(p, {m.obj}, FALSE, m.vers, m.vals)
      BY <1>4, <2>2 DEF IncomingCreate
    <3>2. \A o \in {m.obj} : ~(o \in listed[p] /\ o \in listed'[p])
      BY <2>2
    <3>3. /\ responsible' = Whole(responsible, p, {m.obj}, AllProps(FALSE))
          /\ version' = Whole(version, p, {m.obj}, m.vers)
      BY <3>1 DEF List
    <3>. QED
      BY <3>2, <3>3, WholeForward
  <2>. QED
    BY <2>1, <2>2
<1>5. CASE IncomingDelete(p, m)
  <2>. DEFINE S == (listed[p] \cap {m.obj}) \ {me[p]}
  <2>1. Forget(p, S)
    BY <1>5 DEF IncomingDelete
  <2>. HIDE DEF S
  <2>2. \A o \in S : o \notin listed'[p]
    BY <2>1 DEF Forget, TypeOK
  <2>. QED
    BY <2>1, <2>2, WholeForward DEF Forget
<1>. QED
  BY <1>1, <1>2, <1>3, <1>4, <1>5 DEF Handle

LEMMA StepForward ==
    ASSUME NamedInvariant, [Next]_vars
    PROVE  AllForward
<1>. USE DEF NamedInvariant
<1>1. ASSUME NEW p \in Peer, NEW late \in SUBSET Scanned(p),
             NEW draw \in [Assumed(p, late) -> Draws[p]], NetTimeout(p, late, draw)
      PROVE  AllForward
  <2>. DEFINE gone == Dying(p, late) \ {me[p]}
              taken == Assumed(p, late)
  <2>1. Draw(taken, draw)
    BY ParameterAssumption DEF Draw
  <2>2. /\ responsible' = Whole(Updated(responsible, p, taken, TRUE), p, gone,
                                AllProps(FALSE))
        /\ version' = Whole([version EXCEPT ![p] = Bumped(p, taken, draw)], p, gone,
                            AllProps(0))
        /\ listed' = [listed EXCEPT ![p] = @ \ gone]
    BY <1>1 DEF NetTimeout
  <2>. HIDE DEF gone, taken
  <2>3. \A o \in gone : o \notin listed'[p]
    BY <2>2 DEF TypeOK
  <2>. QED
    BY <2>1, <2>2, <2>3, DeclaredThenForgotten
<1>2. ASSUME NEW p \in Peer, Crash(p) PROVE AllForward
  BY <1>2, WholeForward DEF Crash, Leave, Forget, TypeOK
<1>3. ASSUME NEW m \in net, Lose(m) PROVE AllForward
  BY <1>3, UnchangedForward DEF Lose, replicas
<1>4. ASSUME NEW o, NEW k, NEW n, NEW x, ForeignDelta(o, k, n, x) PROVE AllForward
  BY <1>4, UnchangedForward DEF ForeignDelta, replicas
<1>5. ASSUME UNCHANGED vars PROVE AllForward
  BY <1>5, UnchangedForward DEF vars
<1>. QED
  BY <1>1, <1>2, <1>3, <1>4, <1>5, UserForward, PacketForward
     DEF Next, TimerAction, Environment

(***************************************************************************)
(* A replica never goes back: whatever Deltas reach a client, in whatever  *)
(* order, incomingDelta, declareObjDelta and the time-outs leave each      *)
(* version of a listed object alone or replace it by a newer one.          *)
(***************************************************************************)
THEOREM NoRegressTheorem == Spec => NoRegress
<1>1. NamedInvariant /\ [Next]_vars =>
        \A p \in Peer : \A o \in listed[p] \cap listed'[p] : \A k \in Prop :
           \/ version'[p][o][k] = version[p][o][k]
           \/ After(version'[p][o][k], version[p][o][k])
  BY StepForward DEF AllForward, Forward
<1>. QED
  BY <1>1, NamedInit, NamedStep, PTL DEF Spec, NoRegress

(***************************************************************************)
(* Responsibility yields to a newer version only: incomingDelta clears the *)
(* flag where it takes a newer version over, and nothing else clears it    *)
(* for an object that stays listed.                                        *)
(***************************************************************************)
THEOREM YieldsTheorem == Spec => YieldsToNewer
<1>1. NamedInvariant /\ [Next]_vars =>
        \A p \in Peer : \A o \in listed[p] \cap listed'[p] : \A k \in Prop :
           responsible[p][o][k] /\ ~responsible'[p][o][k]
             => After(version'[p][o][k], version[p][o][k])
  BY StepForward DEF AllForward, Forward
<1>. QED
  BY <1>1, NamedInit, NamedStep, PTL DEF Spec, YieldsToNewer
-----------------------------------------------------------------------------
(***************************************************************************)
(* The copies of a property's version are those clients list and those     *)
(* packets under way carry.  Until a version wraps, the creator of an      *)
(* object holds the latest of its copies.                                  *)
(***************************************************************************)
Half == VersMod \div 2

Shows(q, s, n) == s[1] \in listed[q] /\ n = version[q][s[1]][s[2]]

Carries(m, s, n) ==
    \/ m.cmd = "Delta" /\ m.obj = s[1] /\ m.prop = s[2] /\ n = m.ver
    \/ m.cmd = "Create" /\ m.obj = s[1] /\ n = m.vers[s[2]]

Copy(s, n) ==
    \/ \E q \in Peer : Shows(q, s, n)
    \/ \E m \in net : Carries(m, s, n)

(***************************************************************************)
(* No version has wrapped: what the creator of an object publishes is in   *)
(* the lower half of the versions, where incomingDelta's comparison is     *)
(* that of the integers.                                                   *)
(***************************************************************************)
Unwrapped ==
    \A p \in Peer : \A s \in Exclusive :
        s[1] \in Creations(p) => version[p][s[1]][s[2]] < Half

CopiesNamed ==
    \A s \in Exclusive : \A n : Copy(s, n) => s[1] \in named

CopiesBounded ==
    \A s \in Exclusive : \A n : Copy(s, n) => n \in Nat /\ n < Half

CopiesBehind ==
    \A p \in Peer : \A s \in Exclusive : \A n :
        s[1] \in Creations(p) /\ Copy(s, n) => n <= version[p][s[1]][s[2]]

CopiesInvariant == CopiesNamed /\ CopiesBounded /\ CopiesBehind

(***************************************************************************)
(* A step of p writes the pairs of N: its creations' versions there exceed *)
(* all there were.  Every other copy is a copy there was.                  *)
(***************************************************************************)
Written(p, N) ==
    /\ named \subseteq named'
    /\ \A s \in Exclusive : s \in N =>
          /\ s[1] \in Creations(p)' /\ s[1] \in named'
          /\ \A n : Copy(s, n) => n < version'[p][s[1]][s[2]]
    /\ \A s \in Exclusive : \A n : Copy(s, n)' =>
          \/ Copy(s, n)
          \/ s \in N /\ n = version'[p][s[1]][s[2]]
    /\ \A q \in Peer : \A s \in Exclusive : s[1] \in Creations(q)' =>
          \/ q = p /\ s \in N
          \/ /\ s[1] \in Creations(q)
             /\ version'[q][s[1]][s[2]] = version[q][s[1]][s[2]]

LEMMA CopiesWritten ==
    ASSUME CopiesInvariant, OwnershipInvariant', Unwrapped',
           NEW p, NEW N, p \in Peer \/ N = {}, Written(p, N)
    PROVE  CopiesInvariant'
<1>. USE DEF Written
<1>1. \A s \in Exclusive : s \in N =>
         version'[p][s[1]][s[2]] \in Nat /\ version'[p][s[1]][s[2]] < Half
  <2>. SUFFICES ASSUME NEW s \in Exclusive, s \in N
                PROVE  version'[p][s[1]][s[2]] \in Nat /\ version'[p][s[1]][s[2]] < Half
    OBVIOUS
  <2>1. version'[p][s[1]][s[2]] \in Version
    BY ExclusivePairs DEF OwnershipInvariant, TypeOK
  <2>2. version'[p][s[1]][s[2]] < Half
    BY DEF Unwrapped, Exclusive
  <2>. QED
    BY <2>1, <2>2, Halves DEF Version
<1>2. CopiesNamed'
  <2>. SUFFICES ASSUME NEW s \in Exclusive, NEW n, Copy(s, n)'
                PROVE  s[1] \in named'
    BY DEF CopiesNamed, Exclusive
  <2>. QED
    BY DEF CopiesInvariant, CopiesNamed
<1>3. CopiesBounded'
  <2>. SUFFICES ASSUME NEW s \in Exclusive, NEW n, Copy(s, n)'
                PROVE  n \in Nat /\ n < Half
    BY DEF CopiesBounded, Exclusive, Half
  <2>. QED
    BY <1>1 DEF CopiesInvariant, CopiesBounded
<1>4. CopiesBehind'
  <2>. SUFFICES ASSUME NEW q \in Peer, NEW s \in Exclusive, NEW n,
                       s[1] \in Creations(q)', Copy(s, n)'
                PROVE  n <= version'[q][s[1]][s[2]]
    BY DEF CopiesBehind, Exclusive
  <2>1. CASE Copy(s, n)
    <3>1. n \in Nat
      BY <2>1 DEF CopiesInvariant, CopiesBounded
    <3>2. CASE q = p /\ s \in N
      <4>1. n < version'[p][s[1]][s[2]]
        BY <2>1, <3>2
      <4>. QED
        BY <1>1, <3>1, <3>2, <4>1
    <3>3. CASE /\ s[1] \in Creations(q)
               /\ version'[q][s[1]][s[2]] = version[q][s[1]][s[2]]
      BY <2>1, <3>3 DEF CopiesInvariant, CopiesBehind
    <3>. QED
      BY <3>2, <3>3
  <2>2. CASE s \in N /\ n = version'[p][s[1]][s[2]]
    <3>1. s[1] \in Creations(p)'
      BY <2>2
    <3>2. q = p
      BY <3>1 DEF Creations
    <3>. QED
      BY <1>1, <2>2, <3>2
  <2>. QED
    BY <2>1, <2>2
<1>. QED
  BY <1>2, <1>3, <1>4 DEF CopiesInvariant

\* A packet that carries copies there are
Traced(m) == \A s \in Exclusive : \A n : Carries(m, s, n) => Copy(s, n)

\* Whatever stays listed is what it was
Steady ==
    \A q \in Peer : \A s \in Exclusive : s[1] \in listed'[q] =>
        /\ s[1] \in listed[q]
        /\ version'[q][s[1]][s[2]] = version[q][s[1]][s[2]]

\* Steps that copy
LEMMA CopiesKept ==
    ASSUME CopiesInvariant, OwnershipInvariant', Unwrapped',
           \A q \in Peer : \A s \in Exclusive : \A n :
              Shows(q, s, n)' => Copy(s, n),
           \A m \in net' : m \in net \/ Traced(m),
           \A q \in Peer : \A s \in Exclusive : s[1] \in Creations(q)' =>
              /\ s[1] \in Creations(q)
              /\ version'[q][s[1]][s[2]] = version[q][s[1]][s[2]],
           named' = named
    PROVE  CopiesInvariant'
<1>1. ASSUME NEW s \in Exclusive, NEW n, Copy(s, n)'
      PROVE  Copy(s, n)
  <2>1. CASE \E q \in Peer : Shows(q, s, n)'
    BY <2>1
  <2>2. CASE \E m \in net' : Carries(m, s, n)
    BY <2>2 DEF Traced, Copy
  <2>. QED
    BY <1>1, <2>1, <2>2 DEF Copy, Carries
<1>. DEFINE N == {}
<1>2. \A s \in Exclusive : \A n : Copy(s, n)' =>
         \/ Copy(s, n)
         \/ s \in N /\ n = version'[NoOne][s[1]][s[2]]
  BY <1>1
<1>3. \A q \in Peer : \A s \in Exclusive : s[1] \in Creations(q)' =>
         \/ q = NoOne /\ s \in N
         \/ /\ s[1] \in Creations(q)
            /\ version'[q][s[1]][s[2]] = version[q][s[1]][s[2]]
  OBVIOUS
<1>4. N = {} /\ \A s : s \notin N
  OBVIOUS
<1>. HIDE DEF N
<1>5. Written(NoOne, N)
  BY <1>2, <1>3, <1>4 DEF Written
<1>. QED
  BY <1>4, <1>5, CopiesWritten

LEMMA SteadyKept ==
    ASSUME CopiesInvariant, OwnershipInvariant', Unwrapped', Steady,
           \A q \in Peer : Creations(q)' \subseteq Creations(q),
           \A m \in net' : m \in net \/ Traced(m),
           named' = named
    PROVE  CopiesInvariant'
<1>1. \A q \in Peer : \A s \in Exclusive : \A n :
         Shows(q, s, n)' => Copy(s, n)
  BY DEF Steady, Shows, Copy
<1>2. \A q \in Peer : \A s \in Exclusive : s[1] \in Creations(q)' =>
         /\ s[1] \in Creations(q)
         /\ version'[q][s[1]][s[2]] = version[q][s[1]][s[2]]
  BY DEF Steady, Creations
<1>. QED
  BY <1>1, <1>2, CopiesKept

\* What p lists is a copy, so Deltas of it are.
LEMMA DeltasTraced ==
    ASSUME NEW p \in Peer, NEW S, S \subseteq Object \X Prop,
           \A s \in S : s \in Exclusive => s[1] \in listed[p]
    PROVE  \A m \in Deltas(p, S, version[p], value[p]) : Traced(m)
<1>. SUFFICES ASSUME NEW q \in Others(p), NEW t \in S, NEW s \in Exclusive, NEW n,
                     Carries(DeltaPacket(q, p, t[1], t[2], version[p][t[1]][t[2]],
                                         value[p][t[1]][t[2]]), s, n)
              PROVE  Copy(s, n)
  BY DEF Deltas, Traced
<1>1. /\ t[1] = s[1] /\ t[2] = s[2]
      /\ n = version[p][t[1]][t[2]]
  BY DEF Carries, DeltaPacket
<1>2. t = s
  BY <1>1, ExclusivePairs
<1>3. Shows(p, s, n)
  BY <1>1, <1>2 DEF Shows
<1>. QED
  BY <1>3 DEF Copy

LEMMA DeltasAside ==
    ASSUME NEW p, NEW S, S \subseteq Object \X Prop, \A s \in S : s \notin Exclusive,
           NEW v, NEW w
    PROVE  \A m \in Deltas(p, S, v, w) : Traced(m)
<1>. SUFFICES ASSUME NEW q \in Others(p), NEW t \in S, NEW s \in Exclusive, NEW n,
                     Carries(DeltaPacket(q, p, t[1], t[2], v[t[1]][t[2]],
                                         w[t[1]][t[2]]), s, n)
              PROVE  FALSE
  BY DEF Deltas, Traced
<1>1. t[1] = s[1] /\ t[2] = s[2]
  BY DEF Carries, DeltaPacket
<1>. QED
  BY <1>1, ExclusivePairs

LEMMA DeletesTraced ==
    ASSUME NEW p, NEW S
    PROVE  \A m \in Deletes(p, S) : Traced(m)
BY DEF Deletes, DeletePacket, Traced, Carries

\* Objects leave the list of p; versions of other than exclusive pairs may change
LEMMA ForgottenSteady ==
    ASSUME TypeOK, NEW p \in Peer, NEW S,
           NEW v \in [Peer -> [Object -> [Prop -> Version]]],
           \A q \in Peer : \A s \in Exclusive :
              v[q][s[1]][s[2]] = version[q][s[1]][s[2]],
           listed' = [listed EXCEPT ![p] = @ \ S],
           version' = Whole(v, p, S, AllProps(0))
    PROVE  Steady
<1>. SUFFICES ASSUME NEW q \in Peer, NEW s \in Exclusive, s[1] \in listed'[q]
              PROVE  /\ s[1] \in listed[q]
                     /\ version'[q][s[1]][s[2]] = version[q][s[1]][s[2]]
  BY DEF Steady
<1>1. s[1] \in Object
  BY ExclusivePairs
<1>2. s[1] \in listed[q] /\ ~(q = p /\ s[1] \in S)
  BY DEF TypeOK
<1>3. version'[q][s[1]] = v[q][s[1]]
  BY <1>1, <1>2 DEF Whole, TypeOK
<1>. QED
  BY <1>2, <1>3

LEMMA ForgetSteady ==
    ASSUME TypeOK, NEW p \in Peer, NEW S, Forget(p, S)
    PROVE  Steady
<1>1. version \in [Peer -> [Object -> [Prop -> Version]]]
  BY DEF TypeOK
<1>. QED
  BY <1>1, ForgottenSteady DEF Forget

LEMMA ReceiveTraced ==
    ASSUME NEW m, NEW sent, Receive(m, sent), \A r \in sent : Traced(r)
    PROVE  \A r \in net' : r \in net \/ Traced(r)
BY DEF Receive
-----------------------------------------------------------------------------
(* One lemma per kind of action. *)

\* A fresh object: no copy of it was about.
LEMMA FreshCopies ==
    ASSUME CopiesInvariant, OwnershipInvariant', Unwrapped',
           NEW p \in Peer, NEW o \in Volatile \ named,
           named' = named \cup {o}, o \in Creations(p)',
           \A q \in Peer : \A t \in Creations(q)' : t \in Creations(q) \/ (q = p /\ t = o),
           \A q \in Peer : \A s \in Exclusive :
              s[1] \in listed'[q] /\ ~(q = p /\ s[1] = o) =>
                 /\ s[1] \in listed[q]
                 /\ version'[q][s[1]][s[2]] = version[q][s[1]][s[2]],
           \A m \in net' : m \in net \/ \A s \in Exclusive : \A n :
              Carries(m, s, n) =>
                 /\ s[1] = o
                 /\ n = version'[p][s[1]][s[2]]
    PROVE  CopiesInvariant'
<1>. DEFINE N == {s \in Exclusive : s[1] = o}
<1>1. \A s \in Exclusive : s \in N =>
         /\ s[1] \in Creations(p)'
         /\ \A n : Copy(s, n) => n < version'[p][s[1]][s[2]]
  BY DEF CopiesInvariant, CopiesNamed
<1>2. ASSUME NEW s \in Exclusive, NEW n, Copy(s, n)'
      PROVE  \/ Copy(s, n)
             \/ s \in N /\ n = version'[p][s[1]][s[2]]
  <2>1. ASSUME NEW q \in Peer, Shows(q, s, n)' PROVE Copy(s, n) \/
             (s \in N /\ n = version'[p][s[1]][s[2]])
    BY <2>1 DEF Shows, Copy
  <2>2. ASSUME NEW m \in net', Carries(m, s, n) PROVE Copy(s, n) \/
             (s \in N /\ n = version'[p][s[1]][s[2]])
    <3>1. CASE m \in net
      BY <2>2, <3>1 DEF Copy
    <3>2. CASE m \notin net
      BY <2>2, <3>2
    <3>. QED
      BY <3>1, <3>2
  <2>. HIDE DEF N
  <2>. QED
    BY <1>2, <2>1, <2>2 DEF Copy, Carries
<1>3. \A q \in Peer : \A s \in Exclusive : s[1] \in Creations(q)' =>
         \/ q = p /\ s \in N
         \/ /\ s[1] \in Creations(q)
            /\ version'[q][s[1]][s[2]] = version[q][s[1]][s[2]]
  BY DEF Creations
<1>4. named \subseteq named' /\ \A s \in Exclusive : s \in N => s[1] \in named'
  OBVIOUS
<1>. HIDE DEF N
<1>5. Written(p, N)
  BY <1>1, <1>2, <1>3, <1>4 DEF Written
<1>. QED
  BY <1>5, CopiesWritten

LEMMA EnterCopies ==
    ASSUME CopiesInvariant, OwnershipInvariant, OwnershipInvariant', Unwrapped',
           NEW p \in Peer, NEW o \in Avatar, Enter(p, o)
    PROVE  CopiesInvariant'
<1>. USE DEF OwnershipInvariant
<1>1. o \in Volatile \ named /\ named' = named \cup {o}
  BY DEF Enter, Volatile
<1>2. /\ me' = [me EXCEPT ![p] = o] /\ listed' = [listed EXCEPT ![p] = Permanent \cup {o}]
      /\ version' = version /\ net' = net /\ Owner[o] = p
  BY DEF Enter
<1>3. o \in Creations(p)'
  BY <1>1, <1>2 DEF Creations, TypeOK
<1>4. \A q \in Peer : \A t \in Creations(q)' : t \in Creations(q) \/ (q = p /\ t = o)
  BY <1>2, NamesAssumption DEF Creations, TypeOK
<1>5. \A q \in Peer : \A s \in Exclusive :
         s[1] \in listed'[q] /\ ~(q = p /\ s[1] = o) => s[1] \in listed[q]
  BY <1>2, ExclusivePairs, NamesAssumption DEF TypeOK
<1>. QED
  BY <1>1, <1>2, <1>3, <1>4, <1>5, FreshCopies

LEMMA ThrowCopies ==
    ASSUME CopiesInvariant, OwnershipInvariant, OwnershipInvariant', Unwrapped',
           NEW p \in Peer, NEW o \in Ball \cup Shot, Throw(p, o)
    PROVE  CopiesInvariant'
<1>. USE DEF OwnershipInvariant
<1>1. o \in Volatile \ named /\ named' = named \cup {o} /\ o \in Object
  BY DEF Throw, Volatile, Object
<1>2. /\ me' = me /\ listed' = [listed EXCEPT ![p] = @ \cup {o}] /\ Owner[o] = p
      /\ version' = Whole(version, p, {o}, AllProps(0))
  BY DEF Throw, List
<1>3. o \in Creations(p)'
  BY <1>1, <1>2, NamesAssumption DEF Creations, TypeOK
<1>4. \A q \in Peer : \A t \in Creations(q)' : t \in Creations(q) \/ (q = p /\ t = o)
  BY <1>2 DEF Creations, TypeOK
<1>5. ASSUME NEW q \in Peer, NEW s \in Exclusive, s[1] \in listed'[q],
             ~(q = p /\ s[1] = o)
      PROVE  /\ s[1] \in listed[q]
             /\ version'[q][s[1]][s[2]] = version[q][s[1]][s[2]]
  <2>1. s[1] \in Object
    BY ExclusivePairs
  <2>. QED
    BY <1>2, <1>5, <2>1 DEF Whole, TypeOK
<1>6. \A k \in Prop : version'[p][o][k] = 0
  BY <1>1, <1>2 DEF Whole, AllProps, TypeOK
<1>7. ASSUME NEW m \in net', m \notin net,
             NEW s \in Exclusive, NEW n, Carries(m, s, n)
      PROVE  /\ s[1] = o
             /\ n = version'[p][s[1]][s[2]]
  <2>1. PICK q \in Others(p) : m = CreatePacket(q, p, o, AllProps(0), AllProps(Start))
    BY <1>7 DEF Throw
  <2>2. s[1] = o /\ s[2] \in Prop /\ n = AllProps(0)[s[2]]
    BY <1>7, <2>1, ExclusivePairs DEF Carries, CreatePacket
  <2>. QED
    BY <1>6, <2>2 DEF AllProps
<1>. QED
  BY <1>1, <1>3, <1>4, <1>5, <1>7, FreshCopies

-----------------------------------------------------------------------------
(* declareObjDelta: the versions of the pairs of S move, no other does. *)

LEMMA VersionsDeclared ==
    ASSUME TypeOK, NEW p \in Peer, NEW S, NEW draw,
           NEW q \in Peer, NEW s \in Exclusive
    PROVE  [version EXCEPT ![p] = Bumped(p, S, draw)][q][s[1]][s[2]] =
              IF q = p /\ s \in S THEN Bump(version[q][s[1]][s[2]], draw[s])
                                  ELSE version[q][s[1]][s[2]]
<1>1. s[1] \in Object /\ s[2] \in Prop /\ s = <<s[1], s[2]>>
  BY ExclusivePairs
<1>2. version \in [Peer -> [Object -> [Prop -> Version]]]
  BY DEF TypeOK
<1>3. CASE q = p
  <2>1. [version EXCEPT ![p] = Bumped(p, S, draw)][q] = Bumped(p, S, draw)
    BY <1>2, <1>3
  <2>2. Bumped(p, S, draw)[s[1]][s[2]] =
           IF <<s[1], s[2]>> \in S THEN Bump(version[p][s[1]][s[2]], draw[<<s[1], s[2]>>])
                                   ELSE version[p][s[1]][s[2]]
    BY <1>1 DEF Bumped
  <2>. QED
    BY <1>1, <1>3, <2>1, <2>2
<1>4. CASE q # p
  BY <1>2, <1>4
<1>. QED
  BY <1>3, <1>4

LEMMA BumpUnwrapped ==
    ASSUME NEW v \in Version, v < Half, NEW j \in Jump
    PROVE  Bump(v, j) = v + j
<1>1. /\ v \in Nat /\ j \in Nat /\ v + j >= 0
      /\ v + j < VersMod
  BY VersionAssumption, Halves DEF Version, Jump, Half
<1>2. (v + j) % VersMod = v + j
  BY <1>1, Halves, ModInside
<1>. QED
  BY <1>2 DEF Bump

\* What the Deltas of a declaration carry
LEMMA DeltasCarry ==
    ASSUME NEW p, NEW S, S \subseteq Object \X Prop, NEW v, NEW w,
           NEW m \in Deltas(p, S, v, w),
           NEW s \in Exclusive, NEW n, Carries(m, s, n)
    PROVE  s \in S /\ n = v[s[1]][s[2]]
<1>1. PICK q \in Others(p), t \in S :
         m = DeltaPacket(q, p, t[1], t[2], v[t[1]][t[2]], w[t[1]][t[2]])
  BY DEF Deltas
<1>2. /\ t[1] = s[1] /\ t[2] = s[2]
      /\ n = v[t[1]][t[2]]
  BY <1>1 DEF Carries, DeltaPacket
<1>3. t = s
  BY <1>2, ExclusivePairs
<1>. QED
  BY <1>2, <1>3

LEMMA MoveCopies ==
    ASSUME CopiesInvariant, OwnershipInvariant, OwnershipInvariant',
           Unwrapped, Unwrapped', NEW p \in Peer, NEW o \in Object, NEW x \in Value,
           NEW K \in SUBSET Moving[o], NEW draw \in [{o} \X K -> Draws[p]],
           Move(p, o, K, x, draw)
    PROVE  CopiesInvariant'
<1>. USE DEF OwnershipInvariant
<1>. DEFINE N == {o} \X K
            w == MovedValues(p, o, K, x)
<1>1. N \subseteq Object \X Prop
  BY PropAssumption
<1>2. \A s \in N : draw[s] \in Jump
  BY ParameterAssumption
<1>3. \A s \in Exclusive : s \in N => s[1] \in Creations(p)
  BY MovedCreation, ExclusivePairs
<1>4. \A q \in Peer : Creations(q)' = Creations(q)
  BY DEF Move, Creations
<1>5. /\ listed' = listed /\ named' = named
      /\ version' = [version EXCEPT ![p] = Bumped(p, N, draw)]
      /\ net' = net \cup Deltas(p, N, Bumped(p, N, draw), w)
  BY DEF Move, Declare, DeclareDeltas
<1>. HIDE DEF N, w
<1>6. ASSUME NEW q \in Peer, NEW s \in Exclusive, ~(q = p /\ s \in N)
      PROVE  version'[q][s[1]][s[2]] = version[q][s[1]][s[2]]
  BY <1>5, <1>6, VersionsDeclared
<1>7. \A s \in Exclusive : s \in N =>
         version'[p][s[1]][s[2]] = version[p][s[1]][s[2]] + draw[s]
  <2>. SUFFICES ASSUME NEW s \in Exclusive, s \in N
                PROVE  version'[p][s[1]][s[2]] = version[p][s[1]][s[2]] + draw[s]
    OBVIOUS
  <2>1. version'[p][s[1]][s[2]] = Bump(version[p][s[1]][s[2]], draw[s])
    <3>1. [version EXCEPT ![p] = Bumped(p, N, draw)][p][s[1]][s[2]]
             = Bump(version[p][s[1]][s[2]], draw[s])
      BY VersionsDeclared
    <3>. QED
      BY <1>5, <3>1
  <2>2. version[p][s[1]][s[2]] \in Version /\ version[p][s[1]][s[2]] < Half
    BY <1>3, ExclusivePairs DEF TypeOK, Unwrapped
  <2>. QED
    BY <1>2, <2>1, <2>2, BumpUnwrapped
<1>8. \A s \in Exclusive : s \in N =>
         /\ s[1] \in Creations(p)' /\ s[1] \in named'
         /\ \A n : Copy(s, n) => n < version'[p][s[1]][s[2]]
  <2>. SUFFICES ASSUME NEW s \in Exclusive, s \in N
                PROVE  /\ s[1] \in Creations(p)' /\ s[1] \in named'
                       /\ \A n : Copy(s, n) => n < version'[p][s[1]][s[2]]
    OBVIOUS
  <2>1. s[1] \in Creations(p)' /\ s[1] \in Creations(p)
    BY <1>3, <1>4
  <2>2. Copy(s, version[p][s[1]][s[2]])
    BY <2>1 DEF Copy, Shows, Creations
  <2>3. s[1] \in named'
    BY <1>5, <2>2 DEF CopiesInvariant, CopiesNamed
  <2>4. ASSUME NEW n, Copy(s, n) PROVE n < version'[p][s[1]][s[2]]
    <3>1. n <= version[p][s[1]][s[2]] /\ n \in Nat
      BY <2>1, <2>4 DEF CopiesInvariant, CopiesBehind, CopiesBounded
    <3>2. version[p][s[1]][s[2]] \in Nat
      BY <2>2 DEF CopiesInvariant, CopiesBounded
    <3>3. draw[s] \in Nat /\ draw[s] >= 1
      BY <1>2 DEF Jump
    <3>. QED
      BY <1>7, <3>1, <3>2, <3>3
  <2>. QED
    BY <2>1, <2>3, <2>4
<1>9. ASSUME NEW s \in Exclusive, NEW n, Copy(s, n)'
       PROVE  \/ Copy(s, n)
              \/ s \in N /\ n = version'[p][s[1]][s[2]]
  <2>1. ASSUME NEW q \in Peer, Shows(q, s, n)'
        PROVE  \/ Copy(s, n)
               \/ s \in N /\ n = version'[p][s[1]][s[2]]
    <3>1. /\ s[1] \in listed[q]
          /\ n = version'[q][s[1]][s[2]]
      BY <1>5, <2>1 DEF Shows
    <3>2. CASE q = p /\ s \in N
      BY <3>1, <3>2
    <3>3. CASE ~(q = p /\ s \in N)
      BY <1>6, <3>1, <3>3 DEF Copy, Shows
    <3>. QED
      BY <3>2, <3>3
  <2>2. ASSUME NEW m \in net', Carries(m, s, n)
        PROVE  \/ Copy(s, n)
               \/ s \in N /\ n = version'[p][s[1]][s[2]]
    <3>1. CASE m \in net
      BY <2>2, <3>1 DEF Copy
    <3>2. CASE m \in Deltas(p, N, Bumped(p, N, draw), w)
      <4>1. s \in N /\ n = Bumped(p, N, draw)[s[1]][s[2]]
        BY <1>1, <2>2, <3>2, DeltasCarry
      <4>2. version'[p] = Bumped(p, N, draw)
        BY <1>5 DEF TypeOK
      <4>. QED
        BY <4>1, <4>2
    <3>. QED
      BY <1>5, <3>1, <3>2
  <2>. QED
    BY <1>9, <2>1, <2>2 DEF Copy, Carries
<1>10. Written(p, N)
  <2>1. named \subseteq named'
    BY <1>5
  <2>2. \A q \in Peer : \A s \in Exclusive : s[1] \in Creations(q)' =>
           \/ q = p /\ s \in N
           \/ /\ s[1] \in Creations(q)
              /\ version'[q][s[1]][s[2]] = version[q][s[1]][s[2]]
    BY <1>4, <1>6
  <2>. QED
    BY <1>8, <1>9, <2>1, <2>2 DEF Written
<1>. QED
  BY <1>10, CopiesWritten

LEMMA StrikeCopies ==
    ASSUME CopiesInvariant, OwnershipInvariant, OwnershipInvariant',
           Unwrapped', NEW p \in Peer, NEW b \in Shot, NEW o \in Avatar, Strike(p, b, o)
    PROVE  CopiesInvariant'
<1>. USE DEF OwnershipInvariant
<1>. DEFINE hit == IF o \in struck[p] THEN {} ELSE {<<o, HitProp>>}
<1>1. /\ net' = net \cup Deltas(p, hit, version[p], value[p]) \cup Deletes(p, {b})
      /\ listed' = [listed EXCEPT ![p] = @ \ {b}] /\ me' = me /\ named' = named
      /\ version' = Whole(version, p, {b}, AllProps(0))
  BY DEF Strike
<1>2. hit \subseteq Object \X Prop /\ \A s \in hit : s \notin Exclusive
  BY PropAssumption DEF Exclusive, Object, Volatile
<1>. HIDE DEF hit
<1>3. \A m \in net' : m \in net \/ Traced(m)
  BY <1>1, <1>2, DeltasAside, DeletesTraced
<1>4. version \in [Peer -> [Object -> [Prop -> Version]]]
  BY DEF TypeOK
<1>5. Steady
  BY <1>1, <1>4, ForgottenSteady
<1>6. \A q \in Peer : Creations(q)' \subseteq Creations(q)
  BY <1>1 DEF Creations, TypeOK
<1>. QED
  BY <1>1, <1>3, <1>5, <1>6, SteadyKept

LEMMA DiscardCopies ==
    ASSUME CopiesInvariant, OwnershipInvariant, OwnershipInvariant',
           Unwrapped', NEW p \in Peer, NEW o \in Ball \cup Shot, Discard(p, o)
    PROVE  CopiesInvariant'
<1>. USE DEF OwnershipInvariant
<1>1. /\ net' = net \cup Deletes(p, {o}) /\ Forget(p, {o}) /\ me' = me /\ named' = named
  BY DEF Discard
<1>2. \A m \in net' : m \in net \/ Traced(m)
  BY <1>1, DeletesTraced
<1>3. Steady
  BY <1>1, ForgetSteady
<1>4. \A q \in Peer : Creations(q)' \subseteq Creations(q)
  BY <1>1 DEF Forget, Creations, TypeOK
<1>. QED
  BY <1>1, <1>2, <1>3, <1>4, SteadyKept

LEMMA LeaveCopies ==
    ASSUME CopiesInvariant, OwnershipInvariant, OwnershipInvariant',
           Unwrapped', NEW p \in Peer, NEW sent, Leave(p, sent),
           \A m \in sent : Traced(m)
    PROVE  CopiesInvariant'
<1>. USE DEF OwnershipInvariant
<1>1. /\ me' = [me EXCEPT ![p] = NoOne] /\ Forget(p, listed[p]) /\ named' = named
      /\ net' \subseteq net \cup sent
  BY DEF Leave
<1>2. \A m \in net' : m \in net \/ Traced(m)
  BY <1>1
<1>3. Steady
  BY <1>1, ForgetSteady
<1>4. \A q \in Peer : Creations(q)' \subseteq Creations(q)
  BY <1>1 DEF Forget, Creations, TypeOK
<1>. QED
  BY <1>1, <1>2, <1>3, <1>4, SteadyKept

\* Steps that leave every list and every replica alone
LEMMA QuietCopies ==
    ASSUME CopiesInvariant, OwnershipInvariant', Unwrapped',
           UNCHANGED <<me, listed, version, named>>,
           \A m \in net' : m \in net \/ Traced(m)
    PROVE  CopiesInvariant'
<1>1. Steady
  BY DEF Steady
<1>2. \A q \in Peer : Creations(q)' \subseteq Creations(q)
  BY DEF Creations
<1>. QED
  BY <1>1, <1>2, SteadyKept

LEMMA MoveLocallyCopies ==
    ASSUME CopiesInvariant, OwnershipInvariant', Unwrapped', NEW p \in Peer,
           NEW o \in Object, NEW x, NEW K, MoveLocally(p, o, K, x)
    PROVE  CopiesInvariant'
<1>1. UNCHANGED <<me, listed, version, named>> /\ net' = net
  BY DEF MoveLocally
<1>2. \A m \in net' : m \in net \/ Traced(m)
  BY <1>1
<1>. QED
  BY <1>1, <1>2, QuietCopies

LEMMA DeltaUnknownCopies ==
    ASSUME CopiesInvariant, OwnershipInvariant', Unwrapped',
           NEW p \in Peer, NEW m \in net, DeltaUnknown(p, m)
    PROVE  CopiesInvariant'
<1>. DEFINE sent == Unicast(m.from, QueryPacket(m.from, p, NameOnWire(p, m.obj)))
<1>1. \A r \in sent : Traced(r)
  BY DEF Unicast, QueryPacket, Traced, Carries
<1>2. net' \subseteq net \cup sent
  BY DEF DeltaUnknown, Receive
<1>3. UNCHANGED <<me, listed, version, named>>
  BY DEF DeltaUnknown, replicas
<1>. HIDE DEF sent
<1>4. \A r \in net' : r \in net \/ Traced(r)
  BY <1>1, <1>2
<1>. QED
  BY <1>3, <1>4, QuietCopies

LEMMA DroppedCopies ==
    ASSUME CopiesInvariant, OwnershipInvariant', Unwrapped', NEW p \in Peer,
           NEW m \in net, DeltaOutdated(p, m) \/ DeltaRecall(p, m)
    PROVE  CopiesInvariant'
<1>1. UNCHANGED <<me, listed, version, named>> /\ net' \subseteq net
  BY DEF DeltaOutdated, DeltaRecall, Receive, replicas
<1>2. \A r \in net' : r \in net \/ Traced(r)
  BY <1>1
<1>. QED
  BY <1>1, <1>2, QuietCopies

\* The answer to a Query is a copy of what the client lists.
LEMMA IncomingQueryCopies ==
    ASSUME CopiesInvariant, OwnershipInvariant', Unwrapped',
           NEW p \in Peer, NEW m \in net, IncomingQuery(p, m)
    PROVE  CopiesInvariant'
<1>. DEFINE answer == IF m.obj \in listed[p]
                      THEN CreatePacket(m.from, p, m.obj, version[p][m.obj],
                                        value[p][m.obj])
                      ELSE DeletePacket(m.from, p, NameOnWire(p, m.obj))
<1>1. UNCHANGED <<me, listed, version, named>>
  BY DEF IncomingQuery, replicas
<1>2. net' \subseteq net \cup {answer}
  BY DEF IncomingQuery, Receive, Unicast
<1>3. Traced(answer)
  <2>. SUFFICES ASSUME NEW s \in Exclusive, NEW n, Carries(answer, s, n)
                PROVE  Copy(s, n)
    BY DEF Traced
  <2>1. m.obj \in listed[p] /\ m.obj = s[1] /\ n = version[p][m.obj][s[2]]
    BY DEF Carries, CreatePacket, DeletePacket
  <2>. QED
    BY <2>1 DEF Copy, Shows
<1>. HIDE DEF answer
<1>4. \A r \in net' : r \in net \/ Traced(r)
  BY <1>2, <1>3
<1>. QED
  BY <1>1, <1>4, QuietCopies

LEMMA IncomingDeleteCopies ==
    ASSUME CopiesInvariant, OwnershipInvariant, OwnershipInvariant', Unwrapped',
           NEW p \in Peer, NEW m \in net, IncomingDelete(p, m)
    PROVE  CopiesInvariant'
<1>. USE DEF OwnershipInvariant
<1>1. /\ Forget(p, (listed[p] \cap {m.obj}) \ {me[p]})
      /\ me' = me /\ named' = named /\ net' \subseteq net
  BY DEF IncomingDelete, Receive
<1>2. Steady
  BY <1>1, ForgetSteady
<1>3. \A q \in Peer : Creations(q)' \subseteq Creations(q)
  BY <1>1 DEF Forget, Creations, TypeOK
<1>4. \A r \in net' : r \in net \/ Traced(r)
  BY <1>1
<1>. QED
  BY <1>1, <1>2, <1>3, <1>4, SteadyKept

\* Nobody answers a Delta on an exclusive property by a new version.
LEMMA DeltaConflictCopies ==
    ASSUME CopiesInvariant, OwnershipInvariant, OwnershipInvariant', Unwrapped',
           NEW p \in Peer, NEW m \in net, NEW draw, DeltaConflict(p, m, draw)
    PROVE  CopiesInvariant'
<1>. USE DEF OwnershipInvariant
<1>. DEFINE S == {<<m.obj, m.prop>>}
<1>1. S \subseteq Object \X Prop /\ \A s \in S : s \notin Exclusive
  BY DeltaOwned DEF DeltaConflict
<1>2. /\ version' = [version EXCEPT ![p] = Bumped(p, S, draw)]
      /\ UNCHANGED <<me, listed, named>>
  BY DEF DeltaConflict, Declare, TypeOK
<1>3. net' \subseteq net \cup Deltas(p, S, Bumped(p, S, draw), value[p])
  BY DEF DeltaConflict, DeclareDeltas, Receive
<1>. HIDE DEF S
<1>4. \A r \in net' : r \in net \/ Traced(r)
  BY <1>1, <1>3, DeltasAside
<1>5. ASSUME NEW q \in Peer, NEW s \in Exclusive
      PROVE  version'[q][s[1]][s[2]] = version[q][s[1]][s[2]]
  <2>1. [version EXCEPT ![p] = Bumped(p, S, draw)][q][s[1]][s[2]]
           = version[q][s[1]][s[2]]
    BY <1>1, VersionsDeclared
  <2>. QED
    BY <1>2, <2>1
<1>6. Steady
  BY <1>2, <1>5 DEF Steady
<1>7. \A q \in Peer : Creations(q)' \subseteq Creations(q)
  BY <1>2 DEF Creations
<1>. QED
  BY <1>2, <1>4, <1>6, <1>7, SteadyKept

\* A replica takes over what the Delta carries; no creator is sent one.
LEMMA DeltaNewerCopies ==
    ASSUME CopiesInvariant, OwnershipInvariant, OwnershipInvariant', Unwrapped',
           NEW p \in Peer, NEW m \in net, DeltaNewer(p, m)
    PROVE  CopiesInvariant'
<1>. USE DEF OwnershipInvariant
<1>. DEFINE t == <<m.obj, m.prop>>
<1>1. /\ version' = [version EXCEPT ![p][m.obj][m.prop] = m.ver]
      /\ UNCHANGED <<me, listed, named>> /\ net' \subseteq net
      /\ m.cmd = "Delta"
  BY DEF DeltaNewer, Arrived, Receive
<1>2. /\ m.obj \in Object /\ m.prop \in Prop
      /\ t \in Exclusive => Owner[m.obj] # p
  BY DeltaOwned DEF DeltaNewer
<1>3. ASSUME NEW q \in Peer, NEW s \in Exclusive
      PROVE  /\ q = p /\ s = t => version'[q][s[1]][s[2]] = m.ver
             /\ ~(q = p /\ s = t) => version'[q][s[1]][s[2]] = version[q][s[1]][s[2]]
  <2>1. s[1] \in Object /\ s[2] \in Prop /\ s = <<s[1], s[2]>>
    BY ExclusivePairs
  <2>. QED
    BY <1>1, <1>2, <2>1 DEF TypeOK
<1>4. ASSUME NEW q \in Peer, NEW s \in Exclusive, NEW n, Shows(q, s, n)'
      PROVE  Copy(s, n)
  <2>1. CASE q = p /\ s = t
    <3>1. n = m.ver /\ m.obj = s[1] /\ m.prop = s[2]
      BY <1>3, <1>4, <2>1 DEF Shows
    <3>. QED
      BY <1>1, <3>1 DEF Copy, Carries
  <2>2. CASE ~(q = p /\ s = t)
    BY <1>1, <1>3, <1>4, <2>2 DEF Copy, Shows
  <2>. QED
    BY <2>1, <2>2
<1>5. ASSUME NEW q \in Peer, NEW s \in Exclusive, s[1] \in Creations(q)'
      PROVE  /\ s[1] \in Creations(q)
             /\ version'[q][s[1]][s[2]] = version[q][s[1]][s[2]]
  <2>1. s[1] \in Creations(q) /\ Owner[s[1]] = q
    BY <1>1, <1>5 DEF Creations
  <2>2. ~(q = p /\ s = t)
    BY <1>2, <2>1
  <2>. QED
    BY <1>3, <2>1, <2>2
<1>6. \A r \in net' : r \in net \/ Traced(r)
  BY <1>1
<1>. HIDE DEF t
<1>7. named' = named
  BY <1>1
<1>. QED
  BY <1>4, <1>5, <1>6, <1>7, CopiesKept

\* A replica is what the Create carries.
LEMMA IncomingCreateCopies ==
    ASSUME CopiesInvariant, OwnershipInvariant, OwnershipInvariant', Unwrapped',
           NEW p \in Peer, NEW m \in net, IncomingCreate(p, m)
    PROVE  CopiesInvariant'
<1>. USE DEF OwnershipInvariant
<1>1. /\ UNCHANGED <<me, named>> /\ net' \subseteq net /\ m.cmd = "Create"
  BY DEF IncomingCreate, Arrived, Receive
<1>2. \A r \in net' : r \in net \/ Traced(r)
  BY <1>1
<1>3. CASE m.obj \in listed[p]
  <2>1. UNCHANGED <<me, listed, version, named>>
    BY <1>1, <1>3 DEF IncomingCreate, replicas
  <2>. QED
    BY <1>2, <2>1, QuietCopies
<1>4. CASE m.obj \notin listed[p]
  <2>1. /\ List(p, {m.obj}, FALSE, m.vers, m.vals) /\ m.obj \notin Creations(p)
        /\ \A q \in Peer : Creations(q)' = Creations(q)
    BY <1>4, CreatedElsewhere
  <2>2. ASSUME NEW q \in Peer, NEW s \in Exclusive
        PROVE  /\ q = p /\ s[1] = m.obj => version'[q][s[1]][s[2]] = m.vers[s[2]]
               /\ ~(q = p /\ s[1] = m.obj) =>
                     /\ version'[q][s[1]][s[2]] = version[q][s[1]][s[2]]
                     /\ s[1] \in listed'[q] => s[1] \in listed[q]
    <3>1. s[1] \in Object /\ s[2] \in Prop
      BY ExclusivePairs
    <3>. QED
      BY <2>1, <3>1 DEF List, Whole, TypeOK
  <2>3. ASSUME NEW q \in Peer, NEW s \in Exclusive, NEW n, Shows(q, s, n)'
        PROVE  Copy(s, n)
    <3>1. CASE q = p /\ s[1] = m.obj
      <4>1. n = m.vers[s[2]]
        BY <2>2, <2>3, <3>1 DEF Shows
      <4>. QED
        BY <1>1, <3>1, <4>1 DEF Copy, Carries
    <3>2. CASE ~(q = p /\ s[1] = m.obj)
      BY <2>2, <2>3, <3>2 DEF Copy, Shows
    <3>. QED
      BY <3>1, <3>2
  <2>4. \A q \in Peer : \A s \in Exclusive : s[1] \in Creations(q)' =>
           /\ s[1] \in Creations(q)
           /\ version'[q][s[1]][s[2]] = version[q][s[1]][s[2]]
    BY <2>1, <2>2
  <2>5. named' = named
    BY <1>1
  <2>. QED
    BY <1>2, <2>3, <2>4, <2>5, CopiesKept
<1>. QED
  BY <1>3, <1>4

\* Heart-beats repeat what is listed; permanent properties are nobody's own.
LEMMA NetTimeoutCopies ==
    ASSUME CopiesInvariant, OwnershipInvariant, OwnershipInvariant', Unwrapped',
           NEW p \in Peer, NEW late \in SUBSET Scanned(p),
           NEW draw \in [Assumed(p, late) -> Draws[p]], NetTimeout(p, late, draw)
    PROVE  CopiesInvariant'
<1>. USE DEF OwnershipInvariant
<1>. DEFINE gone == Dying(p, late) \ {me[p]}
            taken == Assumed(p, late)
            v == [version EXCEPT ![p] = Bumped(p, taken, draw)]
<1>1. late \subseteq Object \X Prop /\ \A s \in late : s[1] \in listed[p]
  BY DEF Scanned
<1>2. taken \subseteq Object \X Prop /\ \A s \in taken : s \notin Exclusive
  BY <1>1, NamesAssumption DEF Assumed, Exclusive
<1>3. /\ Beating(p, late) \subseteq Object \X Prop
      /\ \A s \in Beating(p, late) : s \in Exclusive => s[1] \in listed[p]
  BY <1>1 DEF Beating
<1>4. /\ listed' = [listed EXCEPT ![p] = @ \ gone] /\ me' = me /\ named' = named
      /\ version' = Whole(v, p, gone, AllProps(0))
      /\ net' = net \cup Deltas(p, Beating(p, late), version[p], value[p])
                    \cup Deltas(p, taken, Bumped(p, taken, draw), value[p])
                    \cup Deletes(p, Dying(p, late))
  BY DEF NetTimeout, DeclareDeltas
<1>5. v \in [Peer -> [Object -> [Prop -> Version]]]
  <2>1. Draw(taken, draw)
    BY ParameterAssumption DEF Draw
  <2>. QED
    BY <2>1, BumpedType DEF TypeOK
<1>. HIDE DEF gone, taken
<1>6. \A q \in Peer : \A s \in Exclusive : v[q][s[1]][s[2]] = version[q][s[1]][s[2]]
  BY <1>2, VersionsDeclared
<1>. HIDE DEF v
<1>7. Steady
  BY <1>4, <1>5, <1>6, ForgottenSteady
<1>8. \A q \in Peer : Creations(q)' \subseteq Creations(q)
  BY <1>4 DEF Creations, TypeOK
<1>9. \A m \in net' : m \in net \/ Traced(m)
  <2>1. \A m \in Deltas(p, Beating(p, late), version[p], value[p]) : Traced(m)
    BY <1>3, DeltasTraced
  <2>2. \A m \in Deltas(p, taken, Bumped(p, taken, draw), value[p]) : Traced(m)
    BY <1>2, DeltasAside
  <2>. QED
    BY <1>4, <2>1, <2>2, DeletesTraced
<1>. QED
  BY <1>4, <1>7, <1>8, <1>9, SteadyKept

LEMMA ForeignCopies ==
    ASSUME CopiesInvariant, OwnershipInvariant', Unwrapped',
           NEW o \in Permanent, NEW k, NEW n, NEW x, ForeignDelta(o, k, n, x)
    PROVE  CopiesInvariant'
<1>1. UNCHANGED <<me, listed, version, named>>
  BY DEF ForeignDelta, replicas
<1>2. \A q \in here : Traced(DeltaPacket(q, NoOne, o, k, n, x))
  BY NamesAssumption, ExclusivePairs DEF Traced, Carries, DeltaPacket
<1>3. \A r \in net' : r \in net \/ Traced(r)
  BY <1>2 DEF ForeignDelta
<1>. QED
  BY <1>1, <1>3, QuietCopies

LEMMA CopiesInit == Init => CopiesInvariant
BY DEF Init, CopiesInvariant, CopiesNamed, CopiesBounded, CopiesBehind,
       Copy, Shows, Creations

LEMMA CopiesStep ==
    ASSUME CopiesInvariant, OwnershipInvariant, OwnershipInvariant', Unwrapped,
           Unwrapped', [Next]_vars
    PROVE  CopiesInvariant'
<1>1. ASSUME NEW p \in Peer, UserAction(p) PROVE CopiesInvariant'
  <2>1. CASE Quit(p)
    BY <2>1, LeaveCopies, DeletesTraced DEF Quit
  <2>. QED
    BY <1>1, <2>1, EnterCopies, ThrowCopies, MoveCopies, MoveLocallyCopies, StrikeCopies,
       DiscardCopies
       DEF UserAction
<1>2. ASSUME NEW p \in Peer, PacketAction(p) PROVE CopiesInvariant'
  BY <1>2, DeltaUnknownCopies, DroppedCopies, DeltaNewerCopies, DeltaConflictCopies,
     IncomingCreateCopies, IncomingQueryCopies, IncomingDeleteCopies
     DEF PacketAction, Handle
<1>3. ASSUME NEW p \in Peer, TimerAction(p) PROVE CopiesInvariant'
  BY <1>3, NetTimeoutCopies DEF TimerAction
<1>4. ASSUME NEW p \in Peer, Crash(p) PROVE CopiesInvariant'
  BY <1>4, LeaveCopies DEF Crash
<1>5. ASSUME NEW m, Lose(m) PROVE CopiesInvariant'
  BY <1>5, QuietCopies DEF Lose, replicas
<1>6. CASE UNCHANGED vars
  <2>1. UNCHANGED <<me, listed, version, named>> /\ net' = net
    BY <1>6 DEF vars
  <2>2. \A m \in net' : m \in net \/ Traced(m)
    BY <2>1
  <2>. QED
    BY <2>1, <2>2, QuietCopies
<1>. QED
  BY <1>1, <1>2, <1>3, <1>4, <1>5, <1>6, ForeignCopies DEF Next, Environment

-----------------------------------------------------------------------------
(* The copies make the two invariants of VrepSafety. *)

LEMMA MovingExclusive ==
    \A o \in Avatar \cup Shot \cup Ball : \A k \in Moving[o] :
        o \in Volatile /\ o \in Object /\ k \in Prop /\ <<o, k>> \in Exclusive
<1>. SUFFICES ASSUME NEW o \in Avatar \cup Shot \cup Ball, NEW k \in Moving[o]
              PROVE  o \in Volatile /\ o \in Object /\ k \in Prop /\ <<o, k>> \in Exclusive
  OBVIOUS
<1>1. o \in Volatile /\ o \in Object
  BY DEF Volatile, Object
<1>2. k \in Prop /\ (o \in Avatar => k # HitProp)
  BY <1>1, PropAssumption
<1>. QED
  BY <1>1, <1>2 DEF Exclusive

LEMMA BehindNotAfter ==
    ASSUME NEW v \in Nat, v < Half, NEW n \in Nat, n <= v
    PROVE  ~After(n, v)
<1>. SUFFICES ASSUME NEW j \in 1 .. VersMod \div 2, n = (v + j) % VersMod
              PROVE  FALSE
  BY DEF After
<1>1. v + j < VersMod /\ v + j \in Nat
  BY Halves DEF Half
<1>2. (v + j) % VersMod = v + j
  BY <1>1, Halves, ModInside
<1>. QED
  BY <1>2

LEMMA CopiesNotAhead ==
    ASSUME CopiesInvariant, OwnershipInvariant
    PROVE  NeverAhead
<1>. SUFFICES ASSUME NEW p \in Peer, NEW q \in Peer,
                     NEW o \in Creations(p) \cap listed[q], NEW k \in Moving[o]
              PROVE  ~After(version[q][o][k], version[p][o][k])
  BY DEF NeverAhead, OwnershipInvariant, TypeOK
<1>. DEFINE s == <<o, k>>
<1>1. s \in Exclusive /\ s[1] = o /\ s[2] = k
  BY MovingExclusive DEF Creations, Volatile
<1>2. Copy(s, version[q][o][k])
  BY <1>1 DEF Copy, Shows
<1>3. Copy(s, version[p][o][k])
  BY <1>1 DEF Copy, Shows, Creations
<1>. HIDE DEF s
<1>4. /\ version[q][o][k] \in Nat
      /\ version[p][o][k] \in Nat /\ version[p][o][k] < Half
  BY <1>1, <1>2, <1>3 DEF CopiesInvariant, CopiesBounded
<1>5. version[q][o][k] <= version[p][o][k]
  BY <1>1, <1>2 DEF CopiesInvariant, CopiesBehind
<1>. QED
  BY <1>4, <1>5, BehindNotAfter

(***************************************************************************)
(* Until versions wrap at its creator, no copy of an exclusive property,   *)
(* at a client or in a packet under way, is newer than the creator's.      *)
(***************************************************************************)
THEOREM CopiesHold == Spec /\ []Unwrapped => []CopiesInvariant
<1>1. CopiesInvariant /\ OwnershipInvariant /\ OwnershipInvariant' /\ Unwrapped
        /\ Unwrapped' /\ [Next]_vars => CopiesInvariant'
  BY CopiesStep
<1>. QED
  BY <1>1, CopiesInit, OwnershipHolds, PTL DEF Spec

(***************************************************************************)
(* A replica never runs ahead of the object's creator: until the versions  *)
(* wrap there, the version of no other client is after the creator's.      *)
(***************************************************************************)
THEOREM NeverAheadTheorem == Spec /\ []Unwrapped => []NeverAhead
BY CopiesHold, OwnershipHolds, CopiesNotAhead, PTL
-----------------------------------------------------------------------------
(***************************************************************************)
(* Versions of exclusive properties move by operations of the users only,  *)
(* each by VersJump at most.                                               *)
(***************************************************************************)
Spent == acts * VersJump

Within(m) == \A s \in Exclusive : \A n : Carries(m, s, n) => n <= Spent

VersionsSpent ==
    /\ \A q \in Peer : \A s \in Exclusive : version[q][s[1]][s[2]] <= Spent
    /\ \A m \in net : Within(m)

LEMMA SpentGrows ==
    ASSUME TypeOK, acts' = acts \/ Act
    PROVE  /\ Spent \in Nat /\ Spent' \in Nat /\ Spent <= Spent'
           /\ Act => Spent' = Spent + VersJump
<1>1. acts \in Nat /\ VersJump \in Nat /\ acts' \in {acts, acts + 1}
      /\ (Act => acts' = acts + 1)
  BY VersionAssumption, Halves, ParameterAssumption DEF TypeOK, Act
<1>2. acts * VersJump \in Nat /\ (acts + 1) * VersJump = acts * VersJump + VersJump
  BY <1>1
<1>3. acts' * VersJump \in Nat /\ acts * VersJump <= acts' * VersJump
      /\ (Act => acts' * VersJump = acts * VersJump + VersJump)
  <2>1. CASE acts' = acts /\ ~Act
    BY <1>2, <2>1
  <2>2. CASE acts' = acts + 1
    BY <1>1, <1>2, <2>2
  <2>. QED
    BY <1>1, <2>1, <2>2
<1>. QED
  BY <1>2, <1>3 DEF Spent

LEMMA SpentPositive ==
    ASSUME TypeOK
    PROVE  Spent \in Nat
<1>1. acts \in Nat /\ VersJump \in Nat
  BY VersionAssumption, Halves, ParameterAssumption DEF TypeOK
<1>. QED
  BY <1>1 DEF Spent

LEMMA SpentKept ==
    ASSUME TypeOK, TypeOK', VersionsSpent, acts' = acts \/ Act,
           \A q \in Peer : \A s \in Exclusive :
              version'[q][s[1]][s[2]] <= Spent \/ version'[q][s[1]][s[2]] <= Spent',
           \A m \in net' : m \in net \/ Within(m)
    PROVE  VersionsSpent'
<1>1. Spent \in Nat /\ Spent' \in Nat /\ Spent <= Spent'
  BY SpentGrows
<1>2. ASSUME NEW q \in Peer, NEW s \in Exclusive
      PROVE  version'[q][s[1]][s[2]] <= Spent'
  <2>1. version'[q][s[1]][s[2]] \in Nat
    BY ExclusivePairs, Halves DEF TypeOK, Version
  <2>. QED
    BY <1>1, <2>1
<1>3. ASSUME NEW m \in net', NEW s \in Exclusive, NEW n, Carries(m, s, n)
      PROVE  n <= Spent'
  <2>1. Within(m)
    BY DEF VersionsSpent
  <2>2. n <= Spent
    BY <1>3, <2>1 DEF Within
  <2>3. n \in Nat
    <3>1. m \in Packet
      BY DEF TypeOK
    <3>2. n \in Version
      BY <1>3, <3>1, PacketFields, ExclusivePairs DEF Carries
    <3>. QED
      BY <3>2, Halves DEF Version
  <2>. QED
    BY <1>1, <2>2, <2>3
<1>. QED
  BY <1>2, <1>3 DEF VersionsSpent, Within, Carries, Exclusive

\* Versions that are those of v, or 0 for the objects of S
LEMMA WholeSpent ==
    ASSUME TypeOK, NEW p \in Peer, NEW S,
           NEW v \in [Peer -> [Object -> [Prop -> Version]]],
           \A q \in Peer : \A s \in Exclusive : v[q][s[1]][s[2]] <= Spent,
           version' = Whole(v, p, S, AllProps(0))
    PROVE  \A q \in Peer : \A s \in Exclusive : version'[q][s[1]][s[2]] <= Spent
<1>. SUFFICES ASSUME NEW q \in Peer, NEW s \in Exclusive
              PROVE  version'[q][s[1]][s[2]] <= Spent
  OBVIOUS
<1>1. s[1] \in Object /\ s[2] \in Prop
  BY ExclusivePairs
<1>2. version'[q][s[1]] = AllProps(0) \/ version'[q][s[1]] = v[q][s[1]]
  BY <1>1 DEF Whole
<1>3. 0 <= Spent
  BY SpentPositive
<1>. QED
  BY <1>1, <1>2, <1>3 DEF AllProps

\* What a packet on listed objects, or on none that is exclusive, carries
LEMMA TracedWithin ==
    ASSUME VersionsSpent
    PROVE  \A m : Traced(m) => Within(m)
<1>. SUFFICES ASSUME NEW m, Traced(m), NEW s \in Exclusive, NEW n,
                     Carries(m, s, n)
              PROVE  n <= Spent
  BY DEF Within
<1>1. Copy(s, n)
  BY DEF Traced
<1>. QED
  BY <1>1 DEF Copy, Shows, VersionsSpent, Within

LEMMA DeltasWithin ==
    ASSUME VersionsSpent, NEW p \in Peer, NEW S, S \subseteq Object \X Prop, NEW w
    PROVE  \A m \in Deltas(p, S, version[p], w) : Within(m)
<1>. SUFFICES ASSUME NEW m \in Deltas(p, S, version[p], w), NEW s \in Exclusive,
                     NEW n, Carries(m, s, n)
              PROVE  n <= Spent
  BY DEF Within
<1>1. n = version[p][s[1]][s[2]]
  BY DeltasCarry
<1>. QED
  BY <1>1 DEF VersionsSpent

\* Steps that leave the versions alone
LEMMA QuietSpent ==
    ASSUME TypeOK, TypeOK', VersionsSpent, acts' = acts \/ Act, version' = version,
           \A m \in net' : m \in net \/ Within(m)
    PROVE  VersionsSpent'
<1>1. \A q \in Peer : \A s \in Exclusive : version'[q][s[1]][s[2]] <= Spent
  BY DEF VersionsSpent
<1>. QED
  BY <1>1, SpentKept

\* Steps that reset the versions of the objects of S
LEMMA ForgetSpent ==
    ASSUME TypeOK, TypeOK', VersionsSpent, acts' = acts \/ Act, NEW p \in Peer, NEW S,
           version' = Whole(version, p, S, AllProps(0)),
           \A m \in net' : m \in net \/ Within(m)
    PROVE  VersionsSpent'
<1>1. version \in [Peer -> [Object -> [Prop -> Version]]]
  BY DEF TypeOK
<1>2. \A q \in Peer : \A s \in Exclusive : version'[q][s[1]][s[2]] <= Spent
  BY <1>1, WholeSpent DEF VersionsSpent
<1>. QED
  BY <1>2, SpentKept

LEMMA MoveSpent ==
    ASSUME TypeOK, TypeOK', VersionsSpent, NEW p \in Peer, NEW o \in Object,
           NEW x \in Value, NEW K \in SUBSET Moving[o],
           NEW draw \in [{o} \X K -> Draws[p]], Move(p, o, K, x, draw)
    PROVE  VersionsSpent'
<1>. DEFINE N == {o} \X K
            w == MovedValues(p, o, K, x)
<1>1. N \subseteq Object \X Prop
  BY PropAssumption
<1>2. \A s \in N : draw[s] \in Nat /\ draw[s] <= VersJump
  BY ParameterAssumption, VersionAssumption DEF Jump
<1>3. /\ version' = [version EXCEPT ![p] = Bumped(p, N, draw)] /\ Act
      /\ net' = net \cup Deltas(p, N, Bumped(p, N, draw), w)
  BY DEF Move, Declare, DeclareDeltas
<1>. HIDE DEF N, w
<1>4. Spent \in Nat /\ Spent' = Spent + VersJump /\ VersJump \in Nat
  BY <1>3, SpentGrows, VersionAssumption, Halves
<1>5. ASSUME NEW q \in Peer, NEW s \in Exclusive
      PROVE  version'[q][s[1]][s[2]] <= Spent'
  <2>1. version[q][s[1]][s[2]] \in Version /\ version[q][s[1]][s[2]] <= Spent
    BY ExclusivePairs DEF VersionsSpent, TypeOK
  <2>. DEFINE u == [version EXCEPT ![p] = Bumped(p, N, draw)][q][s[1]][s[2]]
  <2>2. version'[q][s[1]][s[2]] = u
    BY <1>3
  <2>3. ASSUME NEW v \in Nat, NEW j \in Nat PROVE Bump(v, j) <= v + j
    BY Halves DEF Bump
  <2>4. u \in Nat
    BY <2>2, ExclusivePairs, Halves DEF TypeOK, Version
  <2>5. CASE q = p /\ s \in N
    <3>1. /\ version[q][s[1]][s[2]] \in Nat
          /\ draw[s] \in Nat /\ draw[s] <= VersJump
      BY <1>2, <2>1, <2>5, Halves DEF Version
    <3>2. u = Bump(version[q][s[1]][s[2]], draw[s])
      BY <2>5, VersionsDeclared
    <3>. HIDE DEF u
    <3>3. u <= version[q][s[1]][s[2]] + draw[s]
      BY <2>3, <3>1, <3>2
    <3>. QED
      BY <1>4, <2>1, <2>2, <2>4, <3>1, <3>3
  <2>6. CASE ~(q = p /\ s \in N)
    <3>1. u = version[q][s[1]][s[2]]
      BY <2>6, VersionsDeclared
    <3>. HIDE DEF u
    <3>. QED
      BY <1>4, <2>1, <2>2, <3>1, Halves DEF Version
  <2>. QED
    BY <2>5, <2>6
<1>6. ASSUME NEW m \in net' PROVE Within(m)'
  <2>. SUFFICES ASSUME NEW s \in Exclusive, NEW n, Carries(m, s, n)
                PROVE  n <= Spent'
    BY DEF Within, Carries, Exclusive
  <2>1. CASE m \in net
    <3>1. n <= Spent
      BY <2>1 DEF VersionsSpent, Within
    <3>2. n \in Version
      BY <2>1, PacketFields, ExclusivePairs DEF Carries, TypeOK
    <3>. QED
      BY <1>4, <3>1, <3>2, Halves DEF Version
  <2>2. CASE m \in Deltas(p, N, Bumped(p, N, draw), w)
    <3>1. n = Bumped(p, N, draw)[s[1]][s[2]]
      BY <1>1, <2>2, DeltasCarry
    <3>2. version'[p] = Bumped(p, N, draw)
      BY <1>3 DEF TypeOK
    <3>. QED
      BY <1>5, <3>1, <3>2
  <2>. QED
    BY <1>3, <2>1, <2>2
<1>. QED
  BY <1>5, <1>6 DEF VersionsSpent, Exclusive

LEMMA UserSpent ==
    ASSUME OwnershipInvariant, TypeOK', VersionsSpent, NEW p \in Peer, UserAction(p)
    PROVE  VersionsSpent'
<1>. USE DEF OwnershipInvariant
<1>1. ASSUME NEW o \in Avatar, Enter(p, o) PROVE VersionsSpent'
  BY <1>1, QuietSpent DEF Enter
<1>2. ASSUME NEW o \in Ball \cup Shot, Throw(p, o) PROVE VersionsSpent'
  <2>1. ASSUME NEW m \in net' PROVE m \in net \/ Within(m)
    <3>1. CASE m \in {CreatePacket(q, p, o, AllProps(0), AllProps(Start)) :
                         q \in Others(p)}
      <4>. SUFFICES ASSUME NEW s \in Exclusive, NEW n, Carries(m, s, n)
                    PROVE  n <= Spent
        BY DEF Within
      <4>1. n = AllProps(0)[s[2]] /\ s[2] \in Prop
        BY <3>1, ExclusivePairs DEF Carries, CreatePacket
      <4>. QED
        BY <4>1, SpentPositive DEF AllProps
    <3>. QED
      BY <1>2, <3>1 DEF Throw
  <2>2. version' = Whole(version, p, {o}, AllProps(0)) /\ Act
    BY <1>2 DEF Throw, List
  <2>. QED
    BY <2>1, <2>2, ForgetSpent
<1>3. ASSUME NEW o \in Object, NEW x \in Value, NEW K \in SUBSET Moving[o],
             MoveLocally(p, o, K, x)
      PROVE  VersionsSpent'
  BY <1>3, QuietSpent DEF MoveLocally
<1>4. ASSUME NEW b \in Shot, NEW o \in Avatar, Strike(p, b, o) PROVE VersionsSpent'
  <2>. DEFINE hit == IF o \in struck[p] THEN {} ELSE {<<o, HitProp>>}
  <2>1. /\ net' = net \cup Deltas(p, hit, version[p], value[p]) \cup Deletes(p, {b})
        /\ version' = Whole(version, p, {b}, AllProps(0)) /\ Act
    BY <1>4 DEF Strike
  <2>2. hit \subseteq Object \X Prop
    BY PropAssumption DEF Object, Volatile
  <2>. HIDE DEF hit
  <2>3. \A m \in net' : m \in net \/ Within(m)
    BY <2>1, <2>2, DeltasWithin, DeletesTraced, TracedWithin
  <2>. QED
    BY <2>1, <2>3, ForgetSpent
<1>5. ASSUME NEW o \in Ball \cup Shot, Discard(p, o) PROVE VersionsSpent'
  <2>1. /\ net' = net \cup Deletes(p, {o})
        /\ version' = Whole(version, p, {o}, AllProps(0)) /\ Act
    BY <1>5 DEF Discard, Forget
  <2>2. \A m \in net' : m \in net \/ Within(m)
    BY <2>1, DeletesTraced, TracedWithin
  <2>. QED
    BY <2>1, <2>2, ForgetSpent
<1>6. ASSUME Quit(p) PROVE VersionsSpent'
  <2>1. /\ net' \subseteq net \cup Deletes(p, listed[p] \ Permanent)
        /\ version' = Whole(version, p, listed[p], AllProps(0)) /\ acts' = acts
    BY <1>6 DEF Quit, Leave, Forget
  <2>2. \A m \in net' : m \in net \/ Within(m)
    BY <2>1, DeletesTraced, TracedWithin
  <2>. QED
    BY <2>1, <2>2, ForgetSpent
<1>. QED
  BY <1>1, <1>2, <1>3, <1>4, <1>5, <1>6, MoveSpent DEF UserAction

LEMMA PacketSpent ==
    ASSUME OwnershipInvariant, TypeOK', VersionsSpent, NEW p \in Peer, NEW m \in net,
           Handle(p, m)
    PROVE  VersionsSpent'
<1>. USE DEF OwnershipInvariant
<1>1. CASE DeltaUnknown(p, m)
  <2>. DEFINE sent == Unicast(m.from, QueryPacket(m.from, p, NameOnWire(p, m.obj)))
  <2>1. \A r \in sent : Within(r)
    BY DEF Unicast, QueryPacket, Within, Carries
  <2>2. net' \subseteq net \cup sent /\ version' = version /\ acts' = acts
    BY <1>1 DEF DeltaUnknown, Receive, replicas
  <2>. HIDE DEF sent
  <2>3. \A r \in net' : r \in net \/ Within(r)
    BY <2>1, <2>2
  <2>. QED
    BY <2>2, <2>3, QuietSpent
<1>2. CASE DeltaOutdated(p, m) \/ DeltaRecall(p, m)
  <2>1. version' = version /\ acts' = acts /\ \A r \in net' : r \in net
    BY <1>2 DEF DeltaOutdated, DeltaRecall, Receive, replicas
  <2>. QED
    BY <2>1, QuietSpent
<1>3. CASE DeltaNewer(p, m)
  <2>1. /\ version' = [version EXCEPT ![p][m.obj][m.prop] = m.ver] /\ acts' = acts
        /\ \A r \in net' : r \in net
        /\ m.cmd = "Delta"
    BY <1>3 DEF DeltaNewer, Arrived, Receive
  <2>2. m.obj \in Object /\ m.prop \in Prop
    BY <1>3, DeltaOwned DEF DeltaNewer
  <2>3. ASSUME NEW q \in Peer, NEW s \in Exclusive
        PROVE  version'[q][s[1]][s[2]] <= Spent
    <3>1. s[1] \in Object /\ s[2] \in Prop
      BY ExclusivePairs
    <3>2. CASE q = p /\ s[1] = m.obj /\ s[2] = m.prop
      <4>1. version'[q][s[1]][s[2]] = m.ver
        BY <2>1, <2>2, <3>2 DEF TypeOK
      <4>2. Carries(m, s, m.ver)
        BY <2>1, <3>2 DEF Carries
      <4>. QED
        BY <4>1, <4>2 DEF VersionsSpent, Within
    <3>3. CASE ~(q = p /\ s[1] = m.obj /\ s[2] = m.prop)
      <4>1. version'[q][s[1]][s[2]] = version[q][s[1]][s[2]]
        BY <2>1, <2>2, <3>1, <3>3 DEF TypeOK
      <4>. QED
        BY <4>1 DEF VersionsSpent
    <3>. QED
      BY <3>2, <3>3
  <2>. QED
    BY <2>1, <2>3, SpentKept
<1>4. ASSUME NEW draw, DeltaConflict(p, m, draw) PROVE VersionsSpent'
  <2>. DEFINE S == {<<m.obj, m.prop>>}
  <2>1. S \subseteq Object \X Prop /\ \A s \in S : s \notin Exclusive
    BY <1>4, DeltaOwned DEF DeltaConflict
  <2>2. version' = [version EXCEPT ![p] = Bumped(p, S, draw)] /\ acts' = acts
    BY <1>4 DEF DeltaConflict, Declare
  <2>3. net' \subseteq net \cup Deltas(p, S, Bumped(p, S, draw), value[p])
    BY <1>4 DEF DeltaConflict, DeclareDeltas, Receive
  <2>. HIDE DEF S
  <2>4. \A r \in net' : r \in net \/ Within(r)
    BY <2>1, <2>3, DeltasAside, TracedWithin
  <2>5. ASSUME NEW q \in Peer, NEW s \in Exclusive
        PROVE  version'[q][s[1]][s[2]] <= Spent
    <3>1. [version EXCEPT ![p] = Bumped(p, S, draw)][q][s[1]][s[2]]
             = version[q][s[1]][s[2]]
      BY <2>1, VersionsDeclared
    <3>. QED
      BY <2>2, <3>1 DEF VersionsSpent
  <2>. QED
    BY <2>2, <2>4, <2>5, SpentKept
<1>5. CASE IncomingCreate(p, m)
  <2>1. /\ acts' = acts /\ m.cmd = "Create" /\ \A r \in net' : r \in net
        /\ version' = version \/ version' = Whole(version, p, {m.obj}, m.vers)
    BY <1>5 DEF IncomingCreate, Arrived, Receive, List, replicas
  <2>2. ASSUME NEW q \in Peer, NEW s \in Exclusive
        PROVE  version'[q][s[1]][s[2]] <= Spent
    <3>1. s[1] \in Object
      BY ExclusivePairs
    <3>2. \/ version'[q][s[1]] = version[q][s[1]]
          \/ s[1] = m.obj /\ version'[q][s[1]] = m.vers
      <4>1. CASE version' = version
        BY <4>1
      <4>2. CASE version' = Whole(version, p, {m.obj}, m.vers)
        BY <3>1, <4>2 DEF Whole, TypeOK
      <4>. QED
        BY <2>1, <4>1, <4>2
    <3>3. s[1] = m.obj => Carries(m, s, m.vers[s[2]])
      BY <2>1 DEF Carries
    <3>. QED
      BY <3>2, <3>3 DEF VersionsSpent, Within
  <2>. QED
    BY <2>1, <2>2, SpentKept
<1>6. CASE IncomingQuery(p, m)
  <2>. DEFINE answer == IF m.obj \in listed[p]
                        THEN CreatePacket(m.from, p, m.obj, version[p][m.obj],
                                          value[p][m.obj])
                        ELSE DeletePacket(m.from, p, NameOnWire(p, m.obj))
  <2>1. version' = version /\ acts' = acts /\ net' \subseteq net \cup {answer}
    BY <1>6 DEF IncomingQuery, Receive, Unicast, replicas
  <2>2. Within(answer)
    <3>. SUFFICES ASSUME NEW s \in Exclusive, NEW n, Carries(answer, s, n)
                  PROVE  n <= Spent
      BY DEF Within
    <3>1. m.obj = s[1] /\ n = version[p][m.obj][s[2]]
      BY DEF Carries, CreatePacket, DeletePacket
    <3>. QED
      BY <3>1 DEF VersionsSpent
  <2>. HIDE DEF answer
  <2>3. \A r \in net' : r \in net \/ Within(r)
    BY <2>1, <2>2
  <2>. QED
    BY <2>1, <2>3, QuietSpent
<1>7. CASE IncomingDelete(p, m)
  <2>1. /\ version' = Whole(version, p, (listed[p] \cap {m.obj}) \ {me[p]}, AllProps(0))
        /\ acts' = acts /\ \A r \in net' : r \in net
    BY <1>7 DEF IncomingDelete, Forget, Receive
  <2>. QED
    BY <2>1, ForgetSpent
<1>. QED
  BY <1>1, <1>2, <1>3, <1>4, <1>5, <1>6, <1>7 DEF Handle

LEMMA TimeoutSpent ==
    ASSUME OwnershipInvariant, TypeOK', VersionsSpent, NEW p \in Peer,
           NEW late \in SUBSET Scanned(p),
           NEW draw \in [Assumed(p, late) -> Draws[p]], NetTimeout(p, late, draw)
    PROVE  VersionsSpent'
<1>. USE DEF OwnershipInvariant
<1>. DEFINE gone == Dying(p, late) \ {me[p]}
            taken == Assumed(p, late)
            v == [version EXCEPT ![p] = Bumped(p, taken, draw)]
<1>1. late \subseteq Object \X Prop
  BY DEF Scanned
<1>2. taken \subseteq Object \X Prop /\ \A s \in taken : s \notin Exclusive
  BY <1>1, NamesAssumption DEF Assumed, Exclusive
<1>3. Beating(p, late) \subseteq Object \X Prop
  BY <1>1 DEF Beating
<1>4. /\ version' = Whole(v, p, gone, AllProps(0)) /\ acts' = acts
      /\ net' = net \cup Deltas(p, Beating(p, late), version[p], value[p])
                    \cup Deltas(p, taken, Bumped(p, taken, draw), value[p])
                    \cup Deletes(p, Dying(p, late))
  BY DEF NetTimeout, DeclareDeltas
<1>5. v \in [Peer -> [Object -> [Prop -> Version]]]
  <2>1. Draw(taken, draw)
    BY ParameterAssumption DEF Draw
  <2>. QED
    BY <2>1, BumpedType DEF TypeOK
<1>. HIDE DEF gone, taken
<1>6. \A q \in Peer : \A s \in Exclusive : v[q][s[1]][s[2]] = version[q][s[1]][s[2]]
  BY <1>2, VersionsDeclared
<1>. HIDE DEF v
<1>7. \A q \in Peer : \A s \in Exclusive : v[q][s[1]][s[2]] <= Spent
  BY <1>6 DEF VersionsSpent
<1>8. \A q \in Peer : \A s \in Exclusive : version'[q][s[1]][s[2]] <= Spent
  BY <1>4, <1>5, <1>7, WholeSpent
<1>9. \A m \in net' : m \in net \/ Within(m)
  <2>1. \A m \in Deltas(p, Beating(p, late), version[p], value[p]) : Within(m)
    BY <1>3, DeltasWithin
  <2>2. \A m \in Deltas(p, taken, Bumped(p, taken, draw), value[p]) : Within(m)
    BY <1>2, DeltasAside, TracedWithin
  <2>. QED
    BY <1>4, <2>1, <2>2, DeletesTraced, TracedWithin
<1>. QED
  BY <1>4, <1>8, <1>9, SpentKept

LEMMA SpentStep ==
    ASSUME OwnershipInvariant, OwnershipInvariant', VersionsSpent, [Next]_vars
    PROVE  VersionsSpent'
<1>. USE DEF OwnershipInvariant
<1>1. ASSUME NEW p \in Peer, Crash(p) PROVE VersionsSpent'
  <2>1. /\ version' = Whole(version, p, listed[p], AllProps(0)) /\ acts' = acts
        /\ \A m \in net' : m \in net
    BY <1>1 DEF Crash, Leave, Forget
  <2>. QED
    BY <2>1, ForgetSpent
<1>2. ASSUME NEW m, Lose(m) PROVE VersionsSpent'
  BY <1>2, QuietSpent DEF Lose, replicas
<1>3. ASSUME NEW o \in Permanent, NEW k, NEW n, NEW x,
             ForeignDelta(o, k, n, x)
      PROVE  VersionsSpent'
  <2>1. \A q \in here : Within(DeltaPacket(q, NoOne, o, k, n, x))
    BY NamesAssumption, ExclusivePairs DEF Within, Carries, DeltaPacket
  <2>2. /\ version' = version /\ Act
        /\ net' = net \cup {DeltaPacket(q, NoOne, o, k, n, x) : q \in here}
    BY <1>3 DEF ForeignDelta, replicas
  <2>3. \A m \in net' : m \in net \/ Within(m)
    BY <2>1, <2>2
  <2>. QED
    BY <2>2, <2>3, QuietSpent
<1>4. CASE UNCHANGED vars
  <2>1. version' = version /\ acts' = acts /\ \A m \in net' : m \in net
    BY <1>4 DEF vars
  <2>. QED
    BY <2>1, QuietSpent
<1>. HIDE DEF OwnershipInvariant
<1>5. TypeOK'
  BY DEF OwnershipInvariant
<1>. QED
  BY <1>1, <1>2, <1>3, <1>4, <1>5, UserSpent, PacketSpent, TimeoutSpent
     DEF Next, PacketAction, TimerAction, Environment

LEMMA SpentInit == Init => VersionsSpent
<1>. SUFFICES ASSUME Init PROVE VersionsSpent
  OBVIOUS
<1>1. Spent \in Nat
  BY TypeInit, SpentPositive
<1>. QED
  BY <1>1, ExclusivePairs DEF Init, VersionsSpent, AllProps

LEMMA SpentBelow ==
    ASSUME ActBudget * VersJump < VersMod \div 2, TypeOK, VersionsSpent
    PROVE  Unwrapped
<1>. SUFFICES ASSUME NEW p \in Peer, NEW s \in Exclusive
              PROVE  version[p][s[1]][s[2]] < Half
  BY DEF Unwrapped
<1>1. acts \in Nat /\ ActBudget \in Nat /\ VersJump \in Nat /\ acts <= ActBudget
  BY ParameterAssumption, VersionAssumption, Halves DEF TypeOK
<1>2. acts * VersJump <= ActBudget * VersJump /\ ActBudget * VersJump \in Nat
      /\ acts * VersJump \in Nat
  BY <1>1
<1>3. version[p][s[1]][s[2]] \in Nat /\ version[p][s[1]][s[2]] <= acts * VersJump
  BY ExclusivePairs, Halves DEF VersionsSpent, Spent, TypeOK, Version
<1>. QED
  BY <1>2, <1>3, Halves DEF Half

(***************************************************************************)
(* Users alone make versions wrap: as long as they have moved, thrown and  *)
(* struck fewer than VersMod / 2 / VersJump times (3276 in the code), no   *)
(* version of a user, ball or shot is in the upper half, however often the *)
(* heart-beats, conflicts and time-outs ran.                               *)
(***************************************************************************)
THEOREM UnwrappedTheorem ==
    ASSUME ActBudget * VersJump < VersMod \div 2
    PROVE  Spec => []Unwrapped
<1>1. OwnershipInvariant /\ OwnershipInvariant' /\ VersionsSpent /\ [Next]_vars
        => VersionsSpent'
  BY SpentStep
<1>2. OwnershipInvariant /\ VersionsSpent => Unwrapped
  BY SpentBelow DEF OwnershipInvariant
<1>. QED
  BY <1>1, <1>2, SpentInit, OwnershipHolds, PTL DEF Spec

(***************************************************************************)
(* Hence NeverAhead without a hypothesis on the behaviour, for every       *)
(* number of clients, objects, packets and faults, whatever the losses,    *)
(* reorderings, crashes and visits anew: what the run of MCVrep checks is  *)
(* the instance of a few.                                                  *)
(***************************************************************************)
THEOREM NeverAheadUnwrapped ==
    ASSUME ActBudget * VersJump < VersMod \div 2
    PROVE  Spec => []NeverAhead
BY UnwrappedTheorem, NeverAheadTheorem, PTL
=============================================================================
