----------------------------- MODULE VrepProofs -----------------------------
(***************************************************************************)
(* Proofs about the replication protocol of module Vrep.                   *)
(***************************************************************************)
EXTENDS VrepSafety, TLAPS

-----------------------------------------------------------------------------
(* The operators Vrep is built from. *)

\* A version bumped by a step is a version.
LEMMA BumpType ==
    ASSUME NEW v \in Version, NEW j \in Jump
    PROVE  Bump(v, j) \in Version
BY VersionAssumption DEF Version, Jump, Bump

\* Setting one object's properties keeps a per-client table a table.
LEMMA WholeType ==
    ASSUME NEW D, NEW f \in [Peer -> [Object -> [Prop -> D]]],
           NEW p \in Peer, NEW S, NEW g \in [Prop -> D]
    PROVE  Whole(f, p, S, g) \in [Peer -> [Object -> [Prop -> D]]]
BY DEF Whole

LEMMA UpdatedType ==
    ASSUME NEW D, NEW f \in [Peer -> [Object -> [Prop -> D]]],
           NEW p \in Peer, NEW S, NEW x \in D
    PROVE  Updated(f, p, S, x) \in [Peer -> [Object -> [Prop -> D]]]
BY DEF Updated

\* A draw of steps for the pairs of S
Draw(S, draw) == \A s \in S : draw[s] \in Jump

LEMMA BumpedType ==
    ASSUME TypeOK, NEW p \in Peer, NEW S, NEW draw, Draw(S, draw)
    PROVE  Bumped(p, S, draw) \in [Object -> [Prop -> Version]]
<1>1. ASSUME NEW o \in Object, NEW k \in Prop, <<o, k>> \in S
      PROVE  Bump(version[p][o][k], draw[<<o, k>>]) \in Version
  <2>1. version[p][o][k] \in Version
    BY DEF TypeOK
  <2>2. draw[<<o, k>>] \in Jump
    BY <1>1 DEF Draw
  <2>. QED
    BY <2>1, <2>2, BumpType
<1>2. ASSUME NEW o \in Object, NEW k \in Prop
      PROVE  version[p][o][k] \in Version
  BY DEF TypeOK
<1>. QED
  BY <1>1, <1>2 DEF Bumped

LEMMA DeltasType ==
    ASSUME here \subseteq Peer, NEW p \in Peer, NEW S, S \subseteq Object \X Prop,
           NEW n \in [Object -> [Prop -> Version]],
           NEW x \in [Object -> [Prop -> Value]]
    PROVE  Deltas(p, S, n, x) \subseteq Packet
<1>. SUFFICES ASSUME NEW q \in Others(p), NEW s \in S
              PROVE  DeltaPacket(q, p, s[1], s[2], n[s[1]][s[2]], x[s[1]][s[2]])
                        \in Packet
  BY DEF Deltas
<1>1. s[1] \in Object /\ s[2] \in Prop /\ q \in Peer
  BY DEF Others
<1>. QED
  BY <1>1 DEF DeltaPacket, Packet

LEMMA DeletesType ==
    ASSUME here \subseteq Peer, NEW p \in Peer, NEW S, S \subseteq Object
    PROVE  Deletes(p, S) \subseteq Packet
BY DEF Deletes, DeletePacket, Packet, Others

LEMMA PacketFields ==
    ASSUME NEW m \in Packet
    PROVE  /\ m.to \in Peer
           /\ m.cmd \in {"Delta", "Create", "Query", "Delete"}
           /\ m.cmd = "Delta" => /\ m.from \in Peer \cup {NoOne}
                                 /\ m.obj \in Object /\ m.prop \in Prop
                                 /\ m.ver \in Version /\ m.val \in Value
           /\ m.cmd = "Create" => /\ m.from \in Peer /\ m.obj \in Object
                                  /\ m.vers \in [Prop -> Version]
                                  /\ m.vals \in [Prop -> Value]
           /\ m.cmd \in {"Query", "Delete"} => /\ m.from \in Peer
                                               /\ m.obj \in Object \cup {NoOne}
BY DEF Packet

LEMMA ReceiveType ==
    ASSUME TypeOK, NEW m, NEW sent, Receive(m, sent)
    PROVE  net' \subseteq net \cup sent /\ faults' \in 0 .. FaultBudget
BY ParameterAssumption DEF Receive, TypeOK

LEMMA ActType ==
    ASSUME TypeOK, Act
    PROVE  acts' \in 0 .. ActBudget
BY ParameterAssumption DEF Act, TypeOK

\* Draws are steps.
LEMMA DrawsType ==
    ASSUME NEW p \in Peer, NEW d \in Draws[p]
    PROVE  d \in Jump
BY ParameterAssumption
-----------------------------------------------------------------------------
(* Type correctness, one lemma per action. *)

\* The values an action of p writes for the packets it sends
LEMMA Members ==
    ASSUME TypeOK, NEW p \in Peer
    PROVE  /\ here \subseteq Peer /\ listed[p] \subseteq Object
           /\ version[p] \in [Object -> [Prop -> Version]]
           /\ value[p] \in [Object -> [Prop -> Value]]
           /\ 0 \in Version /\ Start \in Value
           /\ AllProps(0) \in [Prop -> Version]
           /\ AllProps(Start) \in [Prop -> Value]
           /\ AllProps(TRUE) \in [Prop -> BOOLEAN]
           /\ AllProps(FALSE) \in [Prop -> BOOLEAN]
BY VersionAssumption, PropAssumption DEF TypeOK, Version, AllProps

LEMMA EnterType ==
    ASSUME TypeOK, NEW p \in Peer, NEW o \in Avatar, Enter(p, o)
    PROVE  TypeOK'
<1>1. Whole(responsible, p, {o}, AllProps(TRUE))
        \in [Peer -> [Object -> [Prop -> BOOLEAN]]]
  BY Members, WholeType DEF TypeOK
<1>. QED
  BY <1>1 DEF Enter, TypeOK, Object, Volatile

LEMMA ThrowType ==
    ASSUME TypeOK, NEW p \in Peer, NEW o \in Ball \cup Shot, Throw(p, o)
    PROVE  TypeOK'
<1>1. /\ Whole(responsible, p, {o}, AllProps(TRUE))
            \in [Peer -> [Object -> [Prop -> BOOLEAN]]]
      /\ Whole(version, p, {o}, AllProps(0))
            \in [Peer -> [Object -> [Prop -> Version]]]
      /\ Whole(value, p, {o}, AllProps(Start))
            \in [Peer -> [Object -> [Prop -> Value]]]
  BY Members, WholeType DEF TypeOK
<1>2. \A q \in Others(p) :
          CreatePacket(q, p, o, AllProps(0), AllProps(Start)) \in Packet
  BY Members DEF CreatePacket, Packet, Others, Object, Volatile
<1>3. net' \subseteq Packet
  BY <1>2 DEF Throw, TypeOK
<1>4. acts' \in 0 .. ActBudget
  BY ActType DEF Throw
<1>. QED
  BY <1>1, <1>3, <1>4, ZenonT(30) DEF Throw, List, TypeOK, Object, Volatile

LEMMA MovedType ==
    ASSUME TypeOK, NEW p \in Peer, NEW o \in Object, NEW K, NEW x \in Value
    PROVE  MovedValues(p, o, K, x) \in [Object -> [Prop -> Value]]
<1>1. value[p] \in [Object -> [Prop -> Value]]
  BY DEF TypeOK
<1>2. [k \in Prop |-> IF k \in K THEN x ELSE value[p][o][k]] \in [Prop -> Value]
  BY <1>1
<1>. QED
  BY <1>1, <1>2 DEF MovedValues

LEMMA DeclareType ==
    ASSUME TypeOK, NEW p \in Peer, NEW S, S \subseteq Object \X Prop,
           NEW draw, Draw(S, draw), NEW vals \in [Object -> [Prop -> Value]],
           Declare(p, S, draw, vals)
    PROVE  /\ responsible' \in [Peer -> [Object -> [Prop -> BOOLEAN]]]
           /\ version' \in [Peer -> [Object -> [Prop -> Version]]]
           /\ value' \in [Peer -> [Object -> [Prop -> Value]]]
           /\ DeclareDeltas(p, S, draw, vals) \subseteq Packet
<1>1. Bumped(p, S, draw) \in [Object -> [Prop -> Version]]
  BY BumpedType
<1>2. Updated(responsible, p, S, TRUE) \in [Peer -> [Object -> [Prop -> BOOLEAN]]]
  BY UpdatedType DEF TypeOK
<1>3. here \subseteq Peer
  BY DEF TypeOK
<1>4. DeclareDeltas(p, S, draw, vals) \subseteq Packet
  BY <1>1, <1>3, DeltasType DEF DeclareDeltas
<1>. QED
  BY <1>1, <1>2, <1>4 DEF Declare, TypeOK

LEMMA MoveType ==
    ASSUME TypeOK, NEW p \in Peer, NEW o \in Object, NEW x \in Value,
           NEW K \in SUBSET Moving[o], NEW draw \in [{o} \X K -> Draws[p]],
           Move(p, o, K, x, draw)
    PROVE  TypeOK'
<1>1. {o} \X K \subseteq Object \X Prop
  BY PropAssumption
<1>2. Draw({o} \X K, draw)
  BY DrawsType DEF Draw
<1>3. MovedValues(p, o, K, x) \in [Object -> [Prop -> Value]]
  BY MovedType
<1>4. Declare(p, {o} \X K, draw, MovedValues(p, o, K, x))
  BY DEF Move
<1>5. acts' \in 0 .. ActBudget
  BY ActType DEF Move
<1>. QED
  BY <1>1, <1>2, <1>3, <1>4, <1>5, DeclareType DEF Move, TypeOK

LEMMA MoveLocallyType ==
    ASSUME TypeOK, NEW p \in Peer, NEW o \in Object, NEW x \in Value, NEW K,
           MoveLocally(p, o, K, x)
    PROVE  TypeOK'
<1>1. MovedValues(p, o, K, x) \in [Object -> [Prop -> Value]]
  BY MovedType
<1>2. acts' \in 0 .. ActBudget
  BY ActType DEF MoveLocally
<1>. QED
  BY <1>1, <1>2 DEF MoveLocally, TypeOK

LEMMA ForgetType ==
    ASSUME TypeOK, NEW p \in Peer, NEW S, Forget(p, S)
    PROVE  /\ listed' \in [Peer -> SUBSET Object]
           /\ responsible' \in [Peer -> [Object -> [Prop -> BOOLEAN]]]
           /\ version' \in [Peer -> [Object -> [Prop -> Version]]]
           /\ value' \in [Peer -> [Object -> [Prop -> Value]]]
           /\ struck' \in [Peer -> SUBSET Avatar]
<1>1. /\ Whole(responsible, p, S, AllProps(FALSE))
            \in [Peer -> [Object -> [Prop -> BOOLEAN]]]
      /\ Whole(version, p, S, AllProps(0))
            \in [Peer -> [Object -> [Prop -> Version]]]
      /\ Whole(value, p, S, AllProps(Start))
            \in [Peer -> [Object -> [Prop -> Value]]]
  BY Members, WholeType DEF TypeOK
<1>. QED
  BY <1>1 DEF Forget, TypeOK

LEMMA StrikeType ==
    ASSUME TypeOK, NEW p \in Peer, NEW b \in Shot, NEW o \in Avatar, Strike(p, b, o)
    PROVE  TypeOK'
<1>. DEFINE hit == IF o \in struck[p] THEN {} ELSE {<<o, HitProp>>}
<1>1. hit \subseteq Object \X Prop
  BY PropAssumption DEF Object, Volatile
<1>2. /\ Whole(Updated(responsible, p, hit, TRUE), p, {b}, AllProps(FALSE))
            \in [Peer -> [Object -> [Prop -> BOOLEAN]]]
      /\ Whole(version, p, {b}, AllProps(0))
            \in [Peer -> [Object -> [Prop -> Version]]]
      /\ Whole(value, p, {b}, AllProps(Start))
            \in [Peer -> [Object -> [Prop -> Value]]]
  <2>1. Updated(responsible, p, hit, TRUE) \in [Peer -> [Object -> [Prop -> BOOLEAN]]]
    BY UpdatedType DEF TypeOK
  <2>. QED
    BY <2>1, Members, WholeType DEF TypeOK
<1>3. Deltas(p, hit, version[p], value[p]) \subseteq Packet
  BY <1>1, Members, DeltasType
<1>4. Deletes(p, {b}) \subseteq Packet
  BY Members, DeletesType DEF Object, Volatile
<1>5. acts' \in 0 .. ActBudget
  BY ActType DEF Strike
<1>. QED
  BY <1>2, <1>3, <1>4, <1>5 DEF Strike, TypeOK

LEMMA DiscardType ==
    ASSUME TypeOK, NEW p \in Peer, NEW o \in Ball \cup Shot, Discard(p, o)
    PROVE  TypeOK'
<1>1. Deletes(p, {o}) \subseteq Packet
  BY Members, DeletesType DEF Object, Volatile
<1>2. acts' \in 0 .. ActBudget
  BY ActType DEF Discard
<1>. QED
  BY <1>1, <1>2, ForgetType DEF Discard, TypeOK

LEMMA LeaveType ==
    ASSUME TypeOK, NEW p \in Peer, NEW sent, sent \subseteq Packet, Leave(p, sent)
    PROVE  /\ here' \subseteq Peer
           /\ me' \in [Peer -> Avatar \cup {NoOne}]
           /\ listed' \in [Peer -> SUBSET Object]
           /\ responsible' \in [Peer -> [Object -> [Prop -> BOOLEAN]]]
           /\ version' \in [Peer -> [Object -> [Prop -> Version]]]
           /\ value' \in [Peer -> [Object -> [Prop -> Value]]]
           /\ struck' \in [Peer -> SUBSET Avatar]
           /\ named' \subseteq Volatile
           /\ net' \subseteq Packet
           /\ acts' \in 0 .. ActBudget
<1>1. Forget(p, listed[p])
  BY DEF Leave
<1>. QED
  BY <1>1, ForgetType DEF Leave, TypeOK

LEMMA QuitType ==
    ASSUME TypeOK, NEW p \in Peer, Quit(p)
    PROVE  TypeOK'
<1>1. Deletes(p, listed[p] \ Permanent) \subseteq Packet
  BY Members, DeletesType
<1>. QED
  BY <1>1, LeaveType DEF Quit, TypeOK

LEMMA CrashType ==
    ASSUME TypeOK, NEW p \in Peer, Crash(p)
    PROVE  TypeOK'
<1>1. faults' \in 0 .. FaultBudget
  BY ParameterAssumption DEF Crash, TypeOK
<1>2. asked' \in [Peer -> [obj : Object \cup {NoOne}, count : 0 .. QueryBurst]]
  BY ParameterAssumption DEF Crash, TypeOK
<1>. QED
  BY <1>1, <1>2, LeaveType DEF Crash, TypeOK

\* What an answer to the sender of a packet adds to the network
LEMMA UnicastType ==
    ASSUME TypeOK, NEW q, NEW packet, q \in Peer => packet \in Packet
    PROVE  Unicast(q, packet) \subseteq Packet
BY DEF Unicast, TypeOK

LEMMA ArrivedType ==
    ASSUME TypeOK, NEW p, NEW m, NEW cmd, Arrived(p, m, cmd)
    PROVE  m \in Packet /\ m.to = p /\ m.cmd = cmd /\ p \in here /\ p \in Peer
BY DEF Arrived, TypeOK

LEMMA DeltaUnknownType ==
    ASSUME TypeOK, NEW p \in Peer, NEW m, DeltaUnknown(p, m)
    PROVE  TypeOK'
<1>1. m \in Packet /\ m.cmd = "Delta" /\ m.obj \in Object
  BY ArrivedType, PacketFields DEF DeltaUnknown
<1>. DEFINE query == QueryPacket(m.from, p, NameOnWire(p, m.obj))
<1>2. m.from \in Peer => query \in Packet
  BY <1>1 DEF QueryPacket, Packet, NameOnWire
<1>3. Unicast(m.from, query) \subseteq Packet
  BY <1>2, UnicastType
<1>4. net' \subseteq Packet /\ faults' \in 0 .. FaultBudget
  <2>1. CASE Swallowed(p, m.obj)
    BY <2>1, ReceiveType DEF DeltaUnknown, TypeOK
  <2>2. CASE ~Swallowed(p, m.obj)
    <3>1. Receive(m, Unicast(m.from, query))
      BY <2>2 DEF DeltaUnknown
    <3>. HIDE DEF query
    <3>. QED
      BY <3>1, <1>3, ReceiveType DEF TypeOK
  <2>. QED
    BY <2>1, <2>2
<1>5. asked' \in [Peer -> [obj : Object \cup {NoOne}, count : 0 .. QueryBurst]]
  <2>1. CASE Swallowed(p, m.obj)
    <3>1. asked[p].count + 1 \in 0 .. QueryBurst
      BY <2>1, ParameterAssumption DEF Swallowed, TypeOK
    <3>2. asked[p] \in [obj : Object \cup {NoOne}, count : 0 .. QueryBurst]
      BY DEF TypeOK
    <3>3. asked' = [asked EXCEPT ![p].count = @ + 1]
      BY <2>1 DEF DeltaUnknown
    <3>. QED
      BY <3>1, <3>2, <3>3 DEF TypeOK
  <2>2. CASE ~Swallowed(p, m.obj)
    <3>1. asked' = [asked EXCEPT ![p] = [obj |-> m.obj, count |-> 0]]
      BY <2>2 DEF DeltaUnknown
    <3>2. [obj |-> m.obj, count |-> 0]
            \in [obj : Object \cup {NoOne}, count : 0 .. QueryBurst]
      BY <1>1, ParameterAssumption
    <3>. QED
      BY <3>1, <3>2 DEF TypeOK
  <2>. QED
    BY <2>1, <2>2
<1>. QED
  BY <1>4, <1>5 DEF DeltaUnknown, replicas, TypeOK

\* A handler that sends nothing
LEMMA SilentType ==
    ASSUME TypeOK, NEW m, Receive(m, {})
    PROVE  net' \subseteq Packet /\ faults' \in 0 .. FaultBudget
BY ReceiveType DEF TypeOK

LEMMA DeltaNewerType ==
    ASSUME TypeOK, NEW p \in Peer, NEW m, DeltaNewer(p, m)
    PROVE  TypeOK'
<1>1. /\ m.obj \in Object /\ m.prop \in Prop
      /\ m.ver \in Version /\ m.val \in Value
  BY ArrivedType, PacketFields DEF DeltaNewer
<1>2. net' \subseteq Packet /\ faults' \in 0 .. FaultBudget
  BY SilentType DEF DeltaNewer
<1>3. value' \in [Peer -> [Object -> [Prop -> Value]]]
  BY <1>1 DEF DeltaNewer, TypeOK
<1>4. responsible' \in [Peer -> [Object -> [Prop -> BOOLEAN]]]
  BY <1>1 DEF DeltaNewer, TypeOK
<1>5. version' \in [Peer -> [Object -> [Prop -> Version]]]
  BY <1>1 DEF DeltaNewer, TypeOK
<1>. QED
  BY <1>2, <1>3, <1>4, <1>5 DEF DeltaNewer, TypeOK

LEMMA DeltaConflictType ==
    ASSUME TypeOK, NEW p \in Peer, NEW m, NEW d \in Draws[p],
           DeltaConflict(p, m, [s \in Object \X Prop |-> d])
    PROVE  TypeOK'
<1>. DEFINE S == {<<m.obj, m.prop>>}
            draw == [s \in Object \X Prop |-> d]
<1>1. S \subseteq Object \X Prop
  BY ArrivedType, PacketFields DEF DeltaConflict
<1>2. Draw(S, draw)
  BY <1>1, DrawsType DEF Draw
<1>3. value[p] \in [Object -> [Prop -> Value]]
  BY Members
<1>4. Declare(p, S, draw, value[p])
  BY DEF DeltaConflict
<1>5. Receive(m, DeclareDeltas(p, S, draw, value[p]))
  BY DEF DeltaConflict
<1>6. /\ responsible' \in [Peer -> [Object -> [Prop -> BOOLEAN]]]
      /\ version' \in [Peer -> [Object -> [Prop -> Version]]]
      /\ value' \in [Peer -> [Object -> [Prop -> Value]]]
      /\ DeclareDeltas(p, S, draw, value[p]) \subseteq Packet
  BY <1>1, <1>2, <1>3, <1>4, DeclareType
<1>7. net' \subseteq Packet /\ faults' \in 0 .. FaultBudget
  BY <1>5, <1>6, ReceiveType DEF TypeOK
<1>. QED
  BY <1>6, <1>7 DEF DeltaConflict, TypeOK

LEMMA IncomingCreateType ==
    ASSUME TypeOK, NEW p \in Peer, NEW m, IncomingCreate(p, m)
    PROVE  TypeOK'
<1>1. /\ m.obj \in Object
      /\ m.vers \in [Prop -> Version] /\ m.vals \in [Prop -> Value]
  BY ArrivedType, PacketFields DEF IncomingCreate
<1>2. net' \subseteq Packet /\ faults' \in 0 .. FaultBudget
  BY SilentType DEF IncomingCreate
<1>3. /\ Whole(responsible, p, {m.obj}, AllProps(FALSE))
            \in [Peer -> [Object -> [Prop -> BOOLEAN]]]
      /\ Whole(version, p, {m.obj}, m.vers)
            \in [Peer -> [Object -> [Prop -> Version]]]
      /\ Whole(value, p, {m.obj}, m.vals)
            \in [Peer -> [Object -> [Prop -> Value]]]
  BY <1>1, Members, WholeType DEF TypeOK
<1>4. CASE m.obj \in listed[p]
  BY <1>4, <1>2 DEF IncomingCreate, replicas, TypeOK
<1>5. CASE m.obj \notin listed[p]
  <2>1. /\ List(p, {m.obj}, FALSE, m.vers, m.vals)
        /\ UNCHANGED <<here, me, struck, asked, named, acts>>
    BY <1>5 DEF IncomingCreate
  <2>2. listed' \in [Peer -> SUBSET Object]
    BY <2>1, <1>1 DEF List, TypeOK
  <2>. QED
    BY <2>1, <2>2, <1>2, <1>3 DEF List, TypeOK
<1>. QED
  BY <1>4, <1>5

LEMMA IncomingQueryType ==
    ASSUME TypeOK, NEW p \in Peer, NEW m, IncomingQuery(p, m)
    PROVE  TypeOK'
<1>1. m.from \in Peer /\ m.obj \in Object \cup {NoOne}
  BY ArrivedType, PacketFields DEF IncomingQuery
<1>. DEFINE answer == IF m.obj \in listed[p]
                      THEN CreatePacket(m.from, p, m.obj, version[p][m.obj],
                                        value[p][m.obj])
                      ELSE DeletePacket(m.from, p, NameOnWire(p, m.obj))
<1>2. answer \in Packet
  <2>1. CASE m.obj \in listed[p]
    <3>1. /\ m.obj \in Object
          /\ version[p][m.obj] \in [Prop -> Version]
          /\ value[p][m.obj] \in [Prop -> Value]
      BY <2>1, Members DEF TypeOK
    <3>. QED
      BY <1>1, <2>1, <3>1 DEF CreatePacket, Packet
  <2>2. CASE m.obj \notin listed[p]
    BY <1>1, <2>2 DEF DeletePacket, NameOnWire, Packet
  <2>. QED
    BY <2>1, <2>2
<1>3. Unicast(m.from, answer) \subseteq Packet
  BY <1>2, UnicastType
<1>4. net' \subseteq Packet /\ faults' \in 0 .. FaultBudget
  BY <1>3, SilentType, ReceiveType DEF IncomingQuery, TypeOK
<1>. QED
  BY <1>4 DEF IncomingQuery, replicas, TypeOK

LEMMA IncomingDeleteType ==
    ASSUME TypeOK, NEW p \in Peer, NEW m, IncomingDelete(p, m)
    PROVE  TypeOK'
<1>1. net' \subseteq Packet /\ faults' \in 0 .. FaultBudget
  BY SilentType DEF IncomingDelete
<1>. QED
  BY <1>1, ForgetType DEF IncomingDelete, TypeOK

LEMMA HandleType ==
    ASSUME TypeOK, NEW p \in Peer, NEW m, Handle(p, m)
    PROVE  TypeOK'
<1>1. ASSUME DeltaOutdated(p, m) \/ DeltaRecall(p, m)
      PROVE  TypeOK'
  BY <1>1, SilentType DEF DeltaOutdated, DeltaRecall, replicas, TypeOK
<1>. QED
  BY <1>1, DeltaUnknownType, DeltaNewerType, DeltaConflictType,
     IncomingCreateType, IncomingQueryType, IncomingDeleteType DEF Handle

LEMMA NetTimeoutType ==
    ASSUME TypeOK, NEW p \in Peer, NEW late \in SUBSET Scanned(p),
           NEW draw \in [Assumed(p, late) -> Draws[p]], NetTimeout(p, late, draw)
    PROVE  TypeOK'
<1>. DEFINE gone == Dying(p, late) \ {me[p]}
            taken == Assumed(p, late)
<1>1. late \subseteq Object \X Prop
  BY DEF Scanned
<1>2. Draw(taken, draw)
  BY DrawsType DEF Draw
<1>3. taken \subseteq Object \X Prop /\ Beating(p, late) \subseteq Object \X Prop
      /\ Dying(p, late) \subseteq Object
  BY <1>1 DEF Assumed, Beating, Dying, Object
<1>4. Bumped(p, taken, draw) \in [Object -> [Prop -> Version]]
  BY <1>2, BumpedType
<1>5. Whole(Updated(responsible, p, taken, TRUE), p, gone, AllProps(FALSE))
        \in [Peer -> [Object -> [Prop -> BOOLEAN]]]
  <2>1. Updated(responsible, p, taken, TRUE) \in [Peer -> [Object -> [Prop -> BOOLEAN]]]
    BY UpdatedType DEF TypeOK
  <2>. QED
    BY <2>1, Members, WholeType
<1>6. Whole([version EXCEPT ![p] = Bumped(p, taken, draw)], p, gone, AllProps(0))
        \in [Peer -> [Object -> [Prop -> Version]]]
  <2>1. [version EXCEPT ![p] = Bumped(p, taken, draw)]
          \in [Peer -> [Object -> [Prop -> Version]]]
    BY <1>4 DEF TypeOK
  <2>. QED
    BY <2>1, Members, WholeType
<1>7. Whole(value, p, gone, AllProps(Start)) \in [Peer -> [Object -> [Prop -> Value]]]
  BY Members, WholeType DEF TypeOK
<1>8. net' \subseteq Packet
  <2>1. Deltas(p, Beating(p, late), version[p], value[p]) \subseteq Packet
    BY <1>3, Members, DeltasType
  <2>2. DeclareDeltas(p, taken, draw, value[p]) \subseteq Packet
    BY <1>3, <1>4, Members, DeltasType DEF DeclareDeltas
  <2>3. Deletes(p, Dying(p, late)) \subseteq Packet
    BY <1>3, Members, DeletesType
  <2>. QED
    BY <2>1, <2>2, <2>3 DEF NetTimeout, TypeOK
<1>. QED
  BY <1>5, <1>6, <1>7, <1>8 DEF NetTimeout, TypeOK

LEMMA ForeignDeltaType ==
    ASSUME TypeOK, NEW o \in Permanent, NEW k \in Prop, NEW n \in Version,
           NEW x \in Value, ForeignDelta(o, k, n, x)
    PROVE  TypeOK'
<1>1. \A q \in here : DeltaPacket(q, NoOne, o, k, n, x) \in Packet
  BY DEF DeltaPacket, Packet, Object, TypeOK
<1>2. acts' \in 0 .. ActBudget
  BY ActType DEF ForeignDelta
<1>. QED
  BY <1>1, <1>2 DEF ForeignDelta, replicas, TypeOK

LEMMA LoseType ==
    ASSUME TypeOK, NEW m, Lose(m)
    PROVE  TypeOK'
BY ParameterAssumption DEF Lose, replicas, TypeOK

LEMMA TypeInit == Init => TypeOK
BY VersionAssumption, PropAssumption, ParameterAssumption
   DEF Init, TypeOK, Version, AllProps

LEMMA TypeStep == TypeOK /\ [Next]_vars => TypeOK'
<1>. SUFFICES ASSUME TypeOK, [Next]_vars PROVE TypeOK'
  OBVIOUS
<1>1. ASSUME NEW p \in Peer, UserAction(p) PROVE TypeOK'
  BY <1>1, EnterType, ThrowType, MoveType, MoveLocallyType, StrikeType,
     DiscardType, QuitType DEF UserAction
<1>2. ASSUME NEW p \in Peer, PacketAction(p) PROVE TypeOK'
  BY <1>2, HandleType DEF PacketAction
<1>3. ASSUME NEW p \in Peer, TimerAction(p) PROVE TypeOK'
  BY <1>3, NetTimeoutType DEF TimerAction
<1>4. ASSUME Environment PROVE TypeOK'
  BY <1>4, CrashType, LoseType, ForeignDeltaType DEF Environment
<1>5. ASSUME UNCHANGED vars PROVE TypeOK'
  BY <1>5 DEF vars, TypeOK
<1>. QED
  BY <1>1, <1>2, <1>3, <1>4, <1>5 DEF Next

(***************************************************************************)
(* Type correctness: whatever the names, versions and budgets, every       *)
(* variable of every client stays in its type.  In particular version      *)
(* numbers wrap into range (declareObjDelta), filterQuery never counts     *)
(* past its limit, and every packet on the wire is a well-formed one.      *)
(***************************************************************************)
THEOREM TypeCorrect == Spec => []TypeOK
<1>. QED
  BY TypeInit, TypeStep, PTL DEF Spec
=============================================================================
