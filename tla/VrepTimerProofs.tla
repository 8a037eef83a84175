-------------------------- MODULE VrepTimerProofs --------------------------
(***************************************************************************)
(* Proofs about the dates of module VrepTimer, for all delays, numbers of  *)
(* clients and properties.                                                 *)
(***************************************************************************)
EXTENDS VrepTimer, TLAPS

\* No timer and no packet is late: what Tick waits for
Timely ==
    /\ \A p \in Replicas \cup knows : now <= scanned[p] + Period
    /\ \A m \in wire : now <= m.sent + Transit

\* What resetDates makes of the two dates of a property
Spread ==
    \A p \in knows, k \in Prop :
        /\ last_seen[p][k] + MinAssume <= assume_at[p][k]
        /\ assume_at[p][k] <= last_seen[p][k] + MaxAssume

\* The last run of NetTimeout at p found nothing overdue, or renewed it
ScannedFirst ==
    \A p \in knows, k \in Prop :
        scanned[p] <= IF p = Creator THEN last_seen[p][k] + Refresh
                                     ELSE assume_at[p][k]

\* How long after date s, that of the last strike, a client other than the creator
\* may send: the strike, the Query of its Delta, the Create that answers the Query
InTime(m, s) ==
    /\ m.cmd = "Hit" => m.sent <= s
    /\ m.cmd = "Query" /\ m.to # Creator => m.sent <= s + Transit
    /\ m.cmd = "Create" /\ m.from # Creator => m.sent <= s + 2 * Transit

Stirred == \A m \in wire : InTime(m, stirred)

\* The packets of the creator that renew a replica
FromCreator(m) == m.cmd = "Delta" \/ (m.cmd = "Create" /\ m.from = Creator)

\* Nothing of a dead creator is sent any more, and what is seen of the avatar is the
\* creator's last packets, or an answer to the Query of a strike
Silenced ==
    ~Alive =>
        /\ \A m \in wire : FromCreator(m) => m.sent <= died
        /\ \A p \in knows, k \in Prop :
              \/ last_seen[p][k] <= died + Transit
              \/ last_seen[p][k] <= stirred + 3 * Transit

TimerInvariant == TypeOK /\ Timely /\ Spread /\ ScannedFirst /\ Stirred /\ Silenced
-----------------------------------------------------------------------------
(* The operators the actions are made of. *)

\* The delays resetDates draws lie between the two extremes
LEMMA DelayBounds ==
    ASSUME NEW x \in AssumeDelay
    PROVE  x \in Nat /\ MinAssume <= x /\ x <= MaxAssume
BY TimerAssumption DEF AssumeDelay, MinAssume, MaxAssume

\* resetDates changes the dates of the given properties at one client only
LEMMA ResetLemma ==
    ASSUME TypeOK, NEW p \in Peer, NEW K \in SUBSET Prop,
           NEW d \in [Prop -> AssumeDelay], ResetDates(p, K, d)
    PROVE  /\ last_seen' \in [Peer -> [Prop -> 0 .. now]]
           /\ assume_at' \in [Peer -> [Prop -> Nat]]
           /\ \A q \in Peer, k \in Prop :
                 IF q = p /\ k \in K
                 THEN /\ last_seen'[q][k] = now
                      /\ now + MinAssume <= assume_at'[q][k]
                      /\ assume_at'[q][k] <= now + MaxAssume
                 ELSE /\ last_seen'[q][k] = last_seen[q][k]
                      /\ assume_at'[q][k] = assume_at[q][k]
<1>1. \A k \in Prop : d[k] \in Nat /\ MinAssume <= d[k] /\ d[k] <= MaxAssume
  BY DelayBounds
<1>2. MinAssume \in Nat /\ MaxAssume \in Nat
  BY TimerAssumption DEF MinAssume, MaxAssume
<1> QED
  BY <1>1, <1>2 DEF TypeOK, ResetDates

\* delete noh changes the properties of one client only
LEMMA ForgetLemma ==
    ASSUME TypeOK, NEW p \in Peer, Forget(p)
    PROVE  /\ knows' = knows \ {p}
           /\ version' \in [Peer -> [Prop -> Nat]]
           /\ last_seen' \in [Peer -> [Prop -> 0 .. now]]
           /\ assume_at' \in [Peer -> [Prop -> Nat]]
           /\ \A q \in Peer \ {p}, k \in Prop :
                 /\ version'[q][k] = version[q][k]
                 /\ last_seen'[q][k] = last_seen[q][k]
                 /\ assume_at'[q][k] = assume_at[q][k]
BY DEF TypeOK, Forget

\* Every packet has a date, and a kind
LEMMA PacketTypes ==
    ASSUME NEW m \in Packet
    PROVE  /\ m.sent \in Nat
           /\ m.cmd = "Delta" =>
                 m.to \in Replicas /\ m.prop \in Prop /\ m.ver \in Nat
           /\ m.cmd = "Create" =>
                 m.to \in Replicas /\ m.from \in Peer /\ m.vers \in [Prop -> Nat]
           /\ m.cmd = "Query" => m.from \in Replicas
           /\ m.cmd = "Delta" => m.from = Creator
           /\ m.cmd = "Hit" => m.from \in Peer
BY DEF Packet

\* What clients send are packets of this instant
LEMMA SentTypes ==
    ASSUME TypeOK
    PROVE  /\ \A q \in Replicas, k \in Prop, n \in Nat :
                 /\ Delta(q, k, n) \in Packet /\ Delta(q, k, n).sent = now
                 /\ Delta(q, k, n).cmd = "Delta"
           /\ \A q \in Peer, p \in Peer :
                 /\ HitDelta(q, p) \in Packet /\ HitDelta(q, p).sent = now
                 /\ HitDelta(q, p).cmd = "Hit"
           /\ \A q \in Replicas, p \in Peer :
                 /\ Create(q, p) \in Packet /\ Create(q, p).sent = now
                 /\ Create(q, p).cmd = "Create" /\ Create(q, p).from = p
           /\ \A q \in Peer, p \in Replicas :
                 /\ Query(q, p) \in Packet /\ Query(q, p).sent = now
                 /\ Query(q, p).cmd = "Query" /\ Query(q, p).to = q
           /\ \A q \in Peer : /\ Delete(q) \in Packet /\ Delete(q).sent = now
                              /\ Delete(q).cmd = "Delete"
<1> USE TimerAssumption
<1>1. now \in Nat /\ \A p \in Peer : version[p] \in [Prop -> Nat]
  BY DEF TypeOK
<1>2. ASSUME NEW q \in Replicas, NEW k \in Prop, NEW n \in Nat
      PROVE  /\ Delta(q, k, n) \in Packet /\ Delta(q, k, n).sent = now
             /\ Delta(q, k, n).cmd = "Delta"
  BY <1>1 DEF Packet, Delta
<1>3. ASSUME NEW q \in Peer, NEW p \in Peer
      PROVE  /\ HitDelta(q, p) \in Packet /\ HitDelta(q, p).sent = now
             /\ HitDelta(q, p).cmd = "Hit"
  BY <1>1 DEF Packet, HitDelta
<1>4. ASSUME NEW q \in Replicas, NEW p \in Peer
      PROVE  /\ Create(q, p) \in Packet /\ Create(q, p).sent = now
             /\ Create(q, p).cmd = "Create" /\ Create(q, p).from = p
  BY <1>1 DEF Packet, Create
<1>5. ASSUME NEW q \in Peer, NEW p \in Replicas
      PROVE  /\ Query(q, p) \in Packet /\ Query(q, p).sent = now
             /\ Query(q, p).cmd = "Query" /\ Query(q, p).to = q
  BY <1>1 DEF Packet, Query
<1>6. ASSUME NEW q \in Peer
      PROVE  Delete(q) \in Packet /\ Delete(q).sent = now /\ Delete(q).cmd = "Delete"
  BY <1>1 DEF Packet, Delete
<1> QED
  BY <1>2, <1>3, <1>4, <1>5, <1>6

\* After a packet is handled, those under way are old ones or answers
LEMMA ReceiveLemma ==
    ASSUME NEW m \in wire, NEW S, Receive(m, S)
    PROVE  wire' \subseteq wire \cup S /\ losses' = losses
BY DEF Receive

\* Packets sent now are neither late nor of the future
LEMMA WireLemma ==
    ASSUME TypeOK, Timely, Stirred, now' = now, NEW S, wire' \subseteq wire \cup S,
           stirred' \in {stirred, now},
           \A m \in S : m \in Packet /\ m.sent = now /\ InTime(m, stirred')
    PROVE  /\ wire' \subseteq Packet
           /\ \A m \in wire' : m.sent <= now /\ now <= m.sent + Transit
           /\ Stirred' /\ stirred' \in 0 .. now /\ stirred <= stirred'
<1> USE TimerAssumption
<1>1. stirred' \in 0 .. now /\ stirred <= stirred' /\ stirred \in Nat
  BY DEF TypeOK
<1>2. /\ wire' \subseteq Packet
      /\ \A m \in wire' : m.sent <= now /\ now <= m.sent + Transit
  BY DEF TypeOK, Timely
<1>3. ASSUME NEW m \in wire PROVE InTime(m, stirred')
  <2>1. InTime(m, stirred) /\ m.sent \in Nat
    BY PacketTypes DEF Stirred, TypeOK
  <2> QED
    BY <1>1, <2>1 DEF InTime
<1>4. Stirred'
  BY <1>3 DEF Stirred
<1> QED
  BY <1>1, <1>2, <1>4

\* A packet that may be sent now, s being the date of the last strike
MaySend(m, s) ==
    m \in Packet /\ m.sent = now /\ InTime(m, s) /\ (FromCreator(m) => Alive)

\* What the steps leave alone that change nothing but the packets under way
Quiet ==
    /\ now' = now /\ knows' = knows /\ version' = version /\ last_seen' = last_seen
    /\ assume_at' = assume_at /\ scanned' = scanned /\ died' = died

LEMMA WireOnly ==
    ASSUME TimerInvariant, Quiet,
           hits' \in Nat, losses' \in Nat, stirred' \in {stirred, now},
           NEW S, wire' \subseteq wire \cup S, \A m \in S : MaySend(m, stirred')
    PROVE  TimerInvariant'
<1> USE DEF TimerInvariant, Quiet, MaySend
<1>1. /\ wire' \subseteq Packet
      /\ \A m \in wire' : m.sent <= now /\ now <= m.sent + Transit
      /\ Stirred' /\ stirred' \in 0 .. now /\ stirred <= stirred'
  BY WireLemma
<1>2. TypeOK'
  BY <1>1 DEF TypeOK
<1>3. Timely' /\ Spread' /\ ScannedFirst'
  BY <1>1 DEF Timely, Spread, ScannedFirst, Present
<1>4. Silenced'
  <2> SUFFICES ASSUME ~Alive
               PROVE  /\ \A m \in wire' : FromCreator(m) => m.sent <= died
                      /\ \A p \in knows, k \in Prop :
                            \/ last_seen[p][k] <= died + Transit
                            \/ last_seen[p][k] <= stirred' + 3 * Transit
    BY DEF Silenced, Alive, FromCreator
  <2>1. \A m \in wire' : FromCreator(m) => m.sent <= died
    BY DEF Silenced
  <2>2. ASSUME NEW p \in knows, NEW k \in Prop, last_seen[p][k] <= stirred + 3 * Transit
        PROVE  last_seen[p][k] <= stirred' + 3 * Transit
    <3>1. last_seen[p][k] \in Nat /\ stirred \in Nat /\ stirred' \in Nat /\ Transit \in Nat
      BY <1>1, TimerAssumption DEF TypeOK
    <3> QED
      BY <1>1, <2>2, <3>1
  <2> QED
    BY <2>1, <2>2 DEF Silenced
<1> QED
  BY <1>1, <1>2, <1>3, <1>4
-----------------------------------------------------------------------------
(* The invariant holds initially and is kept by every action. *)

LEMMA InitTimer == Init => TimerInvariant
<1> SUFFICES ASSUME Init PROVE TimerInvariant
  OBVIOUS
<1> USE TimerAssumption
<1>1. PICK d \in [Prop -> AssumeDelay] :
         assume_at = [p \in Peer |-> IF p = Creator THEN d ELSE [k \in Prop |-> 0]]
  BY DEF Init
<1>2. \A k \in Prop : d[k] \in Nat /\ MinAssume <= d[k] /\ d[k] <= MaxAssume
  BY DelayBounds
<1>3. MinAssume \in Nat /\ MaxAssume \in Nat
  BY DEF MinAssume, MaxAssume
<1>4. TypeOK
  BY <1>1, <1>2 DEF Init, TypeOK
<1>5. Timely
  BY DEF Init, Timely, Replicas
<1>6. Spread
  BY <1>1, <1>2, <1>3 DEF Init, Spread
<1>7. ScannedFirst
  BY DEF Init, ScannedFirst
<1>8. Stirred /\ Silenced
  BY DEF Init, Stirred, Silenced, Alive
<1> QED
  BY <1>4, <1>5, <1>6, <1>7, <1>8 DEF TimerInvariant

LEMMA TickTimer == TimerInvariant /\ Tick => TimerInvariant'
<1> SUFFICES ASSUME TimerInvariant, Tick PROVE TimerInvariant'
  OBVIOUS
<1> USE DEF TimerInvariant, Tick, dates
<1>1. TypeOK'
  <2>1. now \in Nat /\ now' = now + 1
    BY DEF TypeOK
  <2>2. last_seen' \in [Peer -> [Prop -> 0 .. now']] /\ scanned' \in [Peer -> 0 .. now']
    BY <2>1 DEF TypeOK
  <2>3. \A m \in wire : m.sent \in Nat
    BY PacketTypes DEF TypeOK
  <2> QED
    BY <2>1, <2>2, <2>3 DEF TypeOK
<1>2. Timely'
  <2>1. \A m \in wire : m.sent \in Nat
    BY PacketTypes DEF TypeOK
  <2> QED
    BY <2>1, TimerAssumption DEF TypeOK, Timely, Replicas, Present
<1>3. Spread'
  BY DEF Spread
<1>4. ScannedFirst'
  BY DEF ScannedFirst
<1>5. Stirred' /\ Silenced'
  BY DEF Stirred, InTime, Silenced, FromCreator, Alive
<1> QED
  BY <1>1, <1>2, <1>3, <1>4, <1>5

LEMMA MoveTimer ==
    ASSUME TimerInvariant, NEW K \in SUBSET Prop, NEW d \in [Prop -> AssumeDelay],
           Move(K, d)
    PROVE  TimerInvariant'
<1> USE TimerAssumption DEF TimerInvariant, Move
<1>1. /\ last_seen' \in [Peer -> [Prop -> 0 .. now]]
      /\ assume_at' \in [Peer -> [Prop -> Nat]]
      /\ \A q \in Peer, k \in Prop :
            IF q = Creator /\ k \in K
            THEN /\ last_seen'[q][k] = now
                 /\ now + MinAssume <= assume_at'[q][k]
                 /\ assume_at'[q][k] <= now + MaxAssume
            ELSE /\ last_seen'[q][k] = last_seen[q][k]
                 /\ assume_at'[q][k] = assume_at[q][k]
  BY ResetLemma, ZenonT(30)
<1>2. /\ wire' \subseteq Packet
      /\ \A m \in wire' : m.sent <= now /\ now <= m.sent + Transit
      /\ Stirred'
  <2> DEFINE S == {Delta(q, k, version[Creator][k] + 1) : q \in Replicas, k \in K}
  <2>1. \A m \in S : m \in Packet /\ m.sent = now /\ m.cmd = "Delta"
    <3>1. \A k \in Prop : version[Creator][k] + 1 \in Nat
      BY DEF TypeOK
    <3>2. TypeOK /\ \A k \in K : k \in Prop
      OBVIOUS
    <3> HIDE DEF Move, TimerInvariant
    <3>3. ASSUME NEW q \in Replicas, NEW k \in K
          PROVE  /\ Delta(q, k, version[Creator][k] + 1) \in Packet
                 /\ Delta(q, k, version[Creator][k] + 1).sent = now
                 /\ Delta(q, k, version[Creator][k] + 1).cmd = "Delta"
      <4>1. k \in Prop /\ version[Creator][k] + 1 \in Nat
        BY <3>1, <3>2
      <4> QED
        BY <3>2, <4>1, SentTypes
    <3> QED
      BY <3>3, SMT
  <2>2. now' = now /\ wire' \subseteq wire \cup S /\ stirred' = stirred
    OBVIOUS
  <2> HIDE DEF S
  <2>3. \A m \in S : m \in Packet /\ m.sent = now /\ InTime(m, stirred')
    BY <2>1 DEF InTime
  <2> QED
    BY <2>2, <2>3, WireLemma
<1>3. TypeOK'
  <2>1. version' \in [Peer -> [Prop -> Nat]]
    BY DEF TypeOK
  <2> QED
    BY <1>1, <1>2, <2>1 DEF TypeOK
<1>4. Timely'
  BY <1>2 DEF Timely, Present
<1>5. Spread'
  <2>1. Spread /\ knows' = knows /\ now \in Nat /\ \A q \in knows : q \in Peer
    BY DEF TypeOK
  <2> HIDE DEF Move, TimerInvariant
  <2>2. ASSUME NEW q \in knows, NEW k \in Prop
        PROVE  /\ last_seen'[q][k] + MinAssume <= assume_at'[q][k]
               /\ assume_at'[q][k] <= last_seen'[q][k] + MaxAssume
    BY <1>1, <2>1 DEF Spread
  <2> QED
    BY <2>1, <2>2 DEF Spread
<1>6. ScannedFirst'
  BY <1>1 DEF ScannedFirst, TypeOK
<1>7. Silenced'
  BY DEF Silenced, Alive
<1> QED
  BY <1>2, <1>3, <1>4, <1>5, <1>6, <1>7

\* The scan of a creator is never given up
LEMMA AllRefreshed ==
    ASSUME TimerInvariant, Alive
    PROVE  Refreshed = {k \in Prop : Due(k)}
<1>1. ASSUME NEW k \in Prop, GivesUp(k) PROVE FALSE
  BY <1>1, TimerAssumption
     DEF TimerInvariant, TypeOK, Spread, Alive, GivesUp, Due, MinAssume
<1> QED
  BY <1>1 DEF Refreshed

LEMMA ScanOwnTimer ==
    ASSUME TimerInvariant, NEW d \in [Prop -> AssumeDelay], ScanOwn(d)
    PROVE  TimerInvariant'
<1> USE TimerAssumption DEF TimerInvariant, ScanOwn
<1>0. Refreshed = {k \in Prop : Due(k)}
  BY AllRefreshed
<1>1. /\ last_seen' \in [Peer -> [Prop -> 0 .. now]]
      /\ assume_at' \in [Peer -> [Prop -> Nat]]
      /\ \A q \in Peer, k \in Prop :
            IF q = Creator /\ k \in Refreshed
            THEN /\ last_seen'[q][k] = now
                 /\ now + MinAssume <= assume_at'[q][k]
                 /\ assume_at'[q][k] <= now + MaxAssume
            ELSE /\ last_seen'[q][k] = last_seen[q][k]
                 /\ assume_at'[q][k] = assume_at[q][k]
  <2>1. Refreshed \in SUBSET Prop
    BY DEF Refreshed
  <2>2. \A k \in Prop : d[k] \in Nat /\ MinAssume <= d[k] /\ d[k] <= MaxAssume
    BY DelayBounds
  <2>3. MinAssume \in Nat /\ MaxAssume \in Nat
    BY DEF MinAssume, MaxAssume
  <2>4. /\ last_seen' = [last_seen EXCEPT ![Creator] =
                           [k \in Prop |-> IF k \in Refreshed THEN now ELSE @[k]]]
        /\ assume_at' = [assume_at EXCEPT ![Creator] =
                           [k \in Prop |-> IF k \in Refreshed THEN now + d[k] ELSE @[k]]]
    BY DEF ResetDates
  <2> HIDE DEF ScanOwn
  <2> QED
    BY <2>1, <2>2, <2>3, <2>4 DEF TypeOK
<1>2. /\ wire' \subseteq Packet
      /\ \A m \in wire' : m.sent <= now /\ now <= m.sent + Transit
      /\ Stirred'
  <2> DEFINE S == {Delta(q, k, version[Creator][k]) : q \in Replicas, k \in Refreshed}
  <2>1. \A m \in S : m \in Packet /\ m.sent = now /\ m.cmd = "Delta"
    BY SentTypes DEF TypeOK, Refreshed
  <2>2. now' = now /\ wire' \subseteq wire \cup S /\ stirred' = stirred
    OBVIOUS
  <2> HIDE DEF S
  <2>3. \A m \in S : m \in Packet /\ m.sent = now /\ InTime(m, stirred')
    BY <2>1 DEF InTime
  <2> QED
    BY <2>2, <2>3, WireLemma
<1>3. TypeOK'
  BY <1>1, <1>2, TypeOK, UNCHANGED <<now, knows, version, died, stirred, hits, losses>> DEF TypeOK
<1>4. Timely'
  BY <1>2 DEF Timely, TypeOK, Replicas, Present
<1>5. Spread'
  BY <1>1 DEF Spread, TypeOK
<1>6. ScannedFirst'
  <2>1. ASSUME NEW k \in Prop
        PROVE  scanned'[Creator] <= last_seen'[Creator][k] + Refresh
    <3>1. CASE Due(k)
      BY <1>0, <1>1, <3>1 DEF TypeOK
    <3>2. CASE ~Due(k)
      BY <1>0, <1>1, <3>2 DEF TypeOK, Due
    <3> QED
      BY <3>1, <3>2
  <2>2. ASSUME NEW p \in knows, p # Creator, NEW k \in Prop
        PROVE  scanned'[p] <= assume_at'[p][k]
    BY <1>1, <2>2 DEF ScannedFirst, TypeOK
  <2> QED
    BY <2>1, <2>2 DEF ScannedFirst, TypeOK
<1>7. Silenced'
  BY DEF Silenced, Alive
<1> QED
  BY <1>2, <1>3, <1>4, <1>5, <1>6, <1>7

LEMMA IncomingQueryTimer ==
    ASSUME TimerInvariant, NEW p \in Peer, NEW m \in wire, IncomingQuery(p, m)
    PROVE  TimerInvariant'
<1> USE TimerAssumption
<1>1. TypeOK /\ Timely /\ Stirred
  BY DEF TimerInvariant
<1>2. m.cmd = "Query" /\ m.to = p /\ m.from \in Replicas /\ m.sent \in Nat
  BY <1>1, PacketTypes DEF TypeOK, IncomingQuery
<1>3. /\ Quiet /\ hits' \in Nat /\ losses' \in Nat
      /\ stirred' = stirred /\ stirred' \in {stirred, now}
  BY <1>1 DEF IncomingQuery, Receive, TypeOK, Quiet, dates
<1>4. CASE p \in knows /\ wire' \subseteq wire \cup {Create(m.from, p)}
  <2>1. /\ Create(m.from, p) \in Packet /\ Create(m.from, p).sent = now
        /\ Create(m.from, p).cmd = "Create" /\ Create(m.from, p).from = p
    BY <1>1, <1>2, SentTypes
  <2>2. p # Creator => now <= stirred + 2 * Transit
    <3>1. now <= m.sent + Transit /\ InTime(m, stirred) /\ stirred \in Nat /\ now \in Nat
      BY <1>1 DEF Timely, Stirred, TypeOK
    <3> QED
      BY <1>2, <3>1 DEF InTime
  <2>3. InTime(Create(m.from, p), stirred')
    BY <1>3, <2>1, <2>2 DEF InTime
  <2>4. FromCreator(Create(m.from, p)) => Alive
    BY <1>4, <2>1 DEF Alive, FromCreator
  <2> DEFINE S == {Create(m.from, p)}
  <2>5. wire' \subseteq wire \cup S /\ \A n \in S : MaySend(n, stirred')
    BY <1>4, <2>1, <2>3, <2>4 DEF MaySend
  <2> HIDE DEF S
  <2> QED
    BY <1>3, <2>5, WireOnly
<1>5. CASE wire' \subseteq wire \cup {Delete(m.from)}
  <2>1. Delete(m.from) \in Packet /\ Delete(m.from).sent = now
        /\ Delete(m.from).cmd = "Delete"
    BY <1>1, <1>2, SentTypes DEF Replicas
  <2> DEFINE S == {Delete(m.from)}
  <2>2. wire' \subseteq wire \cup S /\ \A n \in S : MaySend(n, stirred')
    BY <1>5, <2>1 DEF MaySend, InTime, FromCreator
  <2> HIDE DEF S
  <2> QED
    BY <1>3, <2>2, WireOnly
<1> QED
  BY <1>4, <1>5 DEF IncomingQuery, Receive

\* What a strike publishes, and when
LEMMA PublishHitLemma ==
    ASSUME TypeOK, NEW p \in Peer, PublishHit(p)
    PROVE  /\ hits' \in Nat /\ stirred' = now
           /\ \A m \in HitDeltas(p) : MaySend(m, stirred')
<1>1. hits' \in Nat /\ stirred' = now /\ now \in Nat
  BY DEF TypeOK, PublishHit
<1>2. \A q \in Present : q \in Peer
  BY DEF TypeOK, Present, Replicas
<1>3. ASSUME NEW q \in Present
      PROVE  MaySend(HitDelta(q, p), stirred')
  <2>1. /\ HitDelta(q, p) \in Packet /\ HitDelta(q, p).sent = now
        /\ HitDelta(q, p).cmd = "Hit"
    BY <1>2, SentTypes
  <2> QED
    BY <1>1, <2>1 DEF MaySend, InTime, FromCreator
<1> QED
  BY <1>1, <1>3 DEF HitDeltas

LEMMA StrikeTimer ==
    ASSUME TimerInvariant, NEW p \in Peer, Strike(p)
    PROVE  TimerInvariant'
<1>1. TypeOK /\ PublishHit(p)
  BY DEF TimerInvariant, Strike
<1>2. Quiet /\ wire' \subseteq wire \cup HitDeltas(p) /\ losses' \in Nat
  BY <1>1 DEF Strike, TypeOK, Quiet, dates
<1>3. /\ hits' \in Nat /\ stirred' \in {stirred, now}
      /\ \A m \in HitDeltas(p) : MaySend(m, stirred')
  BY <1>1, PublishHitLemma
<1> QED
  BY <1>2, <1>3, WireOnly

LEMMA IncomingHitTimer ==
    ASSUME TimerInvariant, NEW p \in Peer, NEW m \in wire, IncomingHit(p, m)
    PROVE  TimerInvariant'
<1>1. TypeOK
  BY DEF TimerInvariant
<1>2. Quiet /\ losses' \in Nat /\ hits \in Nat
  BY <1>1 DEF IncomingHit, Receive, TypeOK, Quiet, dates
<1>3. CASE Receive(m, {}) /\ UNCHANGED <<stirred, hits>>
  <2>1. wire' \subseteq wire \cup {}
    BY <1>3, ReceiveLemma
  <2> QED
    BY <1>2, <1>3, <2>1, WireOnly
<1>4. CASE Receive(m, HitDeltas(p)) /\ PublishHit(p)
  <2>1. wire' \subseteq wire \cup HitDeltas(p)
    BY <1>4, ReceiveLemma
  <2>2. /\ hits' \in Nat /\ stirred' \in {stirred, now}
        /\ \A n \in HitDeltas(p) : MaySend(n, stirred')
    BY <1>1, <1>4, PublishHitLemma
  <2> QED
    BY <1>2, <2>1, <2>2, WireOnly
<1> QED
  BY <1>3, <1>4 DEF IncomingHit

LEMMA LeaveTimer ==
    ASSUME TimerInvariant, NEW S \in SUBSET {Delete(q) : q \in Replicas}, Leave(S)
    PROVE  TimerInvariant'
<1> USE TimerAssumption DEF TimerInvariant, Leave
<1>1. /\ knows' = knows \ {Creator}
      /\ version' \in [Peer -> [Prop -> Nat]]
      /\ last_seen' \in [Peer -> [Prop -> 0 .. now]]
      /\ assume_at' \in [Peer -> [Prop -> Nat]]
      /\ \A q \in Peer \ {Creator}, k \in Prop :
            /\ version'[q][k] = version[q][k]
            /\ last_seen'[q][k] = last_seen[q][k]
            /\ assume_at'[q][k] = assume_at[q][k]
  BY ForgetLemma
<1>2. \A m \in S : m \in Packet /\ m.sent = now /\ m.cmd = "Delete"
  BY SentTypes DEF Replicas
<1>3. /\ wire' \subseteq wire \cup S
      /\ wire' \subseteq Packet
      /\ \A m \in wire' : m.sent <= now /\ now <= m.sent + Transit
      /\ Stirred'
  <2>1. wire' \subseteq wire \cup S /\ now' = now /\ stirred' = stirred
    OBVIOUS
  <2>2. \A m \in S : m \in Packet /\ m.sent = now /\ InTime(m, stirred')
    BY <1>2 DEF InTime
  <2> HIDE DEF Leave
  <2> QED
    BY <2>1, <2>2, WireLemma
<1>4. TypeOK'
  BY <1>1, <1>3 DEF TypeOK
<1>5. Timely'
  BY <1>1, <1>3 DEF Timely, Present
<1>6. Spread' /\ ScannedFirst'
  BY <1>1 DEF Spread, ScannedFirst, TypeOK
<1>7. Silenced'
  <2>1. \A m \in wire' : m.sent <= died'
    BY <1>3
  <2>2. \A p \in knows', k \in Prop : last_seen'[p][k] <= died' + Transit
    BY <1>1 DEF TypeOK
  <2> QED
    BY <2>1, <2>2 DEF Silenced
<1> QED
  BY <1>3, <1>4, <1>5, <1>6, <1>7

LEMMA ScanReplicaTimer ==
    ASSUME TimerInvariant, NEW p \in Replicas, ScanReplica(p)
    PROVE  TimerInvariant'
<1> USE TimerAssumption DEF TimerInvariant, ScanReplica, dates
<1>0. p \in Peer /\ p # Creator
  BY DEF Replicas
<1>1. CASE p \in knows /\ \E k \in Prop : now > assume_at[p][k]
  <2>1. /\ knows' = knows \ {p}
        /\ version' \in [Peer -> [Prop -> Nat]]
        /\ last_seen' \in [Peer -> [Prop -> 0 .. now]]
        /\ assume_at' \in [Peer -> [Prop -> Nat]]
        /\ \A q \in Peer \ {p}, k \in Prop :
              /\ version'[q][k] = version[q][k]
              /\ last_seen'[q][k] = last_seen[q][k]
              /\ assume_at'[q][k] = assume_at[q][k]
    BY <1>0, <1>1, ForgetLemma
  <2>2. \A m \in Deletes(p) : m \in Packet /\ m.sent = now /\ m.cmd = "Delete"
    BY SentTypes DEF TypeOK, Replicas, Present, Deletes
  <2>3. /\ wire' \subseteq wire \cup Deletes(p)
        /\ wire' \subseteq Packet
        /\ \A m \in wire' : m.sent <= now /\ now <= m.sent + Transit
        /\ Stirred'
    <3>1. now' = now /\ wire' \subseteq wire \cup Deletes(p) /\ stirred' = stirred
      BY <1>1
    <3>2. \A m \in Deletes(p) : m \in Packet /\ m.sent = now /\ InTime(m, stirred')
      BY <2>2 DEF InTime
    <3> HIDE DEF ScanReplica
    <3> QED
      BY <3>1, <3>2, WireLemma
  <2>4. TypeOK'
    <3>1. scanned' = [scanned EXCEPT ![p] = now] /\ UNCHANGED <<now, died, stirred, hits, losses>>
      OBVIOUS
    <3> HIDE DEF ScanReplica
    <3>2. scanned' \in [Peer -> 0 .. now]
      BY <1>0, <3>1 DEF TypeOK
    <3> QED
      BY <2>1, <2>3, <3>1, <3>2 DEF TypeOK
  <2>5. Timely'
    BY <2>1, <2>3 DEF Timely, TypeOK, Replicas, Present
  <2>6. Spread' /\ ScannedFirst'
    BY <2>1 DEF Spread, ScannedFirst, TypeOK
  <2>7. Silenced'
    BY <1>0, <2>1, <2>2, <2>3 DEF Silenced, FromCreator, Alive, TypeOK
  <2> QED
    BY <2>3, <2>4, <2>5, <2>6, <2>7
<1>2. CASE ~(p \in knows /\ \E k \in Prop : now > assume_at[p][k])
  <2>1. UNCHANGED <<knows, version, last_seen, assume_at, wire>>
    BY <1>2
  <2>2. TypeOK'
    <3>1. scanned' = [scanned EXCEPT ![p] = now] /\ UNCHANGED <<now, died, stirred, hits, losses>>
      OBVIOUS
    <3> HIDE DEF ScanReplica
    <3>2. scanned' \in [Peer -> 0 .. now]
      BY <1>0, <3>1 DEF TypeOK
    <3> QED
      BY <2>1, <3>1, <3>2 DEF TypeOK
  <2>3. Timely'
    BY <2>1 DEF Timely, TypeOK, Replicas, Present
  <2>4. Spread' /\ Stirred' /\ Silenced'
    BY <2>1 DEF Spread, Stirred, Silenced, FromCreator, Alive
  <2>5. ScannedFirst'
    BY <1>0, <1>2, <2>1 DEF ScannedFirst, TypeOK
  <2> QED
    BY <2>2, <2>3, <2>4, <2>5
<1> QED
  BY <1>1, <1>2

LEMMA DeltaUnknownTimer ==
    ASSUME TimerInvariant, NEW p \in Peer, NEW m \in wire, DeltaUnknown(p, m)
    PROVE  TimerInvariant'
<1> USE TimerAssumption
<1>1. TypeOK /\ Timely /\ Stirred
  BY DEF TimerInvariant
<1>2. p \in Replicas /\ m.cmd \in {"Delta", "Hit"} /\ m.from \in Peer /\ m.sent \in Nat
  BY <1>1, PacketTypes DEF TypeOK, DeltaUnknown
<1> DEFINE S == {Query(m.from, p)}
<1>3. /\ Quiet /\ stirred' = stirred /\ hits' \in Nat /\ losses' \in Nat
      /\ wire' \subseteq wire \cup S
  BY <1>1 DEF DeltaUnknown, Receive, TypeOK, Quiet, dates
<1>4. /\ Query(m.from, p) \in Packet /\ Query(m.from, p).sent = now
      /\ Query(m.from, p).cmd = "Query" /\ Query(m.from, p).to = m.from
  BY <1>1, <1>2, SentTypes
<1>5. m.from # Creator => now <= stirred + Transit
  <2>1. now <= m.sent + Transit /\ InTime(m, stirred) /\ stirred \in Nat /\ now \in Nat
    BY <1>1 DEF Timely, Stirred, TypeOK
  <2>2. m.from # Creator => m.cmd = "Hit"
    BY <1>1, <1>2, PacketTypes DEF TypeOK
  <2> QED
    BY <1>2, <2>1, <2>2 DEF InTime
<1>6. \A n \in S : MaySend(n, stirred')
  BY <1>3, <1>4, <1>5 DEF MaySend, InTime, FromCreator
<1>7. stirred' \in {stirred, now}
  BY <1>3
<1> HIDE DEF S
<1> QED
  BY <1>3, <1>6, <1>7, WireOnly

LEMMA DeltaKnownTimer ==
    ASSUME TimerInvariant, NEW p \in Peer, NEW m \in wire,
           NEW d \in [Prop -> AssumeDelay], DeltaKnown(p, m, d)
    PROVE  TimerInvariant'
<1> USE TimerAssumption DEF TimerInvariant, DeltaKnown, dates
<1>1. p \in Replicas /\ p # Creator /\ m.prop \in Prop /\ m.ver \in Nat
  BY PacketTypes DEF TypeOK, Replicas
<1>2. wire' \subseteq wire /\ losses' = losses
  BY DEF Receive
<1>3. now <= m.sent + Transit /\ m.sent \in Nat
  BY PacketTypes DEF Timely, TypeOK
<1>4. CASE Current(p, m)
  <2>1. /\ last_seen' \in [Peer -> [Prop -> 0 .. now]]
        /\ assume_at' \in [Peer -> [Prop -> Nat]]
        /\ \A q \in Peer, k \in Prop :
              IF q = p /\ k \in {m.prop}
              THEN /\ last_seen'[q][k] = now
                   /\ now + MinAssume <= assume_at'[q][k]
                   /\ assume_at'[q][k] <= now + MaxAssume
              ELSE /\ last_seen'[q][k] = last_seen[q][k]
                   /\ assume_at'[q][k] = assume_at[q][k]
    <3>1. \A k \in Prop : d[k] \in Nat /\ MinAssume <= d[k] /\ d[k] <= MaxAssume
      BY DelayBounds
    <3>2. MinAssume \in Nat /\ MaxAssume \in Nat
      BY DEF MinAssume, MaxAssume
    <3>3. /\ last_seen' = [last_seen EXCEPT ![p] =
                             [k \in Prop |-> IF k \in {m.prop} THEN now ELSE @[k]]]
          /\ assume_at' = [assume_at EXCEPT ![p] =
                             [k \in Prop |-> IF k \in {m.prop} THEN now + d[k] ELSE @[k]]]
      BY <1>4 DEF ResetDates
    <3> HIDE DEF DeltaKnown
    <3> QED
      BY <3>1, <3>2, <3>3 DEF TypeOK
  <2>2. TypeOK'
    <3>1. version' \in [Peer -> [Prop -> Nat]] /\ UNCHANGED <<now, knows, scanned, died, stirred, hits>>
      BY <1>1, <1>4, SMTT(30) DEF TypeOK
    <3> HIDE DEF DeltaKnown
    <3> QED
      BY <1>2, <2>1, <3>1 DEF TypeOK
  <2>3. Timely' /\ Stirred'
    BY <1>2 DEF Timely, Stirred, InTime, Present
  <2>4. Spread'
    BY <1>1, <2>1 DEF Spread, TypeOK
  <2>5. ScannedFirst'
    <3>1. MinAssume \in Nat
      BY DEF MinAssume
    <3>2. ASSUME NEW k \in Prop PROVE scanned[p] <= assume_at'[p][k]
      BY <1>1, <2>1, <3>1 DEF ScannedFirst, TypeOK
    <3>3. ASSUME NEW q \in knows, q # p, NEW k \in Prop
          PROVE  last_seen'[q][k] = last_seen[q][k] /\ assume_at'[q][k] = assume_at[q][k]
      BY <2>1, <3>3 DEF TypeOK
    <3> QED
      BY <1>1, <3>2, <3>3 DEF ScannedFirst
  <2>6. Silenced'
    <3> SUFFICES ASSUME ~Alive
                 PROVE  /\ \A n \in wire' : FromCreator(n) => n.sent <= died
                        /\ \A q \in knows, k \in Prop :
                              \/ last_seen'[q][k] <= died + Transit
                              \/ last_seen'[q][k] <= stirred + 3 * Transit
      BY DEF Silenced, Alive, FromCreator
    <3>1. m.sent <= died /\ died \in Nat
      BY DEF Silenced, FromCreator, TypeOK
    <3>2. \A q \in knows : q \in Peer
      BY DEF TypeOK
    <3> HIDE DEF DeltaKnown
    <3>3. ASSUME NEW q \in knows, NEW k \in Prop
          PROVE  last_seen'[q][k] = last_seen[q][k] \/ last_seen'[q][k] = now
      BY <2>1, <3>2
    <3>4. now <= died + Transit
      BY <1>3, <3>1 DEF TypeOK
    <3> QED
      BY <1>2, <3>3, <3>4 DEF Silenced
  <2> QED
    BY <2>2, <2>3, <2>4, <2>5, <2>6
<1>5. CASE ~Current(p, m)
  <2>1. UNCHANGED <<version, last_seen, assume_at>>
    BY <1>5
  <2> QED
    BY <1>2, <2>1
       DEF TypeOK, Timely, Present, Spread, ScannedFirst, Stirred, InTime, Silenced,
           FromCreator, Alive
<1> QED
  BY <1>4, <1>5

LEMMA IncomingCreateTimer ==
    ASSUME TimerInvariant, NEW p \in Peer, NEW m \in wire,
           NEW d \in [Prop -> AssumeDelay], IncomingCreate(p, m, d)
    PROVE  TimerInvariant'
<1> USE TimerAssumption DEF TimerInvariant, IncomingCreate, dates
<1>1. p \in Replicas /\ p # Creator /\ m.vers \in [Prop -> Nat]
  BY PacketTypes DEF TypeOK, Replicas
<1>2. wire' \subseteq wire /\ losses' = losses
  BY DEF Receive
<1>3. now <= m.sent + Transit /\ m.sent \in Nat
  BY PacketTypes DEF Timely, TypeOK
<1>4. CASE p \notin knows
  <2>1. /\ last_seen' \in [Peer -> [Prop -> 0 .. now]]
        /\ assume_at' \in [Peer -> [Prop -> Nat]]
        /\ \A q \in Peer, k \in Prop :
              IF q = p /\ k \in Prop
              THEN /\ last_seen'[q][k] = now
                   /\ now + MinAssume <= assume_at'[q][k]
                   /\ assume_at'[q][k] <= now + MaxAssume
              ELSE /\ last_seen'[q][k] = last_seen[q][k]
                   /\ assume_at'[q][k] = assume_at[q][k]
    <3>1. ResetDates(p, Prop, d) /\ TypeOK
      BY <1>4
    <3> HIDE DEF TimerInvariant, IncomingCreate
    <3> QED
      BY <3>1, ResetLemma
  <2>2. /\ knows' = knows \cup {p} /\ version' \in [Peer -> [Prop -> Nat]]
        /\ UNCHANGED <<now, scanned, died, stirred, hits>>
    BY <1>1, <1>4 DEF TypeOK
  <2> HIDE DEF IncomingCreate
  <2>3. TypeOK'
    BY <1>2, <2>1, <2>2 DEF TypeOK
  <2>4. Timely' /\ Stirred'
    BY <1>1, <1>2, <2>2 DEF Timely, Stirred, InTime, Present
  <2>5. ASSUME NEW q \in knows, q # p, NEW k \in Prop
        PROVE  last_seen'[q][k] = last_seen[q][k] /\ assume_at'[q][k] = assume_at[q][k]
    BY <2>1, <2>5 DEF TypeOK
  <2>6. Spread'
    <3>1. \A k \in Prop : /\ last_seen'[p][k] + MinAssume <= assume_at'[p][k]
                          /\ assume_at'[p][k] <= last_seen'[p][k] + MaxAssume
      BY <2>1
    <3> QED
      BY <2>2, <2>5, <3>1 DEF Spread
  <2>7. ScannedFirst'
    <3>1. MinAssume \in Nat
      BY DEF MinAssume
    <3>2. ASSUME NEW k \in Prop PROVE scanned[p] <= assume_at'[p][k]
      BY <2>1, <3>1 DEF TypeOK
    <3> QED
      BY <1>1, <2>2, <2>5, <3>2 DEF ScannedFirst
  <2>8. Silenced'
    <3> SUFFICES ASSUME ~Alive
                 PROVE  /\ \A n \in wire' : FromCreator(n) => n.sent <= died
                        /\ \A q \in knows', k \in Prop :
                              \/ last_seen'[q][k] <= died + Transit
                              \/ last_seen'[q][k] <= stirred + 3 * Transit
      BY <1>1, <2>2 DEF Silenced, Alive, FromCreator
    <3>1. m.sent <= died \/ m.sent <= stirred + 2 * Transit
      <4>1. m.cmd = "Create" /\ InTime(m, stirred)
        BY DEF IncomingCreate, Stirred
      <4> QED
        BY <4>1 DEF Silenced, FromCreator, InTime
    <3>2. now <= died + Transit \/ now <= stirred + 3 * Transit
      BY <1>3, <3>1 DEF TypeOK
    <3>3. \A k \in Prop : last_seen'[p][k] = now
      BY <2>1
    <3> QED
      BY <1>2, <2>2, <2>5, <3>2, <3>3 DEF Silenced
  <2> QED
    BY <2>3, <2>4, <2>6, <2>7, <2>8
<1>5. CASE p \in knows
  <2>1. UNCHANGED <<knows, version, last_seen, assume_at>>
    BY <1>5
  <2> QED
    BY <1>2, <2>1
       DEF TypeOK, Timely, Present, Spread, ScannedFirst, Stirred, InTime, Silenced,
           FromCreator, Alive
<1> QED
  BY <1>4, <1>5

LEMMA IncomingDeleteTimer ==
    ASSUME TimerInvariant, NEW p \in Peer, NEW m \in wire, IncomingDelete(p, m)
    PROVE  TimerInvariant'
<1> USE DEF TimerInvariant, IncomingDelete, dates
<1>1. wire' \subseteq wire /\ losses' = losses
  BY DEF Receive
<1>2. CASE p \in knows \ {Creator}
  <2>1. /\ knows' = knows \ {p}
        /\ version' \in [Peer -> [Prop -> Nat]]
        /\ last_seen' \in [Peer -> [Prop -> 0 .. now]]
        /\ assume_at' \in [Peer -> [Prop -> Nat]]
        /\ \A q \in Peer \ {p}, k \in Prop :
              /\ version'[q][k] = version[q][k]
              /\ last_seen'[q][k] = last_seen[q][k]
              /\ assume_at'[q][k] = assume_at[q][k]
    BY <1>2, ForgetLemma
  <2>2. TypeOK'
    BY <1>1, <2>1 DEF TypeOK
  <2>3. Timely'
    BY <1>1, <2>1 DEF Timely, Present
  <2>4. Spread' /\ ScannedFirst'
    BY <1>2, <2>1 DEF Spread, ScannedFirst, TypeOK
  <2>5. Stirred'
    BY <1>1 DEF Stirred, InTime
  <2>6. Silenced'
    <3>1. \A q \in knows' : q \in knows /\ q \in Peer \ {p}
      BY <2>1 DEF TypeOK
    <3>2. died' = died /\ stirred' = stirred /\ Alive' = Alive
      BY <1>2, <2>1 DEF Alive
    <3> HIDE DEF IncomingDelete
    <3> QED
      BY <1>1, <2>1, <3>1, <3>2 DEF Silenced, FromCreator
  <2> QED
    BY <2>2, <2>3, <2>4, <2>5, <2>6
<1>3. CASE p \notin knows \ {Creator}
  <2>1. UNCHANGED <<knows, version, last_seen, assume_at>>
    BY <1>3
  <2> QED
    BY <1>1, <2>1
       DEF TypeOK, Timely, Present, Spread, ScannedFirst, Stirred, InTime, Silenced,
           FromCreator, Alive
<1> QED
  BY <1>2, <1>3

LEMMA LoseTimer ==
    ASSUME TimerInvariant, NEW m \in wire, Lose(m)
    PROVE  TimerInvariant'
<1>1. Quiet /\ stirred' \in {stirred, now}
  BY DEF Lose, Quiet, dates
<1>2. hits' \in Nat /\ losses' \in Nat
  BY DEF Lose, TimerInvariant, TypeOK
<1> DEFINE S == {}
<1>3. wire' \subseteq wire \cup S /\ \A n \in S : MaySend(n, stirred')
  BY DEF Lose
<1> HIDE DEF S
<1> QED
  BY <1>1, <1>2, <1>3, WireOnly
-----------------------------------------------------------------------------
(* The theorems. *)

LEMMA TimerStep == TimerInvariant /\ [Next]_vars => TimerInvariant'
<1> SUFFICES ASSUME TimerInvariant, [Next]_vars PROVE TimerInvariant'
  OBVIOUS
<1>1. CASE Tick
  BY <1>1, TickTimer
<1>2. CASE Own
  <2>1. ASSUME NEW K \in SUBSET Prop, NEW d \in [Prop -> AssumeDelay], Move(K, d)
        PROVE  TimerInvariant'
    BY <2>1, MoveTimer
  <2>2. ASSUME NEW d \in [Prop -> AssumeDelay], ScanOwn(d) PROVE TimerInvariant'
    BY <2>2, ScanOwnTimer
  <2>3. CASE Quit
    BY <2>3, LeaveTimer DEF Quit
  <2>4. CASE Crash
    BY <2>4, LeaveTimer DEF Crash
  <2> QED
    BY <1>2, <2>1, <2>2, <2>3, <2>4 DEF Own
<1>3. ASSUME NEW p \in Peer, Other(p) PROVE TimerInvariant'
  <2>1. CASE ScanReplica(p)
    BY <2>1, ScanReplicaTimer DEF ScanReplica
  <2>2. ASSUME NEW m \in wire, DeltaUnknown(p, m) PROVE TimerInvariant'
    BY <2>2, DeltaUnknownTimer
  <2>3. ASSUME NEW m \in wire, NEW d \in [Prop -> AssumeDelay], DeltaKnown(p, m, d)
        PROVE  TimerInvariant'
    BY <2>3, DeltaKnownTimer
  <2>4. ASSUME NEW m \in wire, NEW d \in [Prop -> AssumeDelay], IncomingCreate(p, m, d)
        PROVE  TimerInvariant'
    BY <2>4, IncomingCreateTimer
  <2>5. ASSUME NEW m \in wire, IncomingDelete(p, m) PROVE TimerInvariant'
    BY <2>5, IncomingDeleteTimer
  <2> QED
    BY <1>3, <2>1, <2>2, <2>3, <2>4, <2>5 DEF Other
<1>4. ASSUME NEW p \in Peer, Any(p) PROVE TimerInvariant'
  BY <1>4, StrikeTimer, IncomingQueryTimer, IncomingHitTimer DEF Any
<1>5. ASSUME NEW m \in wire, Lose(m) PROVE TimerInvariant'
  BY <1>5, LoseTimer
<1>6. CASE UNCHANGED vars
  BY <1>6 DEF vars, dates, TimerInvariant, TypeOK, Timely, Present, Spread, ScannedFirst,
              Stirred, InTime, Silenced, FromCreator, Alive
<1> QED
  BY <1>1, <1>2, <1>3, <1>4, <1>5, <1>6 DEF Next

\* The inductive invariant of the dates: nothing timely is late, a scan leaves nothing
\* overdue, a dead creator is silent but for what it had under way, and only what
\* follows a strike renews its ghosts
THEOREM TimerHolds == Spec => []TimerInvariant
BY InitTimer, TimerStep, PTL DEF Spec

\* Types, and no date of the past lies in the future, whatever the delays
THEOREM TimerTypeCorrect == Spec => []TypeOK
BY TimerHolds, PTL DEF TimerInvariant

LEMMA PunctualLemma == TimerInvariant => HeartbeatsPunctual
BY TimerAssumption
   DEF TimerInvariant, TypeOK, Timely, ScannedFirst, HeartbeatsPunctual, Alive

\* A creator's properties are never silent for longer than a refresh and a period
THEOREM PunctualTheorem == Spec => []HeartbeatsPunctual
BY TimerHolds, PunctualLemma, PTL

LEMMA GhostsLemma == TimerInvariant => GhostsShortLived
<1> SUFFICES ASSUME TimerInvariant, ~Alive, now > LastRenewal + MaxAssume + Period,
                    NEW p \in knows
             PROVE  FALSE
  BY DEF GhostsShortLived
<1> USE TimerAssumption
<1>1. PICK k \in Prop : TRUE
  OBVIOUS
<1>2. p \in Peer /\ p # Creator
  BY DEF TimerInvariant, TypeOK, Alive
<1>3. /\ now \in Nat /\ died \in Nat /\ stirred \in Nat /\ MaxAssume \in Nat
      /\ scanned[p] \in Nat /\ assume_at[p][k] \in Nat /\ last_seen[p][k] \in Nat
  BY <1>2 DEF TimerInvariant, TypeOK, MaxAssume
<1>4. now <= scanned[p] + Period /\ scanned[p] <= assume_at[p][k]
  BY <1>2 DEF TimerInvariant, Timely, ScannedFirst
<1>5. assume_at[p][k] <= last_seen[p][k] + MaxAssume
  BY DEF TimerInvariant, Spread
<1>6. last_seen[p][k] <= LastRenewal
  <2>1. \/ last_seen[p][k] <= died + Transit
        \/ last_seen[p][k] <= stirred + 3 * Transit
    BY DEF TimerInvariant, Silenced
  <2> QED
    BY <1>3, <2>1 DEF LastRenewal
<1>7. LastRenewal \in Nat
  BY <1>3 DEF LastRenewal
<1> QED
  BY <1>3, <1>4, <1>5, <1>6, <1>7

\* The replicas of an avatar whose user has left, by a crash or not, are gone in
\* time at every client, whatever packets were lost or duplicated: though every client
\* that lists a ghost answers Queries, it is the last strike that bounds its life
THEOREM GhostsTheorem == Spec => []GhostsShortLived
BY TimerHolds, GhostsLemma, PTL
-----------------------------------------------------------------------------
(* No false death: what a replica waits for. *)

\* A heart-beat under way to p that will renew property k in time
Awaited(p, k, m) ==
    /\ m.cmd = "Delta" /\ m.to = p /\ m.prop = k
    /\ m.ver >= version[p][k]
    /\ m.sent <= last_seen[p][k] + Refresh + Period

\* Nobody is ahead of a living creator, and nobody says it is dead: who sent a Delta
\* of the avatar lists it, and so does whoever is asked
Ordered ==
    Alive =>
        /\ \A m \in wire :
              /\ m.cmd = "Delta" => m.ver <= version[Creator][m.prop]
              /\ m.cmd = "Create" =>
                    \A k \in Prop : m.vers[k] <= version[Creator][k]
              /\ m.cmd # "Delete"
              /\ m.cmd \in {"Delta", "Hit"} => m.from \in knows
              /\ m.cmd = "Query" => m.to \in knows
        /\ \A p \in knows, k \in Prop : version[p][k] <= version[Creator][k]

\* A replica has seen something since the last heart-beat, or one is coming
Fresh ==
    Alive =>
        \A p \in knows \ {Creator}, k \in Prop :
            \/ last_seen[p][k] >= last_seen[Creator][k]
            \/ \E m \in wire : Awaited(p, k, m)

FreshInvariant == TimerInvariant /\ Ordered /\ Fresh

LEMMA NotOverdue ==
    ASSUME FreshInvariant, Period + Transit <= Refresh, Alive,
           NEW p \in knows, p # Creator, NEW k \in Prop
    PROVE  now <= assume_at[p][k]
<1> USE TimerAssumption DEF FreshInvariant
<1>1. p \in Peer /\ Creator \in Peer
  BY DEF TimerInvariant, TypeOK
<1>2. /\ now \in Nat /\ assume_at[p][k] \in Nat
      /\ last_seen[p][k] \in Nat /\ last_seen[Creator][k] \in Nat
  BY <1>1 DEF TimerInvariant, TypeOK
<1>3. last_seen[p][k] + 2 * Refresh <= assume_at[p][k]
  BY DEF TimerInvariant, Spread, MinAssume
<1>4. CASE last_seen[p][k] >= last_seen[Creator][k]
  <2>1. now <= last_seen[Creator][k] + Refresh + Period
    BY PunctualLemma DEF HeartbeatsPunctual
  <2> QED
    BY <1>2, <1>3, <1>4, <2>1
<1>5. ASSUME NEW m \in wire, Awaited(p, k, m) PROVE now <= assume_at[p][k]
  <2>1. m.sent \in Nat /\ now <= m.sent + Transit
    BY PacketTypes DEF TimerInvariant, TypeOK, Timely
  <2>2. m.sent <= last_seen[p][k] + Refresh + Period
    BY <1>5 DEF Awaited
  <2> QED
    BY <1>2, <1>3, <2>1, <2>2
<1> QED
  BY <1>4, <1>5 DEF Fresh

\* A living creator's new Deltas keep the order, and are waited for
LEMMA SentFresh ==
    ASSUME FreshInvariant, NEW K \in SUBSET Prop, Alive, knows' = knows,
           \A q \in Replicas, k \in Prop :
              version'[q][k] = version[q][k] /\ last_seen'[q][k] = last_seen[q][k],
           \A k \in Prop : /\ version'[Creator][k] \in Nat
                           /\ version[Creator][k] <= version'[Creator][k]
                           /\ k \notin K => last_seen'[Creator][k] = last_seen[Creator][k],
           wire \subseteq wire',
           \A q \in Replicas, k \in K : Delta(q, k, version'[Creator][k]) \in wire',
           \A m \in wire' : m \in wire \/ \E q \in Replicas, k \in K :
                                           m = Delta(q, k, version'[Creator][k])
    PROVE  Ordered' /\ Fresh'
<1> USE TimerAssumption DEF FreshInvariant
<1>1. \A p \in knows \ {Creator} : p \in Replicas /\ p \in Peer
  BY DEF TimerInvariant, TypeOK, Replicas
<1>2. \A q \in Peer, k \in Prop :
         version[q][k] \in Nat /\ last_seen[q][k] \in Nat /\ now \in Nat
  BY DEF TimerInvariant, TypeOK
<1>3. Ordered'
  <2>1. ASSUME NEW m \in wire, m.cmd = "Delta"
        PROVE  m.ver <= version'[Creator][m.prop]
    <3>1. m.prop \in Prop /\ m.ver \in Nat
      BY <2>1, PacketTypes DEF TimerInvariant, TypeOK
    <3>2. m.ver <= version[Creator][m.prop]
      BY <2>1 DEF Ordered
    <3>3. version[Creator][m.prop] \in Nat /\ version'[Creator][m.prop] \in Nat
          /\ version[Creator][m.prop] <= version'[Creator][m.prop]
      BY <1>2, <3>1
    <3> QED
      BY <3>1, <3>2, <3>3
  <2>2. ASSUME NEW m \in wire, m.cmd = "Create", NEW k \in Prop
        PROVE  m.vers[k] <= version'[Creator][k]
    <3>1. m.vers \in [Prop -> Nat]
      BY <2>2, PacketTypes DEF TimerInvariant, TypeOK
    <3> QED
      BY <1>2, <2>2, <3>1 DEF Ordered
  <2>3. \A m \in wire : /\ m.cmd # "Delete"
                        /\ m.cmd \in {"Delta", "Hit"} => m.from \in knows
                        /\ m.cmd = "Query" => m.to \in knows
    BY DEF Ordered
  <2>4. ASSUME NEW m \in wire' \ wire
        PROVE  /\ m.cmd = "Delta" /\ m.ver <= version'[Creator][m.prop]
               /\ m.from \in knows
    BY <2>4 DEF Delta, Alive
  <2>5. ASSUME NEW p \in knows, NEW k \in Prop
        PROVE  version'[p][k] <= version'[Creator][k]
    <3>1. CASE p = Creator
      BY <3>1
    <3>2. CASE p # Creator
      <4>1. version'[p][k] = version[p][k] /\ version[p][k] \in Nat
        BY <1>1, <1>2, <3>2
      <4>2. version[p][k] <= version[Creator][k]
        BY DEF Ordered
      <4> QED
        BY <1>2, <4>1, <4>2
    <3> QED
      BY <3>1, <3>2
  <2>6. ASSUME NEW m \in wire'
        PROVE  /\ m.cmd = "Delta" => m.ver <= version'[Creator][m.prop]
               /\ m.cmd = "Create" => \A k \in Prop : m.vers[k] <= version'[Creator][k]
               /\ m.cmd # "Delete"
               /\ m.cmd \in {"Delta", "Hit"} => m.from \in knows
               /\ m.cmd = "Query" => m.to \in knows
    <3>1. CASE m \in wire
      BY <2>1, <2>2, <2>3, <3>1
    <3>2. CASE m \notin wire
      BY <2>4, <3>2
    <3> QED
      BY <3>1, <3>2
  <2> QED
    BY <2>5, <2>6 DEF Ordered
<1>4. Fresh'
  <2> SUFFICES ASSUME NEW p \in knows \ {Creator}, NEW k \in Prop
               PROVE  \/ last_seen'[p][k] >= last_seen'[Creator][k]
                      \/ \E m \in wire' : Awaited(p, k, m)'
    BY DEF Fresh
  <2>1. version'[p][k] = version[p][k] /\ last_seen'[p][k] = last_seen[p][k]
    BY <1>1
  <2>2. ASSUME NEW m \in wire, Awaited(p, k, m)
        PROVE  \E n \in wire' : Awaited(p, k, n)'
    BY <2>1, <2>2 DEF Awaited
  <2>3. CASE last_seen[p][k] >= last_seen[Creator][k] /\ k \notin K
    BY <2>1, <2>3
  <2>4. CASE last_seen[p][k] >= last_seen[Creator][k] /\ k \in K
    <3>1. \E m \in wire' : /\ m.cmd = "Delta" /\ m.to = p /\ m.prop = k
                           /\ m.ver = version'[Creator][k] /\ m.sent = now
      <4>1. Delta(p, k, version'[Creator][k]) \in wire'
        BY <1>1, <2>4
      <4> QED
        BY <4>1 DEF Delta
    <3>2. PICK m \in wire' : /\ m.cmd = "Delta" /\ m.to = p /\ m.prop = k
                            /\ m.ver = version'[Creator][k] /\ m.sent = now
      BY <3>1
    <3>3. now <= last_seen[Creator][k] + Refresh + Period
      BY PunctualLemma DEF HeartbeatsPunctual
    <3>4. version[p][k] <= version'[Creator][k]
      <4>1. version[p][k] <= version[Creator][k]
        BY DEF Ordered
      <4>2. /\ version[p][k] \in Nat /\ version[Creator][k] \in Nat
            /\ version[Creator][k] <= version'[Creator][k] /\ version'[Creator][k] \in Nat
        BY <1>1, <1>2
      <4> QED
        BY <4>1, <4>2
    <3>5. m.ver >= version'[p][k] /\ m.sent <= last_seen'[p][k] + Refresh + Period
      BY <1>1, <1>2, <2>1, <2>4, <3>2, <3>3, <3>4
    <3> QED
      BY <3>2, <3>5 DEF Awaited
  <2> QED
    BY <2>2, <2>3, <2>4 DEF Fresh
<1> QED
  BY <1>3, <1>4

\* A Query to one who lists the avatar, a strike of one, a Create of one
FromKnown(m) ==
    \/ m.cmd = "Query" /\ m.to \in knows
    \/ m.cmd = "Hit" /\ m.from \in knows
    \/ \E q \in knows : m = Create(m.to, q)

\* The actions that send no Delta: what is waited for stays under way
LEMMA KeptFresh ==
    ASSUME FreshInvariant, Alive, knows' = knows, version' = version,
           last_seen' = last_seen,
           \A m \in wire' : m \in wire \/ FromKnown(m),
           \A m \in wire : m \in wire' \/ m.cmd # "Delta" \/ m.to \notin knows
    PROVE  Ordered' /\ Fresh'
<1> USE DEF FreshInvariant, FromKnown
<1>1. ASSUME NEW m \in wire'
      PROVE  /\ m.cmd = "Delta" => m.ver <= version[Creator][m.prop]
             /\ m.cmd = "Create" => \A k \in Prop : m.vers[k] <= version[Creator][k]
             /\ m.cmd # "Delete"
             /\ m.cmd \in {"Delta", "Hit"} => m.from \in knows
             /\ m.cmd = "Query" => m.to \in knows
  <2>1. CASE m \in wire
    BY <2>1 DEF Ordered
  <2>2. CASE m.cmd = "Query" /\ m.to \in knows
    BY <2>2
  <2>3. CASE m.cmd = "Hit" /\ m.from \in knows
    BY <2>3
  <2>4. ASSUME NEW q \in knows, m = Create(m.to, q)
        PROVE  m.cmd = "Create" /\ \A k \in Prop : m.vers[k] <= version[Creator][k]
    <3>1. m.cmd = "Create" /\ m.vers = version[q]
      BY <2>4 DEF Create
    <3> QED
      BY <3>1 DEF Ordered
  <2> QED
    BY <2>1, <2>2, <2>3, <2>4
<1>2. Ordered'
  BY <1>1 DEF Ordered
<1>3. ASSUME NEW p \in knows, NEW k \in Prop, NEW m \in wire, Awaited(p, k, m)
      PROVE  m \in wire' /\ Awaited(p, k, m)'
  BY <1>3 DEF Awaited
<1>4. Fresh'
  BY <1>3 DEF Fresh, Alive
<1> QED
  BY <1>2, <1>4

LEMMA DeltaKnownFresh ==
    ASSUME FreshInvariant, Alive, NEW p \in Peer, NEW m \in wire,
           NEW d \in [Prop -> AssumeDelay], DeltaKnown(p, m, d)
    PROVE  Ordered' /\ Fresh'
<1> USE TimerAssumption DEF FreshInvariant, dates
<1>1. /\ p \in knows /\ p # Creator /\ m.to = p /\ m.cmd = "Delta"
      /\ m.prop \in Prop /\ m.ver \in Nat
  BY PacketTypes DEF TimerInvariant, TypeOK, Replicas, DeltaKnown
<1>2. /\ wire' \subseteq wire /\ \A n \in wire : n \in wire' \/ n = m
      /\ UNCHANGED <<now, knows>>
  BY DEF DeltaKnown, Receive
<1>3. \A q \in Peer, k \in Prop :
         version[q][k] \in Nat /\ last_seen[q][k] \in Nat /\ last_seen[q][k] <= now
  BY DEF TimerInvariant, TypeOK
<1>4. CASE Current(p, m)
  <2>1. \A q \in Peer, k \in Prop :
           IF q = p /\ k = m.prop
           THEN version'[q][k] = m.ver /\ last_seen'[q][k] = now
           ELSE version'[q][k] = version[q][k] /\ last_seen'[q][k] = last_seen[q][k]
    BY <1>1, <1>4 DEF DeltaKnown, ResetDates, TimerInvariant, TypeOK
  <2>2. knows \subseteq Peer
    BY DEF TimerInvariant, TypeOK
  <2>3. m.ver <= version[Creator][m.prop]
    BY <1>1 DEF Ordered
  <2>4. Ordered'
    <3>1. ASSUME NEW n \in wire', n.cmd = "Delta"
          PROVE  n.ver <= version'[Creator][n.prop]
      <4>1. n \in wire /\ n.prop \in Prop
        BY <1>2, <3>1, PacketTypes DEF TimerInvariant, TypeOK
      <4> QED
        BY <1>1, <2>1, <3>1, <4>1 DEF Ordered
    <3>2. ASSUME NEW n \in wire', n.cmd = "Create", NEW k \in Prop
          PROVE  n.vers[k] <= version'[Creator][k]
      BY <1>1, <1>2, <2>1, <3>2 DEF Ordered
    <3>3. \A n \in wire' : /\ n.cmd # "Delete"
                           /\ n.cmd \in {"Delta", "Hit"} => n.from \in knows
                           /\ n.cmd = "Query" => n.to \in knows
      BY <1>2 DEF Ordered
    <3>4. ASSUME NEW q \in knows, NEW k \in Prop
          PROVE  version'[q][k] <= version'[Creator][k]
      BY <1>1, <2>1, <2>2, <2>3 DEF Ordered
    <3> QED
      BY <1>2, <3>1, <3>2, <3>3, <3>4 DEF Ordered
  <2>5. Fresh'
    <3> SUFFICES ASSUME NEW q \in knows \ {Creator}, NEW k \in Prop
                 PROVE  \/ last_seen'[q][k] >= last_seen'[Creator][k]
                        \/ \E n \in wire' : Awaited(q, k, n)'
      BY <1>2 DEF Fresh
    <3>1. CASE q = p /\ k = m.prop
      <4>1. last_seen'[q][k] = now
        BY <1>1, <2>1, <2>2, <3>1
      <4>2. last_seen'[Creator][k] = last_seen[Creator][k]
        BY <1>1, <2>1
      <4> QED
        BY <1>3, <4>1, <4>2
    <3>2. CASE ~(q = p /\ k = m.prop)
      <4>1. /\ version'[q][k] = version[q][k] /\ last_seen'[q][k] = last_seen[q][k]
            /\ last_seen'[Creator][k] = last_seen[Creator][k]
        BY <1>1, <2>1, <2>2, <3>2
      <4>2. ASSUME NEW n \in wire, Awaited(q, k, n)
            PROVE  n \in wire' /\ Awaited(q, k, n)'
        BY <1>1, <1>2, <3>2, <4>1, <4>2 DEF Awaited
      <4> QED
        BY <4>1, <4>2 DEF Fresh
    <3> QED
      BY <3>1, <3>2
  <2> QED
    BY <2>4, <2>5
<1>5. CASE ~Current(p, m)
  <2>1. UNCHANGED <<version, last_seen, assume_at>>
    BY <1>5 DEF DeltaKnown
  <2>2. Ordered'
    BY <1>2, <2>1 DEF Ordered
  <2>3. ASSUME NEW q \in knows, NEW k \in Prop, NEW n \in wire, Awaited(q, k, n)
        PROVE  n \in wire' /\ Awaited(q, k, n)'
    <3>1. n # m
      BY <1>1, <1>5, <2>3 DEF Awaited, Current
    <3> QED
      BY <1>2, <2>1, <2>3, <3>1 DEF Awaited
  <2>4. Fresh'
    BY <1>2, <2>1, <2>3 DEF Fresh, Alive
  <2> QED
    BY <2>2, <2>4
<1> QED
  BY <1>4, <1>5

LEMMA IncomingCreateFresh ==
    ASSUME FreshInvariant, Alive, NEW p \in Peer, NEW m \in wire,
           NEW d \in [Prop -> AssumeDelay], IncomingCreate(p, m, d)
    PROVE  Ordered' /\ Fresh'
<1> USE TimerAssumption DEF FreshInvariant, dates
<1>1. p # Creator /\ m.cmd = "Create" /\ m.vers \in [Prop -> Nat]
  BY PacketTypes DEF TimerInvariant, TypeOK, Replicas, IncomingCreate
<1>2. /\ wire' \subseteq wire /\ \A n \in wire : n \in wire' \/ n = m
      /\ now' = now
  BY DEF IncomingCreate, Receive
<1>3. \A q \in Peer, k \in Prop :
         version[q][k] \in Nat /\ last_seen[q][k] \in Nat /\ last_seen[q][k] <= now
  BY DEF TimerInvariant, TypeOK
<1>4. CASE p \in knows
  <2>1. UNCHANGED <<knows, version, last_seen, assume_at>>
    BY <1>4 DEF IncomingCreate
  <2>2. \A n \in wire' : n \in wire \/ FromKnown(n)
    BY <1>2
  <2>3. \A n \in wire : n \in wire' \/ n.cmd # "Delta" \/ n.to \notin knows
    BY <1>1, <1>2
  <2> QED
    BY <2>1, <2>2, <2>3, KeptFresh
<1>5. CASE p \notin knows
  <2>1. /\ knows' = knows \cup {p}
        /\ \A q \in Peer, k \in Prop :
              IF q = p
              THEN version'[q][k] = m.vers[k] /\ last_seen'[q][k] = now
              ELSE version'[q][k] = version[q][k] /\ last_seen'[q][k] = last_seen[q][k]
    <3>1. /\ knows' = knows \cup {p} /\ version' = [version EXCEPT ![p] = m.vers]
          /\ last_seen' = [last_seen EXCEPT ![p] =
                             [k \in Prop |-> IF k \in Prop THEN now ELSE @[k]]]
      BY <1>5 DEF IncomingCreate, ResetDates
    <3> QED
      BY <3>1 DEF TimerInvariant, TypeOK
  <2>2. knows \subseteq Peer
    BY DEF TimerInvariant, TypeOK
  <2>3. Ordered'
    <3>1. ASSUME NEW n \in wire', n.cmd = "Delta"
          PROVE  n.ver <= version'[Creator][n.prop]
      <4>1. n \in wire /\ n.prop \in Prop
        BY <1>2, <3>1, PacketTypes DEF TimerInvariant, TypeOK
      <4> QED
        BY <1>1, <2>1, <3>1, <4>1 DEF Ordered
    <3>2. ASSUME NEW n \in wire', n.cmd = "Create", NEW k \in Prop
          PROVE  n.vers[k] <= version'[Creator][k]
      BY <1>1, <1>2, <2>1, <3>2 DEF Ordered
    <3>3. \A n \in wire' : /\ n.cmd # "Delete"
                           /\ n.cmd \in {"Delta", "Hit"} => n.from \in knows'
                           /\ n.cmd = "Query" => n.to \in knows'
      BY <1>2, <2>1 DEF Ordered
    <3>4. ASSUME NEW q \in knows', NEW k \in Prop
          PROVE  version'[q][k] <= version'[Creator][k]
      BY <1>1, <2>1, <2>2 DEF Ordered
    <3> QED
      BY <3>1, <3>2, <3>3, <3>4 DEF Ordered
  <2>4. Fresh'
    <3> SUFFICES ASSUME NEW q \in knows' \ {Creator}, NEW k \in Prop
                 PROVE  \/ last_seen'[q][k] >= last_seen'[Creator][k]
                        \/ \E n \in wire' : Awaited(q, k, n)'
      BY DEF Fresh
    <3>1. CASE q = p
      BY <1>1, <1>3, <2>1, <3>1
    <3>2. CASE q # p
      <4>1. /\ version'[q][k] = version[q][k] /\ last_seen'[q][k] = last_seen[q][k]
            /\ last_seen'[Creator][k] = last_seen[Creator][k]
        BY <1>1, <2>1, <2>2, <3>2
      <4>2. ASSUME NEW n \in wire, Awaited(q, k, n)
            PROVE  n \in wire' /\ Awaited(q, k, n)'
        BY <1>1, <1>2, <4>1, <4>2 DEF Awaited
      <4> QED
        BY <2>1, <3>2, <4>1, <4>2 DEF Fresh
    <3> QED
      BY <3>1, <3>2
  <2> QED
    BY <2>3, <2>4
<1> QED
  BY <1>4, <1>5

LEMMA InitFresh == Init => FreshInvariant
<1> SUFFICES ASSUME Init PROVE FreshInvariant
  OBVIOUS
<1>1. TimerInvariant
  BY InitTimer
<1>2. Ordered /\ Fresh
  BY <1>1 DEF Init, Ordered, Fresh, TimerInvariant, TypeOK
<1> QED
  BY <1>1, <1>2 DEF FreshInvariant

\* A step that keeps a living creator keeps the invariant, and loses no replica
LEMMA FreshKept ==
    ASSUME MaxLosses = 0, Period + Transit <= Refresh, FreshInvariant, [Next]_vars,
           Alive'
    PROVE  Ordered' /\ Fresh' /\ knows \subseteq knows'
<1> USE DEF dates
<1>0. Ordered /\ Fresh /\ TimerInvariant /\ TypeOK
  BY DEF FreshInvariant, TimerInvariant
<1>1. CASE Tick
  <2>1. UNCHANGED <<knows, version, last_seen, assume_at, wire>>
    BY <1>1 DEF Tick
  <2> QED
    BY <1>0, <2>1 DEF Ordered, Fresh, Alive, Awaited
<1>2. CASE Own
  <2>1. ASSUME NEW K \in SUBSET Prop, NEW d \in [Prop -> AssumeDelay], Move(K, d)
        PROVE  Ordered' /\ Fresh' /\ knows \subseteq knows'
    <3>1. \A q \in Peer, k \in Prop :
             /\ version'[q][k] = IF q = Creator /\ k \in K THEN version[q][k] + 1
                                                           ELSE version[q][k]
             /\ (q = Creator /\ k \in K) \/ last_seen'[q][k] = last_seen[q][k]
      BY <1>0, <2>1 DEF Move, ResetDates, TypeOK
    <3>2. /\ wire \subseteq wire'
          /\ \A q \in Replicas, k \in K : Delta(q, k, version'[Creator][k]) \in wire'
          /\ \A m \in wire' : m \in wire \/ \E q \in Replicas, k \in K :
                                             m = Delta(q, k, version'[Creator][k])
      <4>1. \A k \in K : version'[Creator][k] = version[Creator][k] + 1
        BY <3>1, TimerAssumption
      <4>2. wire' = wire \cup {Delta(q, k, version[Creator][k] + 1) :
                                 q \in Replicas, k \in K}
        BY <2>1 DEF Move
      <4> QED
        BY <4>1, <4>2
    <3>3. knows' = knows /\ Alive
      BY <2>1 DEF Move
    <3>4. \A q \in Replicas, k \in Prop :
             version'[q][k] = version[q][k] /\ last_seen'[q][k] = last_seen[q][k]
      BY <3>1 DEF Replicas
    <3>5. \A k \in Prop : /\ version'[Creator][k] \in Nat
                          /\ version[Creator][k] <= version'[Creator][k]
                          /\ k \notin K => last_seen'[Creator][k] = last_seen[Creator][k]
      BY <1>0, <3>1, TimerAssumption DEF TypeOK
    <3> QED
      BY <3>2, <3>3, <3>4, <3>5, SentFresh
  <2>2. ASSUME NEW d \in [Prop -> AssumeDelay], ScanOwn(d)
        PROVE  Ordered' /\ Fresh' /\ knows \subseteq knows'
    <3>1. PICK K \in SUBSET Prop : K = Refreshed
      BY DEF Refreshed
    <3>2. last_seen' = [last_seen EXCEPT ![Creator] =
                          [k \in Prop |-> IF k \in K THEN now ELSE @[k]]]
      BY <2>2, <3>1 DEF ScanOwn, ResetDates
    <3>3. \A q \in Peer, k \in Prop :
             (q = Creator /\ k \in K) \/ last_seen'[q][k] = last_seen[q][k]
      BY <1>0, <3>2 DEF TypeOK
    <3>4. /\ version' = version /\ knows' = knows /\ Alive
          /\ wire \subseteq wire'
          /\ \A q \in Replicas, k \in K : Delta(q, k, version'[Creator][k]) \in wire'
          /\ \A m \in wire' : m \in wire \/ \E q \in Replicas, k \in K :
                                             m = Delta(q, k, version'[Creator][k])
      BY <2>2, <3>1 DEF ScanOwn
    <3>5. \A q \in Replicas, k \in Prop :
             version'[q][k] = version[q][k] /\ last_seen'[q][k] = last_seen[q][k]
      BY <3>3, <3>4 DEF Replicas
    <3>6. \A k \in Prop : /\ version'[Creator][k] \in Nat
                          /\ version[Creator][k] <= version'[Creator][k]
                          /\ k \notin K => last_seen'[Creator][k] = last_seen[Creator][k]
      BY <1>0, <3>3, <3>4, TimerAssumption DEF TypeOK
    <3> QED
      BY <3>4, <3>5, <3>6, SentFresh
  <2>3. CASE Quit \/ Crash
    BY <2>3 DEF Quit, Crash, Leave, Forget, Alive
  <2> QED
    BY <1>2, <2>1, <2>2, <2>3 DEF Own
<1>3. ASSUME NEW p \in Peer, Other(p)
      PROVE  Ordered' /\ Fresh' /\ knows \subseteq knows'
  <2>1. CASE ScanReplica(p)
    <3>1. p # Creator
      BY <2>1 DEF ScanReplica, Replicas
    <3>2. Alive
      BY <2>1, <3>1 DEF ScanReplica, Forget, Alive
    <3>3. \A k \in Prop : p \in knows => ~(now > assume_at[p][k])
      <4> SUFFICES ASSUME NEW k \in Prop, p \in knows, now > assume_at[p][k] PROVE FALSE
        OBVIOUS
      <4>1. now <= assume_at[p][k]
        BY <3>1, <3>2, NotOverdue
      <4> QED
        BY <1>0, <4>1 DEF TypeOK
    <3>4. UNCHANGED <<knows, version, dates, wire>>
      BY <2>1, <3>3 DEF ScanReplica
    <3> QED
      BY <1>0, <3>4 DEF Ordered, Fresh, Alive, Awaited
  <2>2. ASSUME NEW m \in wire, DeltaUnknown(p, m)
        PROVE  Ordered' /\ Fresh' /\ knows \subseteq knows'
    <3>1. knows' = knows /\ Alive /\ version' = version /\ last_seen' = last_seen
      BY <2>2 DEF DeltaUnknown, Alive
    <3>2. \A n \in wire' : n \in wire \/ FromKnown(n)
      <4>1. m.from \in knows
        BY <1>0, <2>2, <3>1 DEF DeltaUnknown, Ordered
      <4>2. \A n \in wire' : n \in wire \/ n = Query(m.from, p)
        BY <2>2 DEF DeltaUnknown, Receive
      <4> QED
        BY <4>1, <4>2 DEF Query, FromKnown
    <3>3. \A n \in wire : n \in wire' \/ n.cmd # "Delta" \/ n.to \notin knows
      BY <2>2 DEF DeltaUnknown, Receive
    <3> QED
      BY <3>1, <3>2, <3>3, KeptFresh
  <2>3. ASSUME NEW m \in wire, NEW d \in [Prop -> AssumeDelay], DeltaKnown(p, m, d)
        PROVE  Ordered' /\ Fresh' /\ knows \subseteq knows'
    <3>1. knows' = knows /\ Alive
      BY <2>3 DEF DeltaKnown, Alive
    <3> QED
      BY <2>3, <3>1, DeltaKnownFresh
  <2>4. ASSUME NEW m \in wire, NEW d \in [Prop -> AssumeDelay], IncomingCreate(p, m, d)
        PROVE  Ordered' /\ Fresh' /\ knows \subseteq knows'
    <3>1. m \in Packet /\ m.cmd = "Create" /\ m.to = p
      BY <1>0, <2>4 DEF IncomingCreate, TypeOK
    <3>2. p # Creator
      BY <3>1, PacketTypes DEF Replicas
    <3>3. Alive /\ knows \subseteq knows'
      BY <2>4, <3>2 DEF IncomingCreate, Alive
    <3> QED
      BY <2>4, <3>3, IncomingCreateFresh
  <2>5. ASSUME NEW m \in wire, IncomingDelete(p, m)
        PROVE  Ordered' /\ Fresh' /\ knows \subseteq knows'
    <3>1. Alive
      BY <2>5 DEF IncomingDelete, Forget, Alive
    <3>2. m.cmd # "Delete"
      BY <1>0, <3>1 DEF Ordered
    <3> QED
      BY <2>5, <3>2 DEF IncomingDelete
  <2> QED
    BY <1>3, <2>1, <2>2, <2>3, <2>4, <2>5 DEF Other
<1>4. ASSUME NEW p \in Peer, Any(p)
      PROVE  Ordered' /\ Fresh' /\ knows \subseteq knows'
  <2>1. knows' = knows /\ Alive /\ version' = version /\ last_seen' = last_seen
    BY <1>4 DEF Any, Strike, IncomingQuery, IncomingHit, Alive
  <2>2. CASE Strike(p)
    <3>1. wire \subseteq wire'
      BY <2>2 DEF Strike
    <3>2. \A n \in wire' : n \in wire \/ FromKnown(n)
      BY <2>2 DEF Strike, HitDeltas, HitDelta, FromKnown
    <3> QED
      BY <2>1, <3>1, <3>2, KeptFresh
  <2>3. ASSUME NEW m \in wire, IncomingQuery(p, m)
        PROVE  Ordered' /\ Fresh' /\ knows \subseteq knows'
    <3>1. m.cmd = "Query" /\ p \in knows
      BY <1>0, <2>1, <2>3 DEF IncomingQuery, Ordered
    <3>2. /\ \A n \in wire' : n \in wire \/ n = Create(m.from, p)
          /\ \A n \in wire : n \in wire' \/ n = m
      BY <2>3, <3>1 DEF IncomingQuery, Receive
    <3>3. Create(m.from, p) = Create(Create(m.from, p).to, p)
      BY DEF Create
    <3>4. /\ \A n \in wire' : n \in wire \/ FromKnown(n)
          /\ \A n \in wire : n \in wire' \/ n.cmd # "Delta"
      BY <3>1, <3>2, <3>3 DEF FromKnown
    <3> QED
      BY <2>1, <3>4, KeptFresh
  <2>4. ASSUME NEW m \in wire, IncomingHit(p, m)
        PROVE  Ordered' /\ Fresh' /\ knows \subseteq knows'
    <3>1. m.cmd = "Hit" /\ p \in knows
      BY <2>4 DEF IncomingHit
    <3>2. /\ \A n \in wire' : n \in wire \/ n \in HitDeltas(p)
          /\ \A n \in wire : n \in wire' \/ n = m
      BY <2>4 DEF IncomingHit, Receive
    <3>3. \A n \in HitDeltas(p) : n.cmd = "Hit" /\ n.from \in knows
      BY <3>1 DEF HitDeltas, HitDelta
    <3>4. /\ \A n \in wire' : n \in wire \/ FromKnown(n)
          /\ \A n \in wire : n \in wire' \/ n.cmd # "Delta"
      BY <3>1, <3>2, <3>3 DEF FromKnown
    <3> QED
      BY <2>1, <3>4, KeptFresh
  <2> QED
    BY <1>4, <2>2, <2>3, <2>4 DEF Any
<1>5. ASSUME NEW m \in wire, Lose(m)
      PROVE  Ordered' /\ Fresh' /\ knows \subseteq knows'
  BY <1>0, <1>5 DEF Lose, TypeOK
<1>6. CASE UNCHANGED vars
  BY <1>0, <1>6 DEF vars, Ordered, Fresh, Alive, Awaited
<1> QED
  BY <1>1, <1>2, <1>3, <1>4, <1>5, <1>6 DEF Next

LEMMA FreshStep ==
    ASSUME MaxLosses = 0, Period + Transit <= Refresh, FreshInvariant, [Next]_vars
    PROVE  FreshInvariant' /\ \A p \in knows : p \notin knows' => ~Alive'
<1>1. TimerInvariant'
  BY TimerStep DEF FreshInvariant
<1>2. CASE Alive'
  BY <1>1, <1>2, FreshKept DEF FreshInvariant
<1>3. CASE ~Alive'
  BY <1>1, <1>3 DEF FreshInvariant, Ordered, Fresh
<1> QED
  BY <1>2, <1>3

\* If no packet is lost and what is timely adds up to no more than the refresh
\* delay, no client ever declares dead, or deletes, an avatar whose user is there
THEOREM NoFalseDeathTheorem ==
    ASSUME MaxLosses = 0, Period + Transit <= Refresh
    PROVE  Spec => NoFalseDeath
<1>1. FreshInvariant /\ [Next]_vars => FreshInvariant'
  BY FreshStep
<1>2. FreshInvariant /\ [Next]_vars => [\A p \in knows : p \notin knows' => ~Alive']_vars
  BY FreshStep
<1> QED
  BY InitFresh, <1>1, <1>2, PTL DEF Spec, NoFalseDeath
=============================================================================
