------------------------------- MODULE RtpProofs -------------------------------
(***************************************************************************)
(* Proofs about RtpSeq, for every Mod, MaxDropout and MaxMisorder of       *)
(* SeqAssumption (sequence numbers of any width), and, on top of them,     *)
(* about RtpSources, for any senders and byte orders.                      *)
(***************************************************************************)
EXTENDS RtpSources, SequenceTheorems, TLAPS
-----------------------------------------------------------------------------
(* updateSeq: module RtpSeq. *)

(***************************************************************************)
(* Remainders.                                                             *)
(***************************************************************************)
LEMMA RemainderRange ==
    ASSUME NEW n \in Int
    PROVE  n % Mod \in 0..Mod - 1
BY SeqAssumption

LEMMA RemainderExists ==
    ASSUME NEW n \in Int
    PROVE  \E q \in Int : n = (q * Mod) + (n % Mod)
<1>1. n = Mod * (n \div Mod) + (n % Mod)
  BY SeqAssumption
<1>2. PICK q \in Int : n = Mod * q + (n % Mod)
  <2>1. n \div Mod \in Int
    BY SeqAssumption
  <2> QED
    BY <1>1, <2>1
<1>3. Mod * q = q * Mod
  BY SeqAssumption
<1>4. n = (q * Mod) + (n % Mod)
  BY <1>2, <1>3
<1> QED
  BY <1>4

LEMMA RemainderUnique ==
    ASSUME NEW q \in Int, NEW r \in 0..Mod - 1
    PROVE  ((q * Mod) + r) % Mod = r
BY SeqAssumption

\* What a packet carries, d packets after one that carries Wire(t)
LEMMA WireShift ==
    ASSUME NEW t \in Int, NEW d \in Int, -Mod < d, d < Mod
    PROVE  Wire(t + d) = IF Wire(t) + d < 0 THEN Wire(t) + d + Mod
                         ELSE IF Wire(t) + d >= Mod THEN Wire(t) + d - Mod
                         ELSE Wire(t) + d
<1>1. PICK q \in Int : t = (q * Mod) + Wire(t)
  BY RemainderExists DEF Wire
<1>2. Wire(t) \in 0..Mod - 1
  BY RemainderRange DEF Wire
<1> DEFINE w == Wire(t)
<1>3. CASE w + d < 0
  <2>1. t + d = ((q - 1) * Mod) + (w + d + Mod)
    BY <1>1, <1>2, SeqAssumption
  <2>2. w + d + Mod \in 0..Mod - 1 /\ q - 1 \in Int
    BY <1>2, <1>3, SeqAssumption
  <2>3. (((q - 1) * Mod) + (w + d + Mod)) % Mod = w + d + Mod
    BY <2>2, RemainderUnique
  <2> QED
    BY <1>3, <2>1, <2>3 DEF Wire
<1>4. CASE w + d >= Mod
  <2>1. t + d = ((q + 1) * Mod) + (w + d - Mod)
    BY <1>1, <1>2, SeqAssumption
  <2>2. w + d - Mod \in 0..Mod - 1 /\ q + 1 \in Int
    BY <1>2, <1>4, SeqAssumption
  <2>3. (((q + 1) * Mod) + (w + d - Mod)) % Mod = w + d - Mod
    BY <2>2, RemainderUnique
  <2>4. ~(w + d < 0)
    BY <1>2, <1>4, SeqAssumption
  <2> QED
    BY <1>4, <2>1, <2>3, <2>4 DEF Wire
<1>5. CASE ~(w + d < 0) /\ ~(w + d >= Mod)
  <2>1. t + d = (q * Mod) + (w + d)
    BY <1>1, <1>2, SeqAssumption
  <2>2. w + d \in 0..Mod - 1
    BY <1>2, <1>5, SeqAssumption
  <2>3. ((q * Mod) + (w + d)) % Mod = w + d
    BY <2>2, RemainderUnique
  <2> QED
    BY <1>5, <2>1, <2>3 DEF Wire
<1> QED
  BY <1>3, <1>4, <1>5

LEMMA WireRange ==
    ASSUME NEW n \in Int
    PROVE  Wire(n) \in 0..Mod - 1
BY RemainderRange DEF Wire

\* The remainder of a difference of two sequence numbers
LEMMA SmallRemainder ==
    ASSUME NEW d \in Int, -Mod < d, d < Mod
    PROVE  d % Mod = IF d < 0 THEN d + Mod ELSE d
<1>1. Wire(0) = 0
  <2>1. 0 \in 0..Mod - 1 /\ 0 \in Int
    BY SeqAssumption
  <2>2. ((0 * Mod) + 0) % Mod = 0
    BY <2>1, RemainderUnique
  <2>3. (0 * Mod) + 0 = 0
    BY SeqAssumption
  <2> QED
    BY <2>2, <2>3 DEF Wire
<1>2. Wire(0 + d) = IF d < 0 THEN d + Mod ELSE d
  BY <1>1, WireShift, SeqAssumption
<1> QED
  BY <1>2 DEF Wire

-----------------------------------------------------------------------------
(***************************************************************************)
(* The source is where its invariant says: what remains to be known of it  *)
(* is that its bad_seq announces the successor of a packet just refused.   *)
(***************************************************************************)
Refused == Valid /\ recent # Unknown /\ Far(recent) => bad_seq = Wire(recent + 1)

SeqInv == TypeOK /\ Aligned /\ Refused

LEMMA TopIsNumber ==
    ASSUME TypeOK, Valid
    PROVE  Top \in Int /\ Top = cycles + max_seq + origin /\ origin \in Int
BY DEF TypeOK, Valid, Top

\* udelta is the distance between the packets, modulo one turn
LEMMA DeltaIsDistance ==
    ASSUME TypeOK, Aligned, Valid, NEW n \in Number, InReach(n)
    PROVE  /\ Delta(n) = IF n < Top THEN n - Top + Mod ELSE n - Top
           /\ n \in Int /\ Top \in Int
           /\ Wire(n) = IF max_seq + (n - Top) < 0 THEN max_seq + (n - Top) + Mod
                        ELSE IF max_seq + (n - Top) >= Mod THEN max_seq + (n - Top) - Mod
                        ELSE max_seq + (n - Top)
<1>1. Top \in Int /\ n \in Int /\ max_seq \in 0..Mod - 1 /\ Wire(Top) = max_seq
  BY TopIsNumber, SeqAssumption DEF TypeOK, Aligned, Number
<1> DEFINE d == n - Top
<1>2. d \in Int /\ -Mod < d /\ d < Mod /\ Top + d = n
  BY <1>1, SeqAssumption DEF InReach
<1>3. Wire(n) = IF max_seq + d < 0 THEN max_seq + d + Mod
                ELSE IF max_seq + d >= Mod THEN max_seq + d - Mod
                ELSE max_seq + d
  <2> HIDE DEF d
  <2>1. Wire(Top + d) = IF Wire(Top) + d < 0 THEN Wire(Top) + d + Mod
                        ELSE IF Wire(Top) + d >= Mod THEN Wire(Top) + d - Mod
                        ELSE Wire(Top) + d
    BY <1>1, <1>2, WireShift
  <2> QED
    BY <2>1, <1>1, <1>2
<1> DEFINE e == Wire(n) - max_seq
<1>4. e \in Int /\ -Mod < e /\ e < Mod
  BY <1>1, WireRange, SeqAssumption
<1>5. e = d \/ (e = d + Mod /\ d < 0) \/ (e = d - Mod /\ d >= 0)
  BY <1>1, <1>2, <1>3, SeqAssumption
<1>6. e % Mod = IF e < 0 THEN e + Mod ELSE e
  <2> HIDE DEF e
  <2> QED
    BY <1>4, SmallRemainder
<1>7. e % Mod = IF d < 0 THEN d + Mod ELSE d
  BY <1>2, <1>4, <1>5, <1>6, SeqAssumption
<1> QED
  BY <1>1, <1>3, <1>7 DEF Delta

\* The three branches of updateSeq, by true numbers
LEMMA Branches ==
    ASSUME TypeOK, Aligned, Valid, NEW n \in Number, InReach(n)
    PROVE  /\ Delta(n) < MaxDropout <=> (Top <= n /\ n < Top + MaxDropout)
           /\ Delta(n) > Mod - MaxMisorder <=> (Top - MaxMisorder < n /\ n < Top)
           /\ Jumped(n) => Far(n)
BY DeltaIsDistance, SeqAssumption DEF InReach, Jumped, Far

LEMMA InitSeqInv == Init => SeqInv
<1> SUFFICES ASSUME Init PROVE SeqInv
  OBVIOUS
<1>1. \A u \in Junk : u % Mod \in 0..Mod - 1
  BY RemainderRange, SeqAssumption
<1>2. TypeOK
  BY <1>1, SeqAssumption DEF Init, TypeOK, NoBad
<1> QED
  BY <1>2 DEF Init, SeqInv, Aligned, Refused, Valid

LEMMA TypeStep ==
    ASSUME TypeOK, NEW n \in Number,
           InSequence(n) \/ OutOfSequence(n) \/ InOrder(n)
             \/ Resync(n) \/ Suspect(n) \/ Late(n)
    PROVE  TypeOK'
<1>1. n \in Int /\ Wire(n) \in 0..Mod - 1 /\ Wire(n) \in Int
  BY WireRange, SeqAssumption DEF Number
<1>2. (Wire(n) + 1) % Mod \in Int
  BY <1>1, RemainderRange, SeqAssumption
<1> USE <1>1, <1>2, SeqAssumption DEF TypeOK, Arrived, InitSource, NoBad
<1>3. CASE InSequence(n)
  BY <1>3 DEF InSequence
<1>4. CASE OutOfSequence(n)
  BY <1>4 DEF OutOfSequence
<1>5. CASE InOrder(n)
  BY <1>5 DEF InOrder
<1>6. CASE Resync(n)
  BY <1>6 DEF Resync
<1>7. CASE Suspect(n)
  BY <1>7 DEF Suspect
<1>8. CASE Late(n)
  BY <1>8 DEF Late
<1> QED
  BY <1>3, <1>4, <1>5, <1>6, <1>7, <1>8

\* Where the source starts again, its top is the packet that came
LEMMA StartedAt ==
    ASSUME NEW n \in Number, InitSource(n)
    PROVE  Valid' /\ Top' = n /\ Wire(Top') = max_seq' /\ bad_seq' = NoBad
<1>1. n \in Int /\ Wire(n) \in Int
  BY WireRange, SeqAssumption DEF Number
<1> QED
  BY <1>1, SeqAssumption DEF InitSource, Valid, Top

\* A packet taken in order becomes the top
LEMMA TakenInOrder ==
    ASSUME TypeOK, Aligned, NEW n \in Number, InOrder(n)
    PROVE  Valid' /\ Top' = n /\ Wire(Top') = max_seq'
<1>1. n \in Int /\ Wire(n) \in 0..Mod - 1 /\ max_seq' = Wire(n) /\ InReach(n)
  BY WireRange, SeqAssumption DEF Number, InOrder, Arrived
<1>2. CASE ~Valid
  BY <1>1, <1>2, SeqAssumption DEF InOrder, Valid, Top, TypeOK
<1>3. CASE Valid
  <2>1. /\ Top = cycles + max_seq + origin /\ origin \in Int
        /\ cycles \in Nat /\ max_seq \in 0..Mod - 1
    BY <1>3, TopIsNumber DEF TypeOK
  <2>2. Top <= n /\ n < Top + MaxDropout
    BY <1>1, <1>3, Branches DEF InOrder
  <2>3. Wire(n) = IF max_seq + (n - Top) >= Mod THEN max_seq + (n - Top) - Mod
                  ELSE max_seq + (n - Top)
    BY <1>1, <1>3, <2>1, <2>2, DeltaIsDistance
  <2>4. cycles' + Wire(n) = cycles + max_seq + (n - Top)
    BY <1>1, <2>1, <2>2, <2>3, SeqAssumption DEF InOrder
  <2>5. origin' = origin /\ cycles' \in Nat
    BY <1>3, <2>1, SeqAssumption DEF InOrder
  <2> QED
    BY <1>1, <1>3, <2>1, <2>4, <2>5 DEF Valid, Top
<1> QED
  BY <1>2, <1>3

\* One packet: where the top goes
LEMMA AlignedStep ==
    ASSUME TypeOK, Aligned, NEW n \in Number,
           InSequence(n) \/ OutOfSequence(n) \/ InOrder(n)
             \/ Resync(n) \/ Suspect(n) \/ Late(n)
    PROVE  Aligned'
<1>1. CASE InSequence(n)
  <2>1. ~Valid
    BY <1>1 DEF InSequence, Aligned
  <2>2. CASE probation = 1
    BY <1>1, <2>2, StartedAt DEF InSequence, Aligned
  <2>3. CASE probation # 1
    BY <1>1, <2>1, <2>3 DEF InSequence, Aligned, Valid
  <2> QED
    BY <2>2, <2>3
<1>2. CASE OutOfSequence(n)
  BY <1>2 DEF OutOfSequence, Aligned, Valid
<1>3. CASE InOrder(n)
  BY <1>3, TakenInOrder DEF InOrder, Aligned
<1>4. CASE Resync(n)
  BY <1>4, StartedAt DEF Resync, Aligned, Jumped
<1>5. CASE Suspect(n)
  BY <1>5 DEF Suspect, Aligned, Valid, Top
<1>6. CASE Late(n)
  BY <1>6 DEF Late, Aligned, Valid, Top
<1> QED
  BY <1>1, <1>2, <1>3, <1>4, <1>5, <1>6

LEMMA RefusedStep ==
    ASSUME TypeOK, Aligned, Refused, NEW n \in Number,
           InSequence(n) \/ OutOfSequence(n) \/ InOrder(n)
             \/ Resync(n) \/ Suspect(n) \/ Late(n)
    PROVE  Refused'
<1>1. n \in Int /\ recent' = n /\ InReach(n)
  BY SeqAssumption DEF Number, Arrived, InSequence, OutOfSequence, InOrder,
        Resync, Suspect, Late
<1>2. CASE InSequence(n)
  <2>1. CASE probation = 1
    BY <1>1, <1>2, <2>1, StartedAt, SeqAssumption DEF InSequence, Refused, Far
  <2>2. CASE probation # 1
    BY <1>2, <2>2 DEF InSequence, Aligned, Refused, Valid
  <2> QED
    BY <2>1, <2>2
<1>3. CASE OutOfSequence(n)
  BY <1>3 DEF OutOfSequence, Aligned, Refused, Valid
<1>4. CASE InOrder(n)
  BY <1>1, <1>4, TakenInOrder, SeqAssumption DEF Refused, Far
<1>5. CASE Resync(n)
  BY <1>1, <1>5, StartedAt, SeqAssumption DEF Resync, Refused, Far
<1>6. CASE Suspect(n)
  <2>1. bad_seq' = (Wire(n) + 1) % Mod
    BY <1>6 DEF Suspect
  <2>2. (Wire(n) + 1) % Mod = Wire(n + 1)
    <3>1. PICK q \in Int : n = (q * Mod) + Wire(n)
      BY <1>1, RemainderExists DEF Wire
    <3>2. Wire(n) \in 0..Mod - 1
      BY <1>1, WireRange
    <3>3. CASE Wire(n) + 1 < Mod
      <4>1. n + 1 = (q * Mod) + (Wire(n) + 1) /\ Wire(n) + 1 \in 0..Mod - 1
        BY <1>1, <3>1, <3>2, <3>3, SeqAssumption
      <4>2. ((q * Mod) + (Wire(n) + 1)) % Mod = Wire(n) + 1
        BY <4>1, RemainderUnique
      <4>3. ((0 * Mod) + (Wire(n) + 1)) % Mod = Wire(n) + 1
        BY <4>1, RemainderUnique
      <4>4. (0 * Mod) + (Wire(n) + 1) = Wire(n) + 1
        BY <3>2, SeqAssumption
      <4>5. Wire(n + 1) = (n + 1) % Mod
        BY DEF Wire
      <4> QED
        BY <4>1, <4>2, <4>3, <4>4, <4>5
    <3>4. CASE Wire(n) + 1 = Mod
      <4>1. /\ n + 1 = ((q + 1) * Mod) + 0 /\ 0 \in 0..Mod - 1
            /\ q + 1 \in Int /\ 1 \in Int
        BY <1>1, <3>1, <3>2, <3>4, SeqAssumption
      <4>2. (((q + 1) * Mod) + 0) % Mod = 0
        BY <4>1, RemainderUnique
      <4>3. ((1 * Mod) + 0) % Mod = 0
        BY <4>1, RemainderUnique
      <4>4. (1 * Mod) + 0 = Wire(n) + 1
        BY <3>4, SeqAssumption
      <4>5. Wire(n + 1) = (n + 1) % Mod
        BY DEF Wire
      <4> QED
        BY <4>1, <4>2, <4>3, <4>4, <4>5
    <3> QED
      BY <3>2, <3>3, <3>4, SeqAssumption
  <2> QED
    BY <1>1, <2>1, <2>2 DEF Refused
<1>7. CASE Late(n)
  <2>1. CASE ~Valid
    BY <1>7, <2>1 DEF Late, Refused, Valid
  <2>2. CASE Valid
    <3>1. Top - MaxMisorder < n /\ n < Top /\ Top \in Int
      BY <1>1, <1>7, <2>2, Branches, TopIsNumber DEF Late
    <3>2. Top' = Top
      BY <1>7 DEF Late, Top, Valid
    <3>3. ~Far(recent)'
      BY <1>1, <3>1, <3>2, SeqAssumption DEF Far
    <3> QED
      BY <3>3 DEF Refused
  <2> QED
    BY <2>1, <2>2
<1> QED
  BY <1>2, <1>3, <1>4, <1>5, <1>6, <1>7

LEMMA StepSeqInv == SeqInv /\ [Next]_vars => SeqInv'
<1> SUFFICES ASSUME SeqInv, [Next]_vars PROVE SeqInv'
  OBVIOUS
<1>1. CASE Next
  <2>1. PICK n \in Number : InSequence(n) \/ OutOfSequence(n) \/ InOrder(n)
                              \/ Resync(n) \/ Suspect(n) \/ Late(n)
    BY <1>1 DEF Next, UpdateSeq
  <2> QED
    BY <2>1, TypeStep, AlignedStep, RefusedStep DEF SeqInv
<1>2. CASE UNCHANGED vars
  BY <1>2 DEF vars, SeqInv, TypeOK, Aligned, Refused, Valid, Top, Far
<1> QED
  BY <1>1, <1>2

\* The invariant of a source: its state is well formed, its highest sequence
\* number is that of its top (Rtp::updateSeq).
THEOREM SequenceCorrect == Spec => [](TypeOK /\ Aligned)
<1>1. SeqInv => TypeOK /\ Aligned
  BY DEF SeqInv
<1> QED
  BY <1>1, InitSeqInv, StepSeqInv, PTL DEF Spec

-----------------------------------------------------------------------------
LEMMA RefinedStep ==
    ASSUME SeqInv, NEW n \in Number,
           InSequence(n) \/ OutOfSequence(n) \/ InOrder(n)
             \/ Resync(n) \/ Suspect(n) \/ Late(n)
    PROVE  Extended!Next
<1> USE DEF SeqInv
<1>1. n \in Int /\ InReach(n) /\ Wire(n) \in 0..Mod - 1
  BY WireRange, SeqAssumption DEF Number, Arrived, InSequence, OutOfSequence,
        InOrder, Resync, Suspect, Late
<1>2. Valid => Top \in Int
  BY TopIsNumber
<1>3. Valid <=> Top # Unknown
  BY <1>2, SeqAssumption DEF Valid, Top
<1>4. CASE InSequence(n)
  <2>1. ~Valid
    BY <1>4 DEF InSequence, Aligned
  <2>2. CASE probation = 1
    <3>1. Top' = n
      BY <1>4, <2>2, StartedAt DEF InSequence
    <3>2. Extended!Begin(n)
      BY <1>3, <2>1, <3>1 DEF Extended!Begin
    <3> QED
      BY <3>2 DEF Extended!Next
  <2>3. CASE probation # 1
    <3>1. Top' = Top
      BY <1>4, <2>1, <2>3 DEF InSequence, Top, Valid
    <3>2. Extended!Wait
      BY <1>3, <2>1, <3>1 DEF Extended!Wait
    <3> QED
      BY <3>2 DEF Extended!Next
  <2> QED
    BY <2>2, <2>3
<1>5. CASE OutOfSequence(n)
  <2>1. ~Valid /\ ~Valid'
    BY <1>5 DEF OutOfSequence, Aligned, Valid
  <2>2. Extended!Wait
    BY <1>3, <2>1 DEF Extended!Wait, Top
  <2> QED
    BY <2>2 DEF Extended!Next
<1>6. CASE InOrder(n)
  <2>1. Top' = n /\ bad_seq' = bad_seq
    BY <1>6, TakenInOrder DEF InOrder
  <2>2. CASE ~Valid
    <3>1. Extended!Begin(n)
      BY <1>3, <2>1, <2>2 DEF Extended!Begin
    <3> QED
      BY <3>1 DEF Extended!Next
  <2>3. CASE Valid
    <3>1. Top <= n /\ n < Top + MaxDropout
      BY <1>1, <1>6, <2>3, Branches DEF InOrder
    <3>2. Extended!Close(n)
      BY <1>1, <1>2, <2>3, <3>1, SeqAssumption DEF Extended!Close
    <3>3. Top' = IF n > Top THEN n ELSE Top
      BY <1>1, <1>2, <2>1, <2>3, <3>1
    <3>4. Extended!Take(n)
      BY <1>3, <2>1, <2>3, <3>2, <3>3 DEF Extended!Take
    <3> QED
      BY <3>4 DEF Extended!Next
  <2> QED
    BY <2>2, <2>3
<1>7. CASE Resync(n)
  <2>1. Top' = n /\ bad_seq' = NoBad
    BY <1>7, StartedAt DEF Resync
  <2>2. bad_seq # NoBad
    BY <1>1, <1>7, SeqAssumption DEF Resync, NoBad
  <2>3. NoBad' = NoBad
    BY DEF NoBad
  <2>4. CASE ~Valid
    <3>1. Extended!Begin(n)
      BY <1>3, <2>1, <2>4 DEF Extended!Begin
    <3> QED
      BY <3>1 DEF Extended!Next
  <2>5. CASE Valid
    <3>1. Far(n)
      BY <1>1, <1>7, <2>5, Branches DEF Resync
    <3>2. ~Extended!Close(n)
      BY <3>1 DEF Far, Extended!Close
    <3>3. Extended!Restart(n)
      BY <1>3, <2>1, <2>2, <2>3, <2>5, <3>2 DEF Extended!Restart
    <3> QED
      BY <3>3 DEF Extended!Next
  <2> QED
    BY <2>4, <2>5
<1>8. CASE Suspect(n)
  <2>1. Top' = Top
    BY <1>8 DEF Suspect, Top, Valid
  <2>2. bad_seq' # NoBad
    <3>1. (Wire(n) + 1) % Mod \in 0..Mod - 1
      BY <1>1, RemainderRange, SeqAssumption
    <3> QED
      BY <1>8, <3>1, SeqAssumption DEF Suspect, NoBad
  <2>3. CASE ~Valid
    <3>1. Extended!Wait
      BY <1>3, <2>1, <2>3 DEF Extended!Wait
    <3> QED
      BY <3>1 DEF Extended!Next
  <2>4. CASE Valid
    <3>1. Far(n)
      BY <1>1, <1>8, <2>4, Branches DEF Suspect
    <3>2. ~Extended!Close(n)
      BY <3>1 DEF Far, Extended!Close
    <3>3. Extended!Suspect(n)
      BY <1>3, <2>1, <2>2, <2>4, <3>2 DEF Extended!Suspect, NoBad
    <3> QED
      BY <3>3 DEF Extended!Next
  <2> QED
    BY <2>3, <2>4
<1>9. CASE Late(n)
  <2>1. Top' = Top /\ bad_seq' = bad_seq
    BY <1>9 DEF Late, Top, Valid
  <2>2. CASE ~Valid
    <3>1. Extended!Wait
      BY <1>3, <2>1, <2>2 DEF Extended!Wait
    <3> QED
      BY <3>1 DEF Extended!Next
  <2>3. CASE Valid
    <3>1. Top - MaxMisorder < n /\ n < Top
      BY <1>1, <1>9, <2>3, Branches DEF Late
    <3>2. Extended!Close(n) /\ ~(n > Top)
      BY <1>1, <1>2, <2>3, <3>1, SeqAssumption DEF Extended!Close
    <3>3. Extended!Take(n)
      BY <1>3, <2>1, <2>3, <3>2 DEF Extended!Take, NoBad
    <3> QED
      BY <3>3 DEF Extended!Next
  <2> QED
    BY <2>2, <2>3
<1> QED
  BY <1>4, <1>5, <1>6, <1>7, <1>8, <1>9

(***************************************************************************)
(* updateSeq follows the true numbers of the packets (RtpExtended), for    *)
(* sequence numbers of any width and any two thresholds that together do   *)
(* not exceed it.                                                          *)
(***************************************************************************)
THEOREM FollowsTrueNumbers == Spec => FollowsTrueNumber
<1>1. Init => Extended!Init
  BY DEF Init, Extended!Init, Top, Valid
<1>2. SeqInv /\ [Next]_vars => [Extended!Next]_(Extended!vars)
  <2> SUFFICES ASSUME SeqInv, [Next]_vars
               PROVE  [Extended!Next]_(Extended!vars)
    OBVIOUS
  <2>1. CASE Next
    <3>1. PICK n \in Number : InSequence(n) \/ OutOfSequence(n) \/ InOrder(n)
                                \/ Resync(n) \/ Suspect(n) \/ Late(n)
      BY <2>1 DEF Next, UpdateSeq
    <3> QED
      BY <3>1, RefinedStep
  <2>2. CASE UNCHANGED vars
    BY <2>2 DEF vars, Extended!vars, Top, Valid, NoBad
  <2> QED
    BY <2>1, <2>2
<1> QED
  BY <1>1, <1>2, InitSeqInv, StepSeqInv, PTL DEF Spec, FollowsTrueNumber, Extended!Spec

\* The second packet in a row too far from the top
LEMMA RestartStep ==
    ASSUME SeqInv, Next, Valid, recent # Unknown,
           Far(recent), recent' = recent + 1, Far(recent')
    PROVE  Top' = recent'
<1>1. PICK n \in Number : InSequence(n) \/ OutOfSequence(n) \/ InOrder(n)
                            \/ Resync(n) \/ Suspect(n) \/ Late(n)
  BY DEF Next, UpdateSeq
<1>2. recent' = n /\ InReach(n)
  BY <1>1 DEF Arrived, InSequence, OutOfSequence, InOrder, Resync, Suspect, Late
<1>3. bad_seq = Wire(n)
  BY <1>2 DEF SeqInv, Refused
<1>4. CASE Resync(n)
  BY <1>2, <1>4, StartedAt DEF Resync
<1>5. CASE InOrder(n)
  BY <1>2, <1>5, TakenInOrder DEF SeqInv
<1>6. ~InSequence(n) /\ ~OutOfSequence(n)
  BY DEF SeqInv, Aligned, InSequence, OutOfSequence
<1>7. ~Suspect(n)
  BY <1>3 DEF Suspect
<1>8. ~Late(n)
  <2>1. CASE Late(n)
    <3>1. Top - MaxMisorder < n /\ n < Top /\ Top \in Int /\ n \in Int
      BY <1>2, <2>1, Branches, TopIsNumber, SeqAssumption DEF Late, SeqInv, Number
    <3>2. ~Far(n)
      BY <3>1, SeqAssumption DEF Far
    <3>3. Far(n)
      BY <1>2
    <3> QED
      BY <3>2, <3>3
  <2> QED
    BY <2>1
<1> QED
  BY <1>1, <1>4, <1>5, <1>6, <1>7, <1>8

\* A sender that restarted is followed from its second packet on, or at once
\* (Rtp::updateSeq, "just re-sync").
THEOREM RestartsFollowed == Spec => RestartFollowed
<1>1. SeqInv /\ [Next]_vars
        => [ (/\ Valid /\ recent # Unknown
              /\ Far(recent) /\ recent' = recent + 1 /\ Far(recent'))
             => Top' = recent' ]_vars
  BY RestartStep DEF Next, vars
<1> QED
  BY <1>1, InitSeqInv, StepSeqInv, PTL DEF Spec, RestartFollowed
-----------------------------------------------------------------------------
(* The list of sources: module RtpSources. *)

Name == Sender \cup {Me} \cup {Raw[p] : p \in Sender}

(***************************************************************************)
(* getSource and deleteSourceBySsrc can keep at most one source: a source  *)
(* that is not found replaces the list the walk has just gone through.     *)
(***************************************************************************)
Single(s) ==
    /\ s.list \in Seq(Name) /\ Len(s.list) <= 1
    /\ s.counter \in Nat /\ Len(s.list) <= s.counter

LEMMA AtMostOne ==
    ASSUME NEW s, Single(s)
    PROVE  s.list = <<>> \/ (DOMAIN s.list = {1} /\ Len(s.list) = 1 /\ s.counter > 0)
<1>1. Len(s.list) \in Nat /\ DOMAIN s.list = 1..Len(s.list)
  BY DEF Single
<1>2. CASE Len(s.list) = 0
  BY <1>2, EmptySeq DEF Single
<1>3. CASE Len(s.list) = 1
  BY <1>1, <1>3 DEF Single
<1>4. Len(s.list) = 0 \/ Len(s.list) = 1
  <2> DEFINE l == Len(s.list)
  <2>1. l \in Nat /\ l <= 1
    BY <1>1 DEF Single
  <2> HIDE DEF l
  <2>2. l = 0 \/ l = 1
    BY <2>1
  <2> QED
    BY <2>2 DEF l
<1> QED
  BY <1>2, <1>3, <1>4

LEMMA SingleWalked ==
    ASSUME NEW s, Single(s)
    PROVE  /\ Walked(s) = Listed(s)
           /\ \A i, j \in DOMAIN s.list : s.list[i] = s.list[j] => i = j
<1>1. \A j \in DOMAIN s.list : j <= s.counter
  BY AtMostOne DEF Single
<1>2. {j \in DOMAIN s.list : j <= s.counter} = DOMAIN s.list
  BY <1>1
<1>3. \A i, j \in DOMAIN s.list : i = j
  BY AtMostOne
<1> QED
  BY <1>2, <1>3 DEF Walked, Listed

LEMMA GotSingle ==
    ASSUME NEW s, Single(s), NEW name \in Name
    PROVE  /\ Single(Got(s, name))
           /\ name \in Listed(s) => Got(s, name) = s
<1>1. name \in Listed(s) => Got(s, name) = s
  BY SingleWalked DEF Got
<1>2. Got(s, name) = s \/ Got(s, name) = [list |-> <<name>>, counter |-> s.counter + 1]
  BY DEF Got, Single
<1>3. Single([list |-> <<name>>, counter |-> s.counter + 1])
  BY DEF Single
<1> QED
  BY <1>1, <1>2, <1>3

LEMMA DeletedSingle ==
    ASSUME NEW s, Single(s), NEW name
    PROVE  Single(Deleted(s, name))
<1>1. CASE name \notin Walked(s)
  BY <1>1 DEF Deleted
<1>2. CASE name \in Walked(s)
  <2>1. DOMAIN s.list = {1} /\ Len(s.list) = 1 /\ s.counter > 0 /\ s.list[1] = name
    BY <1>2, AtMostOne DEF Walked
  <2> DEFINE First(i) == s.list[i] = name /\ \A j \in 1..i - 1 : s.list[j] # name
             k == CHOOSE i \in DOMAIN s.list : First(i)
  <2>2. First(1)
    BY <2>1
  <2>3. k = 1
    <3> HIDE DEF First
    <3> QED
      BY <2>1, <2>2
  <2> HIDE DEF k
  <2>4. SubSeq(s.list, 1, k - 1) = <<>> /\ SubSeq(s.list, k + 1, Len(s.list)) = <<>>
    <3>1. SubSeq(s.list, 1, 0) = <<>>
      BY SubSeqEmpty
    <3>2. SubSeq(s.list, 2, 1) = <<>>
      BY SubSeqEmpty
    <3> QED
      BY <2>1, <2>3, <3>1, <3>2
  <2>5. <<>> \o <<>> = <<>>
    OBVIOUS
  <2>6. Deleted(s, name)
          = [list |-> SubSeq(s.list, 1, k - 1) \o SubSeq(s.list, k + 1, Len(s.list)),
             counter |-> s.counter - 1]
    BY <1>2 DEF Deleted, k
  <2>7. Deleted(s, name) = [list |-> <<>>, counter |-> s.counter - 1]
    BY <2>4, <2>5, <2>6
  <2>8. Single([list |-> <<>>, counter |-> s.counter - 1])
    BY <2>1 DEF Single
  <2> QED
    BY <2>7, <2>8
<1> QED
  BY <1>1, <1>2

LEMMA RejoinedSingle ==
    ASSUME NEW s, Single(s)
    PROVE  Single([list |-> <<Me>>, counter |-> Deleted(s, Me).counter + 1])
<1>1. Deleted(s, Me).counter \in Nat
  BY DeletedSingle DEF Single
<1>2. Me \in Name
  BY DEF Name
<1> QED
  BY <1>1, <1>2 DEF Single
-----------------------------------------------------------------------------
(***************************************************************************)
(* The inductive invariant: the source of RtpSeq's invariant, listed when  *)
(* it is valid, in a list of at most one.                                  *)
(***************************************************************************)
SourcesInv ==
    /\ SeqInv
    /\ Single(src)

LEMMA InitSources == SourcesInit => SourcesInv
<1> SUFFICES ASSUME SourcesInit PROVE SourcesInv
  OBVIOUS
<1>1. Single([list |-> <<Me>>, counter |-> 1])
  BY DEF Single, Name
<1> QED
  BY <1>1, InitSeqInv DEF SourcesInit, SourcesInv

\* The sources become s, whatever s is
LEMMA BecomeStep ==
    ASSUME SeqInv, NEW s, Become(s)
    PROVE  /\ SeqInv' /\ src' = s
           /\ IF Dropped(src') THEN Top' = Unknown
              ELSE UNCHANGED <<Top, bad_seq>>
<1>1. src' = s
  BY DEF Become
<1>2. CASE Dropped(s)
  <2>1. Freed /\ UNCHANGED <<recent, came>>
    BY <1>2 DEF Become
  <2>2. ~Valid' /\ Top' = Unknown
    BY <2>1 DEF Freed, Valid, Top
  <2>3. \A u \in Junk : u % Mod \in 0..Mod - 1
    BY RemainderRange, SeqAssumption
  <2>4. TypeOK'
    BY <2>1, <2>3, SeqAssumption DEF Freed, SeqInv, TypeOK
  <2> QED
    BY <1>1, <1>2, <2>2, <2>4 DEF SeqInv, Aligned, Refused
<1>3. CASE ~Dropped(s)
  <2>1. UNCHANGED vars
    BY <1>3 DEF Become, state, vars
  <2>2. SeqInv'
    BY <2>1, StepSeqInv
  <2> QED
    BY <1>1, <1>3, <2>1, <2>2 DEF vars, Top, Valid
<1> QED
  BY <1>2, <1>3

\* A packet of the observed sender
LEMMA PacketStep ==
    ASSUME SourcesInv, NEW n \in Number, RtpPacket(n)
    PROVE  SourcesInv' /\ ~Dropped(src') /\ Extended!Next
<1>1. UpdateSeq(n) /\ src' = Got(src, Observed)
  BY DEF RtpPacket
<1>2. SeqInv'
  <2>1. Next
    BY <1>1 DEF Next
  <2> QED
    BY <2>1, StepSeqInv DEF SourcesInv
<1>3. Observed \in Name
  <2>1. Observed \in Sender
    BY SourcesAssumption
  <2> QED
    BY <2>1 DEF Name
<1>4. Single(src')
  BY <1>1, <1>3, GotSingle DEF SourcesInv
<1>5. ~Dropped(src')
  BY <1>1, <1>3, GotSingle DEF SourcesInv, Dropped
<1>6. Extended!Next
  BY <1>1, RefinedStep DEF SourcesInv, UpdateSeq
<1> QED
  BY <1>2, <1>4, <1>5, <1>6 DEF SourcesInv

\* Any other step
LEMMA OtherStep ==
    ASSUME SourcesInv,
           Rejoin \/ \E p \in Sender : OtherPacket(p) \/ Announce(p) \/ Bye(p)
    PROVE  /\ SourcesInv'
           /\ IF Dropped(src') THEN Top' = Unknown
              ELSE UNCHANGED <<Top, bad_seq>>
           /\ UNCHANGED <<recent, came>>
<1>1. \E s : Single(s) /\ Become(s)
  <2>1. CASE Rejoin
    BY <2>1, RejoinedSingle DEF Rejoin, SourcesInv
  <2>2. ASSUME NEW p \in Sender, OtherPacket(p)
        PROVE  \E s : Single(s) /\ Become(s)
    BY <2>2, GotSingle DEF OtherPacket, SourcesInv, Name
  <2>3. ASSUME NEW p \in Sender, Announce(p)
        PROVE  \E s : Single(s) /\ Become(s)
    <3>1. p \in Name /\ Raw[p] \in Name
      BY DEF Name
    <3>2. Single(Got(src, p))
      BY <3>1, GotSingle DEF SourcesInv
    <3>3. Single(Got(Got(src, p), Raw[p]))
      BY <3>1, <3>2, GotSingle
    <3> QED
      BY <2>3, <3>3 DEF Announce
  <2>4. ASSUME NEW p \in Sender, Bye(p)
        PROVE  \E s : Single(s) /\ Become(s)
    BY <2>4, DeletedSingle DEF Bye, SourcesInv
  <2> QED
    BY <2>1, <2>2, <2>3, <2>4
<1>2. PICK s : Single(s) /\ Become(s)
  BY <1>1
<1>3. UNCHANGED <<recent, came>>
  BY <1>2 DEF Become
<1> QED
  BY <1>2, <1>3, BecomeStep DEF SourcesInv

LEMMA StutterStep ==
    ASSUME SourcesInv, UNCHANGED allvars
    PROVE  SourcesInv' /\ UNCHANGED <<Top, bad_seq, recent>>
<1>1. UNCHANGED vars /\ src' = src
  BY DEF allvars
<1>2. SeqInv'
  BY <1>1, StepSeqInv DEF SourcesInv
<1> QED
  BY <1>1, <1>2 DEF SourcesInv, vars, Top, Valid

LEMMA StepSources == SourcesInv /\ [SourcesNext]_allvars => SourcesInv'
BY PacketStep, OtherStep, StutterStep DEF SourcesNext

\* The walks of getSource and deleteSourceBySsrc see every source and no sender
\* is listed twice (Source::getSource, Session::deleteSourceBySsrc); the source
\* itself keeps its types.
THEOREM SourcesWalked == SourcesSpec => [](TypeOK /\ WalksReachAll)
<1>1. SourcesInv => TypeOK /\ WalksReachAll
  BY SingleWalked DEF SourcesInv, SeqInv, WalksReachAll
<1> QED
  BY <1>1, InitSources, StepSources, PTL DEF SourcesSpec

(***************************************************************************)
(* As long as the sender's source is listed its true numbers are followed, *)
(* and nothing of it survives when it is replaced (Rtp::updateSeq,         *)
(* Source::getSource).                                                     *)
(***************************************************************************)
THEOREM SourcesFollow == SourcesSpec => FollowsWhileListed
<1>1. SourcesInit => Extended!Init
  BY DEF SourcesInit, Init, Extended!Init, Top, Valid
<1>2. SourcesInv /\ [SourcesNext]_allvars
        => [IF Dropped(src') THEN Top' = Unknown ELSE Extended!Next]_(Extended!vars)
  <2> SUFFICES ASSUME SourcesInv, [SourcesNext]_allvars
               PROVE  [IF Dropped(src') THEN Top' = Unknown
                       ELSE Extended!Next]_(Extended!vars)
    OBVIOUS
  <2>1. ASSUME NEW n \in Number, RtpPacket(n)
        PROVE  ~Dropped(src') /\ Extended!Next
    BY <2>1, PacketStep
  <2>2. CASE Rejoin \/ \E p \in Sender : OtherPacket(p) \/ Announce(p) \/ Bye(p)
    BY <2>2, OtherStep DEF Extended!vars
  <2>3. CASE UNCHANGED allvars
    BY <2>3, StutterStep DEF Extended!vars
  <2> QED
    BY <2>1, <2>2, <2>3 DEF SourcesNext
<1> QED
  BY <1>1, <1>2, InitSources, StepSources, PTL DEF SourcesSpec, FollowsWhileListed

\* A sender that restarted is followed from its second packet on (Rtp::updateSeq,
\* "just re-sync"), whatever became of other sources.
THEOREM SourcesRestart == SourcesSpec => RestartFollowed
<1>1. SourcesInv /\ [SourcesNext]_allvars
        => [ (/\ Valid /\ recent # Unknown
              /\ Far(recent) /\ recent' = recent + 1 /\ Far(recent'))
             => Top' = recent' ]_vars
  <2> SUFFICES ASSUME SourcesInv, [SourcesNext]_allvars, ~UNCHANGED vars,
                      Valid, recent # Unknown, Far(recent), recent' = recent + 1,
                      Far(recent')
               PROVE  Top' = recent'
    OBVIOUS
  <2>1. recent' # recent
    BY SeqAssumption DEF SourcesInv, SeqInv, TypeOK
  <2>2. PICK n \in Number : RtpPacket(n)
    BY <2>1, OtherStep DEF SourcesNext, allvars
  <2>3. Next
    BY <2>2 DEF RtpPacket, Next
  <2> QED
    BY <2>3, RestartStep DEF SourcesInv
<1> QED
  BY <1>1, InitSources, StepSources, PTL DEF SourcesSpec, RestartFollowed
=============================================================================
