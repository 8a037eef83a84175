-------------------------------- MODULE RtpSeq --------------------------------
(***************************************************************************)
(* The sequence numbers of one RTP source, as a client follows them        *)
(* (Rtp::initSource, Rtp::updateSeq, src/src/net/rtp.cpp).  n is the true  *)
(* number of a packet, of which the packet carries n % Mod.                *)
(*                                                                         *)
(* Packets are lost, repeated, late, and their sender may start again from *)
(* any number (Session::create keeps the ssrc of a world visited before,   *)
(* but draws rtp_seq anew): all that is asked of a packet is that its true *)
(* number lies within one turn of the numbers around the most recent one.  *)
(***************************************************************************)
EXTENDS Integers

CONSTANTS
    Mod,            \* RTP_SEQ_MOD, 1 << 16
    MaxDropout,     \* 3000
    MaxMisorder,    \* 100
    MinSequential,  \* 2
    Junk,           \* what uninitialised memory may hold in a uint32_t
    Last,           \* bound: the largest true number
    Packets,        \* bound: how many packets come
    Unknown         \* no number

ASSUME SeqAssumption ==
    /\ Mod \in Nat /\ MaxDropout \in Nat /\ MaxMisorder \in Nat
    /\ MaxDropout > 0 /\ MaxMisorder > 0 /\ MaxDropout + MaxMisorder <= Mod
    /\ MinSequential \in Nat /\ MinSequential > 0
    /\ Junk \subseteq Nat /\ Last \in Nat /\ Packets \in Nat /\ Unknown \notin Int

VARIABLES
    max_seq,        \* highest sequence number seen
    cycles,         \* shifted count of sequence number cycles
    base_seq, bad_seq, probation, received,
    origin,         \* true number of the packet numbered 0 when cycles = 0
    recent,         \* true number of the packet that came last
    came            \* how many packets came

vars == <<max_seq, cycles, base_seq, bad_seq, probation, received, origin,
          recent, came>>

Number == 0..Last
Wire(n) == n % Mod

\* bad_seq when there is no bad sequence number
NoBad == Mod + 1
-----------------------------------------------------------------------------
(* The most recent packet, according to the source. *)

Valid == origin # Unknown
Top   == IF Valid THEN cycles + max_seq + origin ELSE Unknown

\* The packets that may come
InReach(n) ==
    Valid => Top - (Mod - MaxDropout) <= n /\ n <= Top + (Mod - MaxMisorder)

\* udelta
Delta(n) == (Wire(n) - max_seq) % Mod

\* Mutant: the packet still to come, as in RFC 1889's own callers of init_seq
InitSourceBefore(n) ==
    /\ base_seq' = Wire(n) - 1
    /\ max_seq' = Wire(n) - 1
    /\ bad_seq' = NoBad
    /\ cycles' = 0
    /\ origin' = n - Wire(n)

\* initSource: the source starts at packet n
InitSource(n) ==
    /\ base_seq' = Wire(n) - 1
    /\ max_seq' = Wire(n)
    /\ bad_seq' = NoBad
    /\ cycles' = 0
    /\ origin' = n - Wire(n)

(***************************************************************************)
(* A Source does not initialise its sourceInfos: every field holds what    *)
(* the memory held.                                                        *)
(***************************************************************************)
Init ==
    /\ max_seq \in {u % Mod : u \in Junk}
    /\ cycles \in Junk /\ base_seq \in Junk /\ received \in Junk
    /\ bad_seq \in Junk
    /\ probation \in Junk
    /\ origin = Unknown /\ recent = Unknown
    /\ came = 0
-----------------------------------------------------------------------------
(* updateSeq, branch by branch. *)

Arrived(n) ==
    /\ InReach(n)
    /\ came < Packets /\ came' = came + 1
    /\ recent' = n

\* On probation and in sequence: the int max_seq + 1 does not wrap
InSequence(n) ==
    /\ Arrived(n)
    /\ probation > 0 /\ Wire(n) = max_seq + 1
    /\ probation' = probation - 1
    /\ IF probation = 1
       THEN InitSource(n) /\ received' = 1
       ELSE /\ max_seq' = Wire(n)
            /\ UNCHANGED <<cycles, base_seq, bad_seq, received, origin>>

OutOfSequence(n) ==
    /\ Arrived(n)
    /\ probation > 0 /\ Wire(n) # max_seq + 1
    /\ probation' = MinSequential - 1
    /\ max_seq' = Wire(n)
    /\ UNCHANGED <<cycles, base_seq, bad_seq, received, origin>>

\* Mutant: the cycle is counted one packet late
InOrderLate(n) ==
    /\ Arrived(n)
    /\ probation = 0 /\ Delta(n) < MaxDropout
    /\ cycles' = IF Wire(n) < max_seq /\ Wire(n) # 0 THEN cycles + Mod ELSE cycles
    /\ max_seq' = Wire(n)
    /\ origin' = IF Valid THEN origin ELSE n - (cycles' + max_seq')
    /\ received' = received + 1
    /\ UNCHANGED <<base_seq, bad_seq, probation>>

\* In order, with permissible gap
InOrder(n) ==
    /\ Arrived(n)
    /\ probation = 0 /\ Delta(n) < MaxDropout
    /\ cycles' = IF Wire(n) < max_seq THEN cycles + Mod ELSE cycles
    /\ max_seq' = Wire(n)
    /\ origin' = IF Valid THEN origin ELSE n - (cycles' + max_seq')
    /\ received' = received + 1
    /\ UNCHANGED <<base_seq, bad_seq, probation>>

\* A very large jump
Jumped(n) == probation = 0 /\ MaxDropout <= Delta(n) /\ Delta(n) <= Mod - MaxMisorder

\* The second such packet in a row: the other side restarted
Resync(n) ==
    /\ Arrived(n)
    /\ Jumped(n) /\ Wire(n) = bad_seq
    /\ InitSource(n)
    /\ received' = 1
    /\ UNCHANGED probation

\* Mutant: the mask forgotten
SuspectUnmasked(n) ==
    /\ Arrived(n)
    /\ Jumped(n) /\ Wire(n) # bad_seq
    /\ bad_seq' = Wire(n) + 1
    /\ UNCHANGED <<max_seq, cycles, base_seq, probation, received, origin>>

Suspect(n) ==
    /\ Arrived(n)
    /\ Jumped(n) /\ Wire(n) # bad_seq
    /\ bad_seq' = (Wire(n) + 1) % Mod
    /\ UNCHANGED <<max_seq, cycles, base_seq, probation, received, origin>>

\* Duplicate or reordered packet
Late(n) ==
    /\ Arrived(n)
    /\ probation = 0 /\ Delta(n) > Mod - MaxMisorder
    /\ received' = received + 1
    /\ UNCHANGED <<max_seq, cycles, base_seq, bad_seq, probation, origin>>

UpdateSeq(n) ==
    \/ InSequence(n)
    \/ OutOfSequence(n)
    \/ InOrder(n)
    \/ Resync(n)
    \/ Suspect(n)
    \/ Late(n)

Next == \E n \in Number : UpdateSeq(n)

Spec == Init /\ [][Next]_vars
-----------------------------------------------------------------------------
\* The state updateSeq keeps: a sequence number is 16 bits wide.
TypeOK ==
    /\ max_seq \in 0..Mod - 1
    /\ cycles \in Nat /\ probation \in Nat /\ received \in Nat
    /\ base_seq \in Int /\ bad_seq \in Int
    /\ origin \in Int \cup {Unknown} /\ recent \in Int \cup {Unknown}
    /\ came \in 0..Packets

\* A valid source's highest sequence number is that of the packet it takes for
\* the most recent one (Rtp::updateSeq, across wraps and restarts).
Aligned == Valid => Wire(Top) = max_seq /\ probation = 0

(***************************************************************************)
(* Whatever is lost, repeated or reordered, cycles + max_seq follows the   *)
(* true number of the most recent packet, is never moved by one stray      *)
(* packet, and is moved by a second one only after a first (the promise of *)
(* updateSeq, module RtpExtended).                                         *)
(***************************************************************************)
Extended == INSTANCE RtpExtended WITH top <- Top, doubt <- bad_seq # NoBad
FollowsTrueNumber == Extended!Spec

(***************************************************************************)
(* Two sequential packets beyond any permissible gap, or too late to be    *)
(* misordered, are enough to follow a sender that restarted                *)
(* (Rtp::updateSeq, "just re-sync").                                       *)
(***************************************************************************)
Far(n) == ~(Top - MaxMisorder < n /\ n < Top + MaxDropout)

RestartFollowed ==
    [][ (/\ Valid /\ recent # Unknown
         /\ Far(recent) /\ recent' = recent + 1 /\ Far(recent'))
        => Top' = recent' ]_vars
=============================================================================
