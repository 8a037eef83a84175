------------------------------ MODULE RtpSources ------------------------------
(***************************************************************************)
(* The sources of a client's session (src/src/net/source.cpp, session.cpp) *)
(* as RTP and RTCP packets of several senders come, composed with RtpSeq   *)
(* for the source of one of them: getSource keeps a single source, and a   *)
(* sender is known by two names, its ssrc and what a host of the other     *)
(* byte order reads from its SDES and BYE packets.                         *)
(***************************************************************************)
EXTENDS RtpSeq, Sequences

CONSTANTS
    Sender,         \* ssrcs of the other clients
    Observed,       \* the sender whose sequence numbers are followed
    Raw,            \* Raw[p]: ntohl of p's ssrc, which SDES and BYE carry raw
    Me,             \* the client's own ssrc
    MaxSources      \* bound of sourcesCounter, below its wrap at 1 << 16

ASSUME SourcesAssumption ==
    /\ Observed \in Sender /\ Me \notin Sender
    /\ DOMAIN Raw = Sender
    /\ MaxSources \in 1..(2^16 - 1)

\* src.list: ssrcs of session->source and its successors; src.counter:
\* sourcesCounter, to which nbsources is set whenever it changes
VARIABLE src

state == <<max_seq, cycles, base_seq, bad_seq, probation, received, origin>>
allvars == <<vars, src>>

Listed(s) == {s.list[i] : i \in DOMAIN s.list}

\* What the walks of getSource and deleteSourceBySsrc see of the list
Walked(s) == {s.list[i] : i \in {j \in DOMAIN s.list : j <= s.counter}}

\* getSource: a source that is not found takes the place of the list, or of
\* all that the walk did not see of it
Got(s, name) ==
    LET kept == IF s.counter = 0 THEN 1 ELSE s.counter
    IN  IF s.list = <<>> \/ name \in Walked(s) THEN s
        ELSE [list |-> IF Len(s.list) <= s.counter THEN <<name>>
                       ELSE Append(SubSeq(s.list, 1, kept), name),
              counter |-> s.counter + 1]

\* Mutant: the counter is decremented whether the source is found or not
DeletedAnyway(s, name) ==
    [list |-> SelectSeq(s.list, LAMBDA t : t # name), counter |-> s.counter - 1]

\* deleteSourceBySsrc
Deleted(s, name) ==
    IF name \notin Walked(s) THEN s
    ELSE LET k == CHOOSE i \in DOMAIN s.list :
                    s.list[i] = name /\ \A j \in 1..i - 1 : s.list[j] # name
         IN  [list |-> SubSeq(s.list, 1, k - 1) \o SubSeq(s.list, k + 1, Len(s.list)),
              counter |-> s.counter - 1]
-----------------------------------------------------------------------------
\* Session::create: the list holds one's own source
SourcesInit == Init /\ src = [list |-> <<Me>>, counter |-> 1]

\* The memory the observed sender's next Source will find
Freed ==
    /\ max_seq' \in {u % Mod : u \in Junk}
    /\ cycles' \in Junk /\ base_seq' \in Junk /\ received' \in Junk
    /\ bad_seq' \in Junk /\ probation' \in Junk
    /\ origin' = Unknown

Dropped(s) == Observed \in Listed(src) /\ Observed \notin Listed(s)

\* The sources become s
Become(s) ==
    /\ s.counter <= MaxSources
    /\ src' = s
    /\ IF Dropped(s) THEN Freed ELSE UNCHANGED state
    /\ UNCHANGED <<recent, came>>

\* recvPayload of an RTP packet: of the observed sender, of another one
RtpPacket(n) ==
    /\ src.list # <<>>
    /\ Got(src, Observed).counter <= MaxSources
    /\ src' = Got(src, Observed)
    /\ UpdateSeq(n)

OtherPacket(p) == p # Observed /\ Become(Got(src, p))

\* recvRTCPPacket of sendSRSDES's packet, and of a BYE
Announce(p) == Become(Got(Got(src, p), Raw[p]))
Bye(p) == Become(Deleted(src, Raw[p]))

\* ~Session and Session::create: the client changes worlds
Rejoin == Become([list |-> <<Me>>, counter |-> Deleted(src, Me).counter + 1])

SourcesNext ==
    \/ \E n \in Number : RtpPacket(n)
    \/ \E p \in Sender : OtherPacket(p) \/ Announce(p) \/ Bye(p)
    \/ Rejoin

SourcesSpec == SourcesInit /\ [][SourcesNext]_allvars
-----------------------------------------------------------------------------
(***************************************************************************)
(* Until it wraps, sourcesCounter never falls below the length of the list *)
(* (though a source that is replaced stays counted and a BYE names another *)
(* source than RTP packets do): the walks that stop after so many sources  *)
(* see the whole list, and no sender is listed twice.                      *)
(***************************************************************************)
WalksReachAll ==
    /\ Walked(src) = Listed(src)
    /\ \A i, j \in DOMAIN src.list : src.list[i] = src.list[j] => i = j

(***************************************************************************)
(* While a sender's source is listed, updateSeq follows the true number of *)
(* its packets (RtpExtended); when getSource replaces it, nothing is left  *)
(* of it, and the next packet starts a source anew.                        *)
(***************************************************************************)
FollowsWhileListed ==
    /\ Extended!Init
    /\ [][IF Dropped(src') THEN Top' = Unknown ELSE Extended!Next]_(Extended!vars)
=============================================================================
