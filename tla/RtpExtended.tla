----------------------------- MODULE RtpExtended -----------------------------
(***************************************************************************)
(* What the sequence number tracking of an RTP source promises, said of    *)
(* the packets' true numbers, which never wrap: top is the number of the   *)
(* most recent packet.  A packet close enough to top is taken, and top     *)
(* never falls for it; one too far off is only suspected, until a second   *)
(* one makes the source start again from there.                            *)
(***************************************************************************)
EXTENDS Integers

CONSTANTS
    Number,         \* numbers of packets
    MaxDropout,     \* packets that may be missing in a row
    MaxMisorder,    \* how late a packet may be
    Unknown         \* the top of a source that is not valid yet

VARIABLES
    top,            \* number of the most recent packet
    doubt           \* a packet too far off was seen since the source started

vars == <<top, doubt>>

Close(n) == top - MaxMisorder < n /\ n < top + MaxDropout

Init == top = Unknown /\ doubt \in BOOLEAN

\* The source becomes valid
Begin(n) ==
    /\ top = Unknown /\ top' = n
    /\ doubt' \in BOOLEAN

\* The source is not valid yet
Wait ==
    /\ top = Unknown /\ UNCHANGED top
    /\ doubt' \in BOOLEAN

Take(n) ==
    /\ top # Unknown /\ Close(n)
    /\ top' = IF n > top THEN n ELSE top
    /\ UNCHANGED doubt

Suspect(n) ==
    /\ top # Unknown /\ ~Close(n)
    /\ doubt' = TRUE
    /\ UNCHANGED top

Restart(n) ==
    /\ top # Unknown /\ ~Close(n) /\ doubt
    /\ top' = n
    /\ doubt' = FALSE

Next ==
    \/ Wait
    \/ \E n \in Number : Begin(n) \/ Take(n) \/ Suspect(n) \/ Restart(n)

Spec == Init /\ [][Next]_vars
=============================================================================
