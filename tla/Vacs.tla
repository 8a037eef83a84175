-------------------------------- MODULE Vacs --------------------------------
(***************************************************************************)
(* The address server of the worlds (src/src/servers/vacs/vacs.cpp): it    *)
(* answers one request after the other, keeps the channels of the worlds   *)
(* in a list and appends new ones to a file, from which it starts again.   *)
(* A world is its name and its universe: urls that agree on both are one.  *)
(***************************************************************************)
EXTENDS Integers, FiniteSets, SequencesExt

CONSTANTS
    World, Manager,
    Qualified,          \* worlds of http urls; the others are not recorded
    Version, VRE_VERSION,
    Directory,          \* versions v whose directory exists
    NoFile,             \* vacs_file before the first list request
    Addresses, Ports,   \* width of a byte of an address, of a port (uint16_t)
    VRENG_MPORT_INCR,
    MaxRecords,         \* bound: well-known worlds in the file
    MaxStarts           \* bound: how often the server is started again

ASSUME VacsAssumption ==
    /\ Manager \in Qualified /\ Qualified \subseteq World
    /\ VRE_VERSION \in Directory /\ Directory \subseteq Version /\ NoFile \notin Version
    /\ Addresses \in Nat \ {0} /\ Ports \in Nat \ {0} /\ VRENG_MPORT_INCR \in Nat
    /\ MaxRecords \in Nat /\ MaxStarts \in Nat

VARIABLES
    file,               \* v<version>/worlds
    vacsList,
    next,               \* next_maddr, next_mport
    vacs_file,          \* the version whose file addCache appends to
    starts,
    unsaved             \* worlds addCache could not append since the start

vars == <<file, vacsList, next, vacs_file, starts, unsaved>>

Channel == [maddr : 0..(Addresses - 1), mport : 0..(Ports - 1)]
Record  == [world : World, channel : Channel]

Rec(w, c) == [world |-> w, channel |-> c]

\* Mutant: next_mport is no uint16_t
AfterWide(c) == [maddr |-> (c.maddr + 1) % Addresses, mport |-> c.mport + VRENG_MPORT_INCR]

\* One more in the last byte of the address, whose carry is lost: maddr + htonl(1)
After(c) == [maddr |-> (c.maddr + 1) % Addresses,
             mport |-> (c.mport + VRENG_MPORT_INCR) % Ports]

\* The channels the server gives, from VRENG_MADDR_BASE and VRENG_MPORT_BASE on
Nth(n) == [maddr |-> n % Addresses, mport |-> (n * VRENG_MPORT_INCR) % Ports]

\* The world's record in the list
Of(w) == {i \in DOMAIN vacsList : vacsList[i].world = w}
-----------------------------------------------------------------------------
(* loadCache *)

Loaded(s) == <<Rec(Manager, Nth(0))>> \o s

\* Mutant: the next values of the first record only
NextOfFirst(s) == After(Head(s).channel)

\* The next values are those of the last record
NextOf(s) == After(Last(s).channel)

\* The file of well-known worlds, edited by hand: in the order of their channels
Init ==
    /\ \E n \in 0..MaxRecords : \E ws \in [1..n -> Qualified \ {Manager}] :
          /\ IsInjective(ws)
          /\ file = [v \in Version |->
                IF v = VRE_VERSION THEN [i \in 1..n |-> Rec(ws[i], Nth(i))] ELSE <<>>]
    /\ vacsList = Loaded(file[VRE_VERSION]) /\ next = NextOf(vacsList)
    /\ vacs_file = NoFile /\ starts = 0 /\ unsaved = {}

\* The server is killed, and started again
Restart ==
    /\ starts < MaxStarts /\ starts' = starts + 1
    /\ vacsList' = Loaded(file[VRE_VERSION]) /\ next' = NextOf(vacsList')
    /\ vacs_file' = NoFile /\ unsaved' = {}
    /\ UNCHANGED file
-----------------------------------------------------------------------------
(* parseRequest *)

\* list, with a version: sendCache leaves the list alone
List(v) ==
    /\ vacs_file' = v
    /\ UNCHANGED <<file, vacsList, next, starts, unsaved>>

\* resolve: resolveCache finds nothing
Unknown(w) == Of(w) = {}

\* Mutant: the record is written after the next values have been computed
WrittenLate(w) == Rec(w, After(next))

\* vacs->channel
Written(w) == Rec(w, next)

Listed(w) == vacsList' = Append(vacsList, Rec(w, next))

\* addCache
Add(w) ==
    /\ Unknown(w)
    /\ w \in Qualified /\ vacs_file \in Directory
    /\ Listed(w)
    /\ file' = [file EXCEPT ![vacs_file] = Append(@, Written(w))]
    /\ next' = After(next)
    /\ UNCHANGED <<vacs_file, starts, unsaved>>

\* addCache of a world that is not qualified
AddLocal(w) ==
    /\ Unknown(w) /\ w \notin Qualified
    /\ Listed(w)
    /\ next' = After(next)
    /\ UNCHANGED <<file, vacs_file, starts, unsaved>>

\* addCache returns when it cannot open the file, before the next values
AddUnsaved(w) ==
    /\ Unknown(w)
    /\ w \in Qualified /\ vacs_file \notin Directory
    /\ Listed(w)
    /\ unsaved' = unsaved \cup {w}
    /\ UNCHANGED <<file, next, vacs_file, starts>>

Next ==
    \/ Restart
    \/ \E v \in Version : List(v)
    \/ \E w \in World : Add(w) \/ AddLocal(w) \/ AddUnsaved(w)

Spec == Init /\ [][Next]_vars
-----------------------------------------------------------------------------
TypeOK ==
    /\ file \in [Version -> Seq(Record)]
    /\ vacsList \in Seq(Record) /\ next \in Channel
    /\ vacs_file \in Version \cup {NoFile}
    /\ starts \in 0..MaxStarts /\ unsaved \subseteq World

(***************************************************************************)
(* Two worlds have one channel only when the first of them could not be    *)
(* appended to the file: addCache then returns before the next values, and *)
(* the next world gets the channel again.  Restarts, files of other        *)
(* versions and worlds that are never recorded do no such harm (addCache,  *)
(* loadCache).                                                             *)
(***************************************************************************)
ChannelsDistinct ==
    \A i, j \in DOMAIN vacsList :
        i < j /\ vacsList[i].channel = vacsList[j].channel => vacsList[i].world \in unsaved

\* The server comes to no channel twice, from its first start on
Enough ==
    /\ IsFiniteSet(World)
    /\ \A m, n \in 0..((MaxStarts + 1) * Cardinality(World)) : Nth(m) = Nth(n) => m = n

\* The channel resolveCache answers
ChannelOf(w) == vacsList[CHOOSE i \in Of(w) : \A j \in Of(w) : i <= j].channel

Recorded(w) == \E i \in DOMAIN file[VRE_VERSION] : file[VRE_VERSION][i].world = w

(***************************************************************************)
(* Clients that ask for a world are sent to the channel of those who asked *)
(* before, whatever else is asked in between and, if the world is in the   *)
(* file the server starts from, whenever the server is killed              *)
(* (resolveCache, addCache, loadCache).                                    *)
(***************************************************************************)
ChannelKept ==
    [][\A w \in World : Of(w) # {} /\ (starts' = starts \/ Recorded(w))
          => Of(w)' # {} /\ ChannelOf(w)' = ChannelOf(w)]_vars
=============================================================================
