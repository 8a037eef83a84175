-------------------------------- MODULE Worlds --------------------------------
(***************************************************************************)
(* The worlds a client has visited (src/src/wo/world.cpp), a doubly linked *)
(* list whose head is the current world, composed with the current channel *)
(* (src/src/net/channel.cpp), as gates, the location bar, the home button, *)
(* the sandbox and the back and forward buttons work on both.              *)
(*                                                                         *)
(* The list is modelled pointer by pointer.  Worlds are numbered in the    *)
(* order they are created (num).                                           *)
(***************************************************************************)
EXTENDS Naturals, FiniteSetsExt

CONSTANTS
    Url,            \* urls of worlds
    Home,           \* Universe::url
    Channel,        \* channels: group and port, the ttl left out
    InitialChannel, \* the channel the client starts on (pref.channel)
    DefaultChannel, \* DEF_VRE_CHANNEL
    LoopMax,        \* walks of the list give up after so many steps (100)
    NoWorld, NoUrl, NoChannel,      \* null pointers
    NoSession,      \* a Channel whose creation failed
    MaxWorlds,      \* bound: worlds created
    MaxTrips,       \* bound: moves of the user from world to world
    MaxFailures     \* bound: channels that cannot be created

ASSUME WorldsAssumption ==
    /\ Home \in Url /\ InitialChannel \in Channel /\ DefaultChannel \in Channel
    /\ LoopMax \in Nat /\ MaxWorlds \in Nat \ {0} /\ LoopMax > MaxWorlds
    /\ MaxTrips \in Nat /\ MaxFailures \in Nat
    /\ NoChannel \notin Channel /\ NoSession \notin Channel
    /\ NoWorld \notin Nat /\ NoUrl \notin Url

World == 1..MaxWorlds

VARIABLES
    worldList,      \* head of the list: the current world
    next, prev, url, chan, islinked, state,     \* fields of the worlds
    worldcnt,       \* worlds created
    channel,        \* the current channel
    trips, failures,
    astray          \* history: World::swap has worked on a broken list

list == <<worldList, next, prev, worldcnt, astray>>
vars == <<worldList, next, prev, url, chan, islinked, state, worldcnt, channel,
          trips, failures, astray>>
-----------------------------------------------------------------------------
(* Walks of the list. *)

\* w->next
After(w) == IF w = NoWorld THEN NoWorld ELSE next[w]

\* The world k steps after w
Walk(w) ==
    LET walk[k \in 0..LoopMax] == IF k = 0 THEN w ELSE After(walk[k - 1])
    IN  walk

Listed == {Walk(worldList)[k] : k \in 0..LoopMax} \ {NoWorld}

\* The first world of the list with this url, or the first without any, whose null
\* pointer is read then
WorldByUrl(u) ==
    LET walk == Walk(worldList)
        at == {k \in 0..LoopMax : walk[k] # NoWorld /\ url[walk[k]] \in {u, NoUrl}}
    IN  IF at = {} THEN NoWorld ELSE walk[Min(at)]

\* goBack's walk: the world it stops at, the last one or one that follows itself
LastFrom(w) ==
    LET walk == Walk(w)
    IN  walk[Min({k \in 0..LoopMax :
                    \/ k = LoopMax
                    \/ walk[k] # NoWorld /\ next[walk[k]] \in {NoWorld, walk[k]}})]

\* goForward's walk: the world before the last one
LastButOne ==
    LET walk == Walk(worldList)
    IN  walk[Min({k \in 0..LoopMax :
                    \/ k = LoopMax
                    \/ /\ walk[k] # NoWorld /\ next[walk[k]] # NoWorld
                       /\ next[next[walk[k]]] = NoWorld})]

\* prev mirrors next
Doubly == \A v \in Listed : next[v] # NoWorld => prev[next[v]] = v

\* a->field = b
Set(f, a, b) == [f EXCEPT ![a] = b]
-----------------------------------------------------------------------------
Init ==
    /\ worldList = 1 /\ worldcnt = 1
    /\ next = [w \in World |-> NoWorld]
    /\ prev = [w \in World |-> NoWorld]
    /\ url = [w \in World |-> IF w = 1 THEN Home ELSE NoUrl]
    /\ chan = [w \in World |-> IF w = 1 THEN InitialChannel ELSE NoChannel]
    /\ islinked = [w \in World |-> FALSE]
    /\ state = [w \in World |-> IF w = 1 THEN "LOADED" ELSE "STOPPED"]
    /\ channel = InitialChannel
    /\ trips = 0 /\ failures = 0
    /\ astray = FALSE
-----------------------------------------------------------------------------
Trip == trips < MaxTrips /\ trips' = trips + 1

\* What may fail: a socket of the channel.  A world that cannot be downloaded ends
\* the program (httpReader).
Outcome(joined) ==
    IF joined THEN UNCHANGED failures
              ELSE failures < MaxFailures /\ failures' = failures + 1

\* Mutant: a world left goes on
LeftRunning(w) == Set(state, w, "LOADED")

\* World::quit, then the end of World::enter
Left(w) == [state EXCEPT ![worldList] = "STOPPED", ![w] = "LOADED"]

\* Channel::join, after the old channel was deleted
Joined(c, joined) ==
    IF c = NoChannel THEN NoChannel ELSE IF joined THEN c ELSE NoSession

\* World::swap: exchange the current world and w, eight assignments
Swap(w) ==
    LET n1 == IF prev[w] = NoWorld THEN next ELSE Set(next, prev[w], worldList)
        p2 == IF n1[w] = NoWorld THEN prev ELSE Set(prev, n1[w], worldList)
        p3 == IF n1[worldList] = NoWorld THEN p2 ELSE Set(p2, n1[worldList], w)
        p4 == Set(p3, worldList, p3[w])
        n6 == Set(Set(n1, worldList, n1[w]), w, n1[worldList])
        p7 == Set(p4, w, NoWorld)
    IN  IF w = worldList
        THEN UNCHANGED <<next, prev>>
        ELSE next' = n6 /\ prev' = p7

\* World::enter of a world in memory
EnterKnown(u) ==
    /\ u # NoUrl /\ WorldByUrl(u) # NoWorld /\ url[WorldByUrl(u)] = u
    /\ worldList' = WorldByUrl(u)
    /\ Swap(WorldByUrl(u))
    /\ astray' = (astray \/ ~Doubly)
    /\ state' = Left(WorldByUrl(u))
    /\ UNCHANGED <<url, worldcnt>>

\* World::World, addToList
Add(u) ==
    /\ WorldByUrl(u) = NoWorld /\ worldcnt < MaxWorlds
    /\ worldcnt' = worldcnt + 1
    /\ worldList' = worldcnt + 1
    /\ next' = Set(next, worldcnt + 1, worldList)
    /\ prev' = Set(prev, worldList, worldcnt + 1)
    /\ url' = Set(url, worldcnt + 1, u)
    /\ UNCHANGED astray

\* World::enter of a world visited for the first time
EnterNew(u) ==
    /\ u # NoUrl /\ Add(u)
    /\ state' = Left(worldcnt + 1)

\* World::enter of a url that does not print, as a gate without one has: "bad world".
\* The world made for it is the current one, without url, and state 0 is LOADING.
EnterBad(u) ==
    /\ u = NoUrl /\ Add(NoUrl)
    /\ state' = Set(Left(worldcnt + 1), worldcnt + 1, "LOADING")

\* The channels a gate may have for url u: its own or the default.  (Vac never sets
\* connected: its cache stays empty and no url is resolved.)
GateChannels(u) == IF u = Home THEN {InitialChannel} ELSE Channel

\* Gate::enter with a channel: only a new world gets the gate's
Gate(u, c, joined) ==
    /\ Trip /\ Outcome(joined)
    /\ \/ (EnterKnown(u) \/ EnterBad(u)) /\ UNCHANGED chan
       \/ EnterNew(u) /\ chan' = Set(chan, worldcnt + 1, c)
    /\ channel' = Joined(c, joined)
    /\ UNCHANGED islinked

\* Gui::gotoWorld of a url, and homeCB: setChanAndJoin
Goto(u, c, joined) ==
    /\ Trip /\ Outcome(joined)
    /\ EnterKnown(u) \/ EnterNew(u)
    /\ chan' = Set(chan, worldList', c)
    /\ channel' = Joined(c, joined)
    /\ UNCHANGED islinked

\* Gate::enter of a link: the channel stays
Link(u) ==
    /\ Trip
    /\ EnterKnown(u) \/ EnterNew(u) \/ EnterBad(u)
    /\ islinked' = Set(islinked, worldList', TRUE)
    /\ UNCHANGED <<chan, channel, failures>>

\* sandboxCB: the sandbox takes the place of the current world
Sandbox ==
    /\ Trip
    /\ state' = Left(worldList)
    /\ channel' = NoChannel
    /\ UNCHANGED <<list, url, chan, islinked, failures>>

\* Mutant: a linked world gets the current channel, which may be none
CallCurrent(w, joined) ==
    /\ Outcome(joined)
    /\ state' = Left(w)
    /\ IF islinked[worldList]
       THEN chan' = Set(chan, w, channel) /\ UNCHANGED channel
       ELSE channel' = Joined(chan[w], joined) /\ UNCHANGED chan
    /\ UNCHANGED <<url, islinked, worldcnt, astray>>

\* World::call on w, coming from the current world; one without url is a sandbox now
Call(w, joined) ==
    /\ Outcome(joined)
    /\ state' = Left(w)
    /\ IF islinked[worldList]
       THEN /\ chan' = IF chan[worldList] = NoChannel THEN chan
                       ELSE Set(chan, w, chan[worldList])
            /\ UNCHANGED channel
       ELSE /\ channel' = Joined(chan[w], joined)
            /\ UNCHANGED chan
    /\ UNCHANGED <<url, islinked, worldcnt, astray>>

\* Mutant: the world left is put second
GoBackToSecond(joined) ==
    /\ Trip /\ next[worldList] # NoWorld
    /\ LET worldback == next[worldList]
       IN  /\ next' = Set(Set(next, worldback, worldList), worldList, NoWorld)
           /\ prev' = Set(Set(prev, worldback, NoWorld), worldList, worldback)
           /\ worldList' = worldback
           /\ Call(worldback, joined)

\* World::goBack: the current world goes to the end of the list
GoBack(joined) ==
    /\ Trip /\ next[worldList] # NoWorld
    /\ LET worldback == next[worldList]
       IN  /\ next' = Set(Set(next, LastFrom(worldback), worldList), worldList, NoWorld)
           /\ prev' = Set(Set(prev, worldback, NoWorld), worldList, worldback)
           /\ worldList' = worldback
           /\ Call(worldback, joined)

\* World::goForward: the end of the list comes in front
GoForward(joined) ==
    /\ Trip /\ next[worldList] # NoWorld
    /\ LET worldforw == next[LastButOne]
       IN  /\ next' = Set(Set(next, worldforw, worldList), LastButOne, NoWorld)
           /\ prev' = Set(Set(prev, worldforw, NoWorld), worldList, worldforw)
           /\ worldList' = worldforw
           /\ Call(worldforw, joined)

\* World::compute, on a world that is LOADED
Compute ==
    /\ state[worldList] = "LOADED"
    /\ state' = Set(state, worldList, "SIMULATION")
    /\ UNCHANGED <<list, url, chan, islinked, channel, trips, failures>>

Next ==
    \/ \E joined \in BOOLEAN :
          \/ \E u \in Url \cup {NoUrl} : \E c \in GateChannels(u) : Gate(u, c, joined)
          \/ \E u \in Url : Goto(u, DefaultChannel, joined)
          \/ Goto(Home, InitialChannel, joined)
          \/ GoBack(joined)
          \/ GoForward(joined)
    \/ \E u \in Url \cup {NoUrl} : Link(u)
    \/ Sandbox
    \/ Compute

Spec == Init /\ [][Next]_vars
-----------------------------------------------------------------------------
\* Fields and pointers stay in range, on broken lists too.
TypeOK ==
    /\ worldcnt \in World /\ worldList \in 1..worldcnt
    /\ next \in [World -> World \cup {NoWorld}]
    /\ prev \in [World -> World \cup {NoWorld}]
    /\ url \in [World -> Url \cup {NoUrl}]
    /\ chan \in [World -> Channel \cup {NoChannel}]
    /\ islinked \in [World -> BOOLEAN]
    /\ state \in [World -> {"STOPPED", "LOADING", "LOADED", "SIMULATION"}]
    /\ channel \in Channel \cup {NoChannel, NoSession}
    /\ trips \in 0..MaxTrips /\ failures \in 0..MaxFailures
    /\ astray \in BOOLEAN

(***************************************************************************)
(* Back, forward, new worlds and exchanges keep every world visited, in    *)
(* the order of module Trail, whatever downloads and channels fail on the  *)
(* way (World::goBack, goForward, addToList, swap), until an exchange uses *)
(* prev pointers that goBack, or an exchange of two neighbours, has left   *)
(* behind and that do not mirror the next ones.                            *)
(***************************************************************************)
Trail == INSTANCE Trail WITH
    Visitable <- World,
    trail <- [k \in 1..Cardinality(Listed) |-> Walk(worldList)[k - 1]]
WorldsKept == Trail!Spec

\* A world that is not the current one is stopped (World::quit before every
\* World::enter), so that compute never simulates a world left behind.
OnlyCurrentRuns == \A w \in World : w # worldList => state[w] = "STOPPED"

\* world.cpp:973 "check whether this world is already in memory": each world
\* created once is found again by its url
VisitedFound == \A w \in 1..worldcnt : WorldByUrl(url[w]) # NoWorld
=============================================================================
