# VREng: formal models of the replication protocol

VREng is a distributed virtual-world client: every user runs one client process
(`src/src/`), and the clients of a world keep its objects alike by a protocol of their
own, VREP, over RTP on an IP multicast group. There is no server for the state of a
world and no acknowledgement: lost packets are made up for by heart-beats and time-outs,
and conflicts between clients by random version numbers. That protocol is the program's
own core logic and the core of this project. Around it stand what a client does to get
from world to world: the list of worlds and the channel, the RTP sources, the server
that gives worlds their channels, downloads and their cache, the texts users write. The
modules are TLA+, checked with TLC on small instances; what matters most is proved with
TLAPS for every number of clients, objects and versions.

## 1. Inventory

| part | code | state | operations | interacts with |
|---|---|---|---|---|
| VREP replication | `net/netobj`, `netprop`, `noid`, `payload`, `event`, `vrep.hpp` | `netobjectList`: objects with a `Noid`, a kind (permanent, volatile, replica) and per property `responsible`, `version`, `last_seen`, `assume_at`; `filterQuery`'s static name and counter | `declareObjCreation`, `declareObjDelta`, `declareDeletion`; `incomingDelta/Create/Query/Delete`; `NetTimeout` | called by the objects of the world and by the channel; calls the objects' `get_*`/`put_*` methods |
| World and moving objects | `wo/world`, `wobject`, `move`, `user`, `ball`, `bullet`, `dart`, `door`, `lift`, ... | world list, object lists, `deleteList`, `localuser`, positions | `World::enter`, `quit`, `swap`, `toDelete`, `deleteObjects`; `userMovement`, `imposedMovement`, `whenIntersect`, `updateToNetwork` | publishes through VREP; joins and leaves channels |
| Channels and RTP sessions | `net/channel`, `session`, `source`, `rtp`, `sap` | sockets, list of sessions, sources per ssrc and their count, sequence numbers | `join`, `quit`, `getSource`, `deleteSourceBySsrc`, RTCP reports, `updateSeq` | carries VREP packets |
| Channel resolution | `net/vac`, `servers/vacs`, `servers/vaps` | the server's list of worlds and channels, its file, the next channel | `list`, `resolve`, `release`, `size`; `connectVac`, `getList`, `resolveWorldUrl` | to be asked by a gate; the client's side never does |
| HTTP downloads, cache | `vreng/http`, `cache`, `socket` | threads, `nbsimcon`, waiting list, `htbuf`, cached files | `httpOpen`, `connection`, `getChar`, `openCache` | world files, models, textures |
| Persistence, application bridge | `wo/mysql`, `wo/vjc` | external | blocking calls | objects |
| World description parser | `wo/parse`, `wo/xml` | parser state | one pass over a file | creates the permanent objects |
| Start-up, timers, preferences | `vreng/` | options | - | starts the timers |
| User interface | `gui/` | - | event loop, socket callback, timers | the loop every step below is one turn of |
| Tools and vendored libraries | `app/`, `texture/`, `vnc/`, ... | - | - | not part of the replication |

A client is one process whose event loop runs, one after the other, the socket
callback (`NetIncoming`: one packet, one handler), the half-second timer
(`NetTimeout`) and the frame (which moves the objects and calls
`updateToNetwork`). So within a client each handler is atomic; what is hard in the
protocol is between clients. Threads of a client are those of GIF downloads
(`Downloads`), and a few that no module has (section 6).

**What is hard.** Packets are lost, duplicated and reordered; a client crashes, or
leaves and comes back under a new name while others still list its former avatar;
clients conclude that an object is dead while its heart-beats are late; two
clients assume the responsibility for one object at once; versions are 16-bit
numbers that wrap, and so are RTP's sequence numbers; several static variables and
flags are shared by objects that do not know of each other; lists of worlds, sources
and objects are linked by hand and walked up to a count kept elsewhere; a download or
the append of a record fails half-way, or the process is killed and finds on disk
what it left. `PROJECT.json` lists each of these hazards at its line
with the properties that would show it going wrong, or says why none does.

**What makes each part correct.**
- VREP: the local user is never lost; a volatile object has one responsible
  client, its creator; versions never go back nor run ahead of it; users who stay
  end up with the last changes the others declared; objects of clients that are gone
  disappear; a permanent object that has changed keeps exactly one responsible
  client.
- World: a world visited stays known; a world left is stopped; whoever writes shows one
  text.
- Channels: a source's packets are followed by their true numbers as long as it is
  listed; walks of the list reach all of it.
- Resolution: a world keeps its channel, and no two have the same one.
- Downloads: every reader is called once, every request ends, no place among the
  connections is lost, what is read is the beginning of the document, and what is
  cached is all of it.

## 2. Modules

| module | what it is |
|---|---|
| `VrepVersion` | the arithmetic of versions: `Distance` (the `int16_t d` of `incomingDelta`), `Newer`, `Outdated`, `Bump`, `Jump` |
| `Vrep` | the protocol: all clients and the network; one action per operation, handler and timer |
| `VrepSafety` | type invariant, safety invariants, action properties, the inductive invariant |
| `VrepLive` | fairness and liveness properties |
| `VrepTimer` | the dates of one avatar's properties in discrete time: heart-beats, assume delays, assumed deaths; its properties |
| `RtpSeq`, `RtpExtended` | `updateSeq` for one source; what it promises, said of numbers that never wrap |
| `RtpSources` | the list of sources of a session, composed with `RtpSeq` for one of them |
| `Worlds`, `Trail` | the list of worlds pointer by pointer, with the channel; the trail of visited worlds it implements |
| `Scene` | texts, the pointers to them, deferred deletion |
| `Downloads` | connections, the shared buffer, the cache, kills |
| `Vacs` | the address server |
| `MCVrep`, `MCVrepTimer`, `MCRtpSources`, `MCWorlds`, `MCScene`, `MCDownloads`, `MCVacs` | the small instances for TLC |
| `VrepProofs` | type correctness |
| `VrepOwnershipProofs` | who is responsible for volatile objects; permanent objects in a world without older clients |
| `VrepVersionProofs` | the order of versions, `NoRegress`, `YieldsToNewer`; whose versions come first, `NeverAhead` |
| `VrepTimerProofs` | all properties of `VrepTimer` |
| `RtpProofs` | types, both refinements of `RtpExtended`, restarts, the walks of the list |
| `VacsProofs` | types, `ChannelKept`, `ChannelsDistinct` |
| `DownloadsProofs` | the four invariants of `Downloads` |
| `WorldsProofs` | the two invariants of `Worlds`, and that it implements `Trail` |

`VrepSafety` EXTENDS `Vrep` EXTENDS `VrepVersion`; `VrepLive`
extends `VrepSafety`. `VrepVersionProofs` extends `VrepOwnershipProofs`, which extends
`VrepProofs`, which extends `VrepSafety`; every other proof module extends the module
it is about. `VrepTimer` stands beside `Vrep`: it looks at one object of it, with
the dates `Vrep` leaves out. `RtpSources` EXTENDS
`RtpSeq`, which instantiates `RtpExtended`; `Worlds` instantiates `Trail`. `Scene`,
`Downloads` and `Vacs` stand alone: no state is shared with the others but through
files and the network.

### State

| variable | code |
|---|---|
| `here`, `me[p]` | the client has joined the world's channel; `localuser` |
| `listed[p]` | `NetObject::netobjectList` |
| `responsible[p][o][k]`, `version[p][o][k]` | `NetProperty::responsible`, `version` |
| `value[p][o][k]` | what the property's `put_` method would send: position, angle, message, ... |
| `struck[p]` | the users of p whose `User::hit` is set |
| `asked[p]` | `oldnoid` and `countDelta` of `Noid::filterQuery` |
| `named` | the names already given (`getObjId`, ssrc and port make a `Noid` unique) |
| `net` | packets under way, each addressed to one client (a multicast is one per member) |
| `acts`, `faults` | counters of the bounds below |

An object not listed has its properties at their defaults: the code frees them.
Objects are of four kinds by how they are announced: avatars (no `Create` is sent
on entry, only Deltas), balls (volatile, never announced by a `Create` from their
creator, only by Deltas), shots (bullets and darts: `declareObjCreation`), and
permanent objects (named by the world's file, listed by everybody from the start).

### Actions

| action | code |
|---|---|
| `Enter`, `Quit` | `World::enter`, `World::quit` with the channel |
| `Throw`, `Discard`, `Strike` | creation and deletion of balls and shots, `User::whenIntersect` |
| `Move` | `userMovement`, `imposedMovement`, with what `updateToNetwork` declares |
| `MoveLocally` | what it does not: moves of an object p is not responsible for; of the local user in z by less than `DELTAZ` at a time (user.cpp:479), in roll and pitch (never declared), by a lift, a guide, a bumper or a Vrelet (lift.cpp:106, guide.cpp:237, vrelet.cpp:249) |
| `DeltaUnknown`, `DeltaOutdated`, `DeltaNewer`, `DeltaConflict`, `DeltaRecall` | the branches of `incomingDelta`, `filterQuery` included |
| `IncomingCreate`, `IncomingQuery`, `IncomingDelete` | the other handlers |
| `NetTimeout` | the whole scan: heart-beats, assumed deaths, assumed responsibilities |
| `Crash`, `Lose`, second disjunct of `Receive` | crash, loss, duplication |
| `ForeignDelta` | a client of an older VREP version, whose packets `recvPayload` and `NetIncoming` still read |

**Abstractions.** Dates are abstracted: `NetTimeout` takes any set `late` of
overdue properties. This is what the code may do when packets are slow or the
process was suspended; a client may thus declare dead an object that lives. A
property's value is a model value, which `Move` and `MoveLocally` change: one version
may therefore stand for several values (section 4), so the properties are about versions
and the instances have one value.
The encoding of a packet is a record, with one
exception: `NameOnWire`, because the name that leaves a client in a Query or a
unicast Delete depends on the calling convention (section 4). A multicast never
comes back to its sender (`recvPayload` drops packets of the own host with
`NEEDLOOPBACK` 0; hence also one client per host). RTP headers, statistics,
sounds and traces are left out.

### Time (`VrepTimer`)

One avatar, its creator, the replicas at the others. `last_seen` and `assume_at` are the
fields of `NetProperty`, `now` is what `gettimeofday` returns, `scanned[p]` the date of
p's last `NetTimeout`, `died` the date the creator left, and each packet carries the
date it was sent. `ResetDates` draws the assume delay as `resetDates` does, between 2
and 5 refresh delays, for each property by itself. `Tick` lets time pass as long as no
timer (`Period`) and no packet (`Transit`) is overdue; every other step takes no time.
Whoever lists the avatar, a ghost of it included, answers a Query with a Create
(`IncomingQuery`), and may strike it (`Strike`: a Delta on a property that `NetTimeout`
does not scan, which makes those who do not know the avatar ask for it, and the creator
or another striker answer, `IncomingHit`). A Delta on an unknown object sends a Query to
whom the Delta came from. `ScanOwn` and `ScanReplica` are `NetTimeout` at the creator
and elsewhere (`GivesUp` is the branch that returns in the middle of the scan); `Move`,
`DeltaKnown`, `DeltaUnknown`, `IncomingCreate`, `IncomingDelete`, `Quit`, `Crash` and
`Lose` are those of `Vrep` for this object. `stirred` is history, the date of the last
strike. Values are left out, versions grow without wrapping (their order is
`VrepVersion`'s matter), and whether `filterQuery` swallows a Delta is left open.
Clients need no common clock: only dates of one client are compared by the actions.
`Refreshed` compares the numbers of properties as the scan goes through them in order.

### Sources and sequence numbers (`RtpSeq`, `RtpSources`)

The variables of `RtpSeq` are `sourceInfos`, the fields of a `Source` that start as
uninitialised memory (`Junk`); `origin` and `recent` are history: the true number of
the packet the count of cycles starts from, and of the packet that came last. The
actions are the branches of `updateSeq`, for a packet of which it is only assumed
that its true number is within one turn of the numbers of the most recent one
(`InReach`). In `RtpSources` `src.list` is `session->source` and its successors and
`src.counter` the static `sourcesCounter`. `Got` is `getSource` with the walk that
stops after so many sources; a source that is not found *replaces* the list, since
`pso` is null exactly when the walk has reached its end. `Raw` is what `ntohl` makes
of an ssrc that its sender wrote in host order (SDES and BYE), so that a sender has
two names or one by its byte order. `Rejoin` is `~Session` with `Session::create`.

### Worlds and texts (`Worlds`, `Scene`)

`next` and `prev` are the fields of `World`, `worldList` the head; `Swap` follows the
eight assignments of `World::swap`, `GoBack` and `GoForward` those of the buttons,
walks that give up after `LoopMax` steps included. `Gate`, `Goto` (location bar and
home), `Link`, `Sandbox`, `GoBack`, `GoForward` are the ways to another world, each
with `World::quit`, `World::enter` and what becomes of the channel; `joined` says
whether the channel can be created (a world that cannot be downloaded ends the program,
world.cpp:776). A gate has a channel of its own, any one, since `Vac` never resolves a
url; the location bar gives the default, home the client's first one; `chan` is what
`World::setChan` keeps: `World::enter` sets it for a new world only, the location bar and
home for either. `EnterBad` is a gate without a url: the world stays at the head of the
list, without url, and the next walk of `worldByUrl` reads its null pointer (the model
goes no further on that way). `astray` is history: an exchange was made on a list whose
`prev` does not mirror its `next`.

`Scene` has `mobileList` with the texts alone, `deleteList`, and each user's `bubble`
pointer. `Frame` is the part of `World::compute` from `deleteObjects` on. Freed memory
is read where a pointer outlives its text and where two objects are deleted in one
frame; each outcome is a step (`Dropped`, `Frame`, `Crash`).

### Downloads (`Downloads`)

`phase` says where `httpOpen` or the thread of a request is, `called` how often its
reader was. Images go through `fifo` and a thread; everything else is read by the main
thread before it goes on. The buffer `htbuf` is reset where the code resets it: by every
`Http` that is made (`Open`, cached or not) and when the request has been sent, before
the first header comes (`Ask`); not by a local file (`Local`), nor when the headers have
come (`Answer`). `openCache` goes in steps: the file is looked for (`FindFile`,
`FindNone`), made or cut (`MakeFile`), filled byte by byte (`GetChar`); other threads
and the main thread come between them. A file cut while another thread fills it, and
what two readers get who are in `getChar` at once (`GetCharRaced`, a data race), is
`Garbled`. A model whose connection failed goes through the same steps without a stream
(`refused`). `threaded` is history: a thread was created. A document is a sequence of
bytes of its url, so that what was read can be compared with it. `waiting` counts
`fifofirst`'s list, which nobody takes anything from, as `waitfifo` is null when the
constructor looks at it.

### The address server (`Vacs`)

One request after the other is answered (`List`, `Add`, `AddLocal`, `AddUnsaved`;
`resolve` of a known world, `release` and `size` change nothing). `vacs_file` is what
the last `list` set it to: the empty path at the start, and the file of the client's
version later. A world is its name and its universe, as `resolveCache` compares them.
`Restart` reads the file of the server's own version again. Records of the first file
are edited by hand: `Init` takes any number of them in the order of their channels.

## 3. Runs

Constants not named here are in the `.cfg` files. Each property of a passing run has a
mutant of the model that breaks it.

| run | instance | shows |
|---|---|---|
| `objects` | 2 clients, 2 avatars, 1 shot, 1 door, 2 acts, 1 fault | `NeverAhead`, `NoRegress`, `LocalUserSurvives`, `CreatorResponsible`, `ReplicasSilent`, `PermanentsDormant`, `WireOwned` |
| `permanents` | 2 clients, 1 lift, 1 foreign Delta, 6 versions, 1 fault | `YieldsToNewer`, `VersionAssumed`, `ConflictsEnd` |
| `heartbeats` | 2 clients, 2 properties, 1 move, dates 0 to 10 | `TypeOK` of `VrepTimer`, `HeartbeatsPunctual`, `NoFalseDeath` |
| `ghosts` | 3 clients, 1 property, 1 loss, 1 strike, dates 0 to 20 | `GhostsShortLived` |
| `live` | 2 clients, 1 move, 1 fault | `TypeOK`, `UsersMeet`, `GhostsVanish`, `ReplicasCatchUp` |
| `sources` | 2 senders of either byte order, sequence numbers of 3 bits, 5 packets, true numbers to 20, 4 sources counted | `TypeOK` of `RtpSeq`, `WalksReachAll`, `FollowsWhileListed`, `RestartFollowed` |
| `navigation` | 4 worlds, 2 channels, 3 urls, 5 trips, 1 failure, walks of 5 steps | `TypeOK` of `Worlds`, `OnlyCurrentRuns`, `WorldsKept` |
| `downloads` | 2 images, 1 local model, 1 list, 1 file name, 2 bytes, 1 connection, 1 kill | `TypeOK` of `Downloads`, `ReaderOnce`, `PlacesFreed`, `BeginningRead`, `RequestsServed` |
| `vacs` | 5 worlds, 3 versions, 2 directories, 3 addresses, 16 ports, 2 records at first, 1 restart | `TypeOK` of `Vacs`, `ChannelsDistinct`, `ChannelKept` |
| `revisits` | 4 worlds, 6 trips, no failure | `VisitedFound` violated (finding 1) |
| `texts` | 2 users, 3 texts each, 1 trip | `PreviousDeleted` violated (finding 2) |
| `strays` | 1 image, 1 list, 3 bytes through a buffer of 2 | `FileSaved` violated (finding 3) |

`WireOwned`, `LocalUserSurvives`, `CreatorResponsible`, `ReplicasSilent` and
`TypeOK` make the inductive `OwnershipInvariant`.

**Bounds.** `ActBudget` bounds the users' moves, throws and strikes, `FaultBudget` the
losses, duplicates and crashes, both over a whole behaviour. `NetBound` keeps a client
from sending of its own accord (moving, heart-beats) while more than `NetBound` of its
packets are under way; answers to packets are never held back. The constraint `SmallNet`
(at most 3 packets under way) is used in `objects` only, never in a liveness run. Why
they are enough: a hazard of this protocol takes two clients and one object, two
versions of one property and a packet of each, and one fault at the wrong moment; three
packets are enough for a Create, a Delta and a Delete of one object to overtake each
other. Balls and a third client are in no instance of `Vrep`, nor is a second visit of a
user under a new name; the properties of `objects` are proved for any number of each.
`VersMod` is 16, or 6 where versions must wrap in the run; the code's 2^16 is covered by
the proofs, which hold for every even number of versions. `QueryBurst` is 0 or 1 for the
code's 15: with 1 the counter is incremented, reaches its limit and starts again.

In the timed runs the unit is the half second of the timer: in `heartbeats` `Refresh` is
3, the assume delays 6 and 14 (the longest possible is just below 15), `Period` and
`Transit` 1; `ghosts` has the least delays that leave the order of events (a refresh
delay of 1, the longest assume delay), and its constraint `ShortVisit` bounds the length
of the visit and the packets under way (4). `Horizon` is a date by which every case has
happened: a replica learnt of, its shortest assume delay over and renewed
(`heartbeats`); a replica learnt of, its user gone, its ghost struck and the longest
assume delay over (`ghosts`). `NoFalseDeath` needs `Period + Transit <= Refresh` and no
loss, and neither can be dropped: TLC finds a false death for `Period` and `Transit`
both 2, and one for a single loss with the code's own numbers. That is why `Vrep` leaves
the set of overdue properties open.

Sequence numbers of 3 bits with gaps of less than 3 and lateness of less than 2 wrap
twice within 20 numbers, and every branch of `updateSeq` is taken before and after a
wrap. `MaxSources` bounds the sources ever counted: the code's counter is 16 bits
wide, and after 65536 of them the walks see nothing; `WalksReachAll` is said of the
time before. Four worlds and five trips are enough for a list of four to be rotated
both ways, exchanged at its head, its middle and its tail, and exchanged again once
broken; `LoopMax`, 100 in the code, must only exceed the number of worlds. A
document of two bytes that come at once lets a reader of `downloads` leave one in the
buffer, and with one connection allowed the second image waits; in `strays` three bytes
fill the buffer twice. In `vacs` the numbers of ports and addresses are such
that a channel comes again only after more worlds than there are: with as many worlds
as channels even a correct server would give one twice.

**Deadlock** is not checked: a world may be empty for ever, a user may stay, all
requests may be served, a budget spent, and time end at `Horizon`.

**Fairness** (`VrepLive`). A packet under way is handled: the socket is served by the
event loop's `select`. Fairness is stated for packets of one `Kind`, i.e. for what a
handler does for an object and a property, not for each packet, so that nothing more is
assumed than that the queue of the socket is read. `Beat`, a run of `NetTimeout` that
refreshes what p is responsible for, and `Expire`, one that finds overdue what nobody
refreshes, are strongly fair: in the code the timer runs for ever, and it is only the
bound `NetBound` of the model that interrupts their being enabled. Nothing is assumed of
the users. `TimelySpec` (run `permanents`) adds that from some time on no client assumes
responsibility for a permanent property whose heart-beats reach it: `assume_at` is at
least `min_assume_delay`, twice the refresh delay, after the last Delta (`netprop.cpp`,
`NetProperty::resetDates`), so this is what timely packets mean. The other liveness
properties hold without it, clients that declare live objects dead again and again
included.

`ConflictsEnd` is checked for clients that draw different version steps. When they
draw the same ones they can answer each other in lock-step, and the conflict does
not end; the code's `rand()` is seeded with `time()`, so two clients started in the
same second do draw the same. With three clients a pair that draws the same is
enough.

`Downloads` assumes that each request goes on by itself (`WF_vars(Step(r))`): its
thread is scheduled, and its server answers, fails or closes the connection. The code
has no time-out for a server that keeps a connection open and sends nothing; the main
thread then hangs, and nothing of `RequestsServed` is left.

## 4. Findings

1. `revisits`: `World::swap` assumes that the two worlds it exchanges are not
   neighbours. For the world right behind the current one, the current world becomes
   its own `next` and its own `prev`; the next exchange makes the head follow itself,
   and every other world is lost to `worldByUrl`. A comment there (world.cpp:200) knows
   of the "bug inside the list", but not where it comes from. Going to and fro between
   two worlds through gates is enough.
2. `texts`: `Bubble::updateTime` resets the pointer of the local user when *any* text
   has spent its time. After a remote user's text has gone, the local user's next text
   is shown beside the previous one. (The owner of the text keeps a pointer to it.)
3. `strays`: `openCache` "saves file into cache" (cache.hpp:49). The constructor of every
   `Http` resets the static buffer, also for a file found in the cache: what a thread had
   not read of it yet is missing in the file it saves. No data race is needed.

Disagreements met while modelling that no run states:

- `sendQueryNoid` and `sendDeleteNoid` pass `this`, a `Noid*`, where `putPayload` reads
  a `Noid`. Where such an argument travels by value (x86-64), the packet names the
  bytes of an address, and as avatars are announced by their Deltas only, no client
  meets another. The runs set `ByRef` to the clients whose calling convention passes
  the `Noid` by reference; the mutant `NameByAddress` of `UsersMeet` is the other case.
- A client that leaves declares the deletion of every avatar it lists, as `~WObject`
  does for any volatile object; a comment in `~User` (user.cpp:447) says that a remote
  user's deletion is not to be declared. The others recover after the next heart-beat,
  Query and Create (`UsersMeet`); the users hit ignore the Delete (`LocalUserSurvives`).
- `NetTimeout` takes a version that is not 0 for "not its initial value"
  (event.cpp:229). A door opened by a user has version 0, as nobody is responsible for
  it and `imposedMovement` then publishes nothing: by `PermanentsDormant` nobody ever
  becomes responsible for it in a world without an older client.
- A source is valid from its first packet where its memory held zeros: nobody sets
  `probation` (rtp.cpp:93 promises MIN_SEQUENTIAL packets first). The packets reported
  lost are one too many, as `initSource` sets `base_seq` to `seq - 1` and `recvPayload`
  counts both ends (payload.cpp:573), and too few by the duplicates.
- A Delta of the version a client has is "just a recall (then nothing to do)"
  (payload.cpp:712). But a lift, a guide or a bumper moves the local user without
  declaring it, small steps in z and roll and pitch are never declared: heart-beats then
  carry another value under the same version, and the replica stays where it was until
  the next declared change. So a version does not identify a state, replicas catch up
  with what was *declared* (`ReplicasCatchUp`), and a client that comes later sees
  another state than one that was there. In `Vrep` this is `MoveLocally`.
- `getChan` "gets the current channel string" (world.cpp:278), on which the audio, video
  and white board tools are started. `World::enter` gives the channel it is called with
  to a new world only: through a gate with another channel to a world visited before,
  the client joins one channel and its tools another (`Gate`). Forward or back from a
  linked world keeps that world's channel, whichever world comes next (`Call`). No
  property is therefore stated of the two channels.
- "max simultaneous connections" (pref.hpp) does not hold: `begin` runs in the
  constructor, where `waitfifo` is null, so that no thread ever waits; images found in
  the cache give back a place they never took. What does hold is `PlacesFreed`.
- `inCache` "checks weither url is cached" (cache.hpp:52), but takes any file for the
  whole. The reader of a model whose connection failed calls `openCache` without a
  stream, which makes an empty file before it looks (`Fail`, `MakeFile`); a killed client
  leaves part of a document: both are found ever after.
- vacs.8 promises "unique" channels. Until the first `list` request `vacs_file` is
  empty, a world on the web cannot be appended, and `addCache` returns before it
  computes the next values: the next world gets the same channel
  (`ChannelsDistinct` says that this is the only way). `release` does nothing.

## 5. Theorems

All are theorems of `Spec` (`SourcesSpec` for the list of sources), without fairness and
without any bound but what the named assumptions say. Every invariant, action property
and refinement that a passing run checks is the property of one. Those of `Vrep` and
`VrepVersion` assume: names are distinct and owned by a client (`NamesAssumption`),
property numbers (`PropAssumption`), an even number of versions, at least 4, and steps
below half of it (`VersionAssumption`), draws among these steps (`ParameterAssumption`).
The sets of clients, objects and values need not be finite.

- `TypeCorrect`: `TypeOK` is inductive; one lemma per action.
- `LocalUserTheorem`, `CreatorTheorem`, `ReplicasTheorem`, `WireTheorem`: these
  four invariants depend on each other. A creator keeps its responsibility because
  no Delta on its object reaches it (`WireOwned`); none does because only the
  creator is responsible and so only he sends Deltas (`ReplicasSilent`); a replica
  is not responsible because the only ways to become so are a Delta of one's own
  (`declareObjDelta`, for which one must be responsible already, or own the
  avatar) and `NetTimeout` on a permanent object; and a creator never gets its own
  object as a replica because its avatar is always on its list
  (`LocalUserSurvives`) and nobody sends it a Create of its ball or shot, as it
  never asks for one. `OwnershipInvariant` is their conjunction with `TypeOK` and
  `OutsideEmpty` (a client that is not in the world lists nothing), and
  `OwnershipStep` shows that it is inductive. The property of an avatar that a
  strike is sent on is excepted, since any client may send it: `Exclusive` says
  which pairs are meant.
- `DormantTheorem`: `DormantInvariant` strengthens `PermanentsDormant` by: no
  Query for or Create of a permanent object is under way.
- `VersionCases`, `BumpedIsNewer`: for any two versions exactly one branch of
  `incomingDelta` applies, and a version `declareObjDelta` chooses is newer than
  the one before, also when it wraps.
- `NoRegressTheorem`, `YieldsTheorem`: no step of any client takes a version of a
  listed object back, or clears a responsibility but for a newer version. They need
  `NamedInvariant`: a name is given before it is listed or sent in a Create, so
  that a throw does not reset an object already on the list.
- `NeverAheadTheorem` concerns *copies*, the versions of an exclusive property that a
  client holds or a packet under way carries. `CopiesInvariant` says that copies are of
  names already given (`CopiesNamed`), below half of the versions (`CopiesBounded`) and
  not after the creator's own (`CopiesBehind`). A step writes new copies only of the
  creator's own new version, which exceeds all there were (`Written`), and leaves every
  other copy a copy there was. It holds under `[]Unwrapped`: after a wrap of 2^16
  versions an old packet may carry a version given again. `UnwrappedTheorem` shows that
  only the users' operations bring that nearer: `VersionsSpent` bounds every version by
  `VersJump` for each of them, heart-beats and time-outs being free.
  `NeverAheadUnwrapped` puts them together; its hypothesis,
  `ActBudget * VersJump < VersMod \div 2`, is the case in `objects`, and means 3276
  operations with the code's numbers. Nothing is said of values (section 4).

- `VrepTimerProofs`, for all delays, numbers of clients, properties and bounds
  (`TimerAssumption`): `TimerInvariant` says that nothing timely is late (`Timely`),
  what `resetDates` makes of the two dates (`Spread`), that the last scan left
  nothing overdue (`ScannedFirst`), how long after the last strike a client that is not
  the creator may still send (`Stirred`: the strike, the Query it provokes, the Create
  that answers), and that of a dead creator's avatar nothing is seen later than its last
  packets or such an answer (`Silenced`). From it follow `PunctualTheorem` (the scan of
  one's own properties is never given up, `AllRefreshed`) and `GhostsTheorem`, whose
  bound counts from `LastRenewal`, the later of the two. `NoFalseDeathTheorem` assumes no
  losses and `Period + Transit <= Refresh`, and needs more: a replica has either seen
  something since its creator's last heart-beat, or a heart-beat of at least its own
  version is under way that was sent early enough (`Fresh`, `Awaited`); the creator's
  versions bound all others, and while it lives no Delete is under way (`Ordered`).

- `RtpProofs`, for every modulus and any two bounds of at most the modulus
  together (`SeqAssumption`): `SequenceCorrect` proves `TypeOK` with `Aligned` (the
  highest number seen is the true number of the most recent packet modulo `Mod`);
  `FollowsTrueNumbers` that each branch of `updateSeq` is a step of `RtpExtended` or a
  stutter; `RestartsFollowed` that the second of two consecutive packets out of range
  is taken. Of the list of sources: it never holds more than one source and `sourcesCounter`
  is at least its length (`Single`), whence `SourcesWalked`; a packet of the observed
  sender then finds its source or starts one in fresh memory, whence `SourcesFollow`
  and `SourcesRestart` from the lemmas on `updateSeq`.
- `VacsProofs`: the invariant is that a world has one record in the list and one in
  the file, and that every record of the file is in the list. From it follow
  `VacsTyped` and `VacsChannelKept`, for any number of worlds, versions and restarts.
  `VacsChannelsDistinct` numbers the channels in the order the server comes to them
  (`Numbered`): none of the list has a number above the next one's, two worlds have one
  number, or a world has the next one's, only if it is in `unsaved`, and the numbers of
  the file grow and stay below the next. It assumes `Enough`, that no channel
  comes round again within (starts + 1) times the worlds; TLC finds that true of `vacs`.
- `DownloadsProofs`, for any requests, documents, sizes of the buffer and kills
  (`DownloadsAssumption`; that the mark of an absent file is no document is part of it).
  The invariant ties the phases to everything else: only images are counted, until they
  are over (`Counted`), who transfers has had its reader called (`CalledBefore`), who has
  no stream has read nothing of it (`Fresh`), and, of clients that created no thread: one
  request at a time is between `Open` and its end (`Alone`), who fills a file started it
  (`Filed`), and the buffer holds what follows in the document on what the reader or the
  file has got (`Undisturbed`). From it follow `DownloadsTyped`, `ReaderOnceTheorem`,
  `PlacesFreedTheorem` and `BeginningTheorem`, the last for clients without threads: with
  one, `strays` shows that it fails.
- `WorldsProofs`, for any number of worlds, trips and failures (`WorldsAssumption`:
  walks are longer than the worlds there are). `WorldsTyped` and `OnlyCurrentRunsTheorem`
  hold on broken lists as well; their invariant adds that
  pointers of worlds created lead to worlds created (`Pointers`), so that goBack's and
  goForward's walks, which may give up anywhere, follow no null pointer.
  `WorldsKeptTheorem` is the refinement `Worlds` => `Trail`: while `astray` is false the
  `next` pointers form a chain of distinct worlds from the current one to an end
  (`Straight`), a walk of it is what `Trail` calls the trail (`PathVisited`), and each
  operation on the pointers turns the chain as `Trail` turns its sequence (`ChainNew`,
  `ChainExchange`, `ChainBack`, `ChainForward`). What recursive walks reach is proved
  by induction for sets (`AllNaturals`: a set with 0 and the successors of its elements
  is all of Nat), which follows from the library's least elements.

Only model-checked: the liveness properties `VersionAssumed`, `ConflictsEnd`,
`UsersMeet`, `GhostsVanish`, `ReplicasCatchUp` and `RequestsServed`, as fairness and
ENABLED are beyond the prover.

## 6. Not modelled

- *The client's side of channel resolution.* `connected` is never set (vac.cpp:110 is
  commented out), so `getList` and `resolveWorldUrl` return at once; what gates fall
  back to, their own channel or the default one, is in `Worlds`. `vaps` plays animation
  files and keeps no state between two clients.
- *Threads other than downloads.* `endMovement` sleeps in a thread of its own between
  two assignments to the local user's behaviour; `Vac::connectThread` sets nothing.
  Which behaviours they race with depends on every object's own code.
- *In `Downloads`*: proxies, redirections (whose second connection leaks the first
  descriptor), the preference `refresh`, the body that follows an error code (left
  unread in the buffer until the next reset), a world's own source (read past the
  buffer), the dialog that shows it (it bypasses the cache on opening and gives back a
  place it never took), what readers do with the bytes (the handshake between a
  texture's thread and the frame among it), servers that never answer.
- *In `Scene`*: objects other than texts. A dart or a ball comes on `deleteList` the
  same way, but has no second pointer to it.
- *In `Vrep`*: property tables per object type (a user's ray is published but never
  refreshed), a client that leaves one world for another, and the values a property's
  `get_` and `put_` methods exchange. An abstract register per property which `Vrep`
  implements would be the next refinement to state.
- *RTCP*: the contents of reports; SAP announcements; sockets and the list of sessions.
- Left out for good: the parser (sequential string processing), MySQL and VJC
  (blocking calls to external programs), user interface, rendering, sound, tools and
  vendored libraries, which make up almost all of the repository's lines and have no
  part in what the clients keep alike.
