-------------------------------- MODULE Scene --------------------------------
(***************************************************************************)
(* The texts users write, shown above their heads for a minute             *)
(* (src/src/wo/bubble.cpp, user.cpp), and the list of objects to delete    *)
(* (WObject::toDelete, World::deleteObjects).  A text is an object of the  *)
(* mobile list; its user keeps a pointer to it.  All of this runs in the   *)
(* client's main thread: the network, the user and the frame call it in    *)
(* any order.                                                              *)
(*                                                                         *)
(* The code reads memory it has freed where a pointer to a text outlives   *)
(* it, and where two objects are deleted in one frame: what it reads there *)
(* is any of the outcomes below, the end of the client (~running) among    *)
(* them.                                                                   *)
(***************************************************************************)
EXTENDS Naturals, SequencesExt

CONSTANTS
    User, localuser,
    NULL,
    MaxTexts,       \* bound: texts of each user
    MaxTrips        \* bound: changes of world

VARIABLES
    mobileList,     \* its bubbles, the oldest first
    deleteList,
    bubble,         \* the user's pointer
    written,        \* how many texts each user has written
    trips,
    running

vars == <<mobileList, deleteList, bubble, written, trips, running>>

Bubble == [of : User, n : 1..MaxTexts]

Text(u) == [of |-> u, n |-> written[u] + 1]

Exists(b) == b \in ToSet(mobileList)

\* World::init attaches the first bubble of the local user
Init ==
    /\ written = [u \in User |-> IF u = localuser THEN 1 ELSE 0]
    /\ mobileList = <<[of |-> localuser, n |-> 1]>>
    /\ bubble = [u \in User |-> IF u = localuser THEN Head(mobileList) ELSE NULL]
    /\ deleteList = <<>> /\ trips = 0 /\ running = TRUE

\* toDelete: whether a freed object still seems valid is anybody's guess
Dropped(b) ==
    \/ b # NULL /\ deleteList' = Append(deleteList, b)
    \/ ~Exists(b) /\ UNCHANGED deleteList

\* userWriting of the local user, get_msg of the others
Write(u) ==
    /\ running /\ written[u] < MaxTexts
    /\ Dropped(bubble[u])
    /\ bubble' = [bubble EXCEPT ![u] = Text(u)]
    /\ mobileList' = Append(mobileList, Text(u))
    /\ written' = [written EXCEPT ![u] = @ + 1]
    /\ UNCHANGED <<trips, running>>

\* deleteObjects: the iterator is a freed node after the first object
Deleted ==
    /\ IsInjective(deleteList) /\ ToSet(deleteList) \subseteq ToSet(mobileList)

Shown == SelectSeq(mobileList, LAMBDA b : b \notin ToSet(deleteList))

\* World::compute: deleteObjects, then the motions, where the n oldest bubbles
\* come to their ends (Bubble::updateTime)
Frame(n) ==
    /\ running /\ Deleted
    /\ n <= Len(Shown)
    /\ mobileList' = Shown
    /\ deleteList' = SubSeq(Shown, 1, n)
    /\ bubble' = IF n > 0 THEN [bubble EXCEPT ![localuser] = NULL] ELSE bubble
    /\ UNCHANGED <<written, trips, running>>

\* The outcome where deleteObjects reads freed memory
Crash ==
    /\ running /\ (Len(deleteList) > 1 \/ ~Deleted)
    /\ running' = FALSE
    /\ UNCHANGED <<mobileList, deleteList, bubble, written, trips>>

\* World::quit deletes the mobile objects but the local user, World::enter clears
\* the lists; the users of the new world are others
Travel ==
    /\ running /\ trips < MaxTrips /\ trips' = trips + 1
    /\ mobileList' = <<>> /\ deleteList' = <<>>
    /\ bubble' = [u \in User |-> IF u = localuser THEN bubble[u] ELSE NULL]
    /\ UNCHANGED <<written, running>>

Next ==
    \/ \E u \in User : Write(u)
    \/ \E n \in 0..Len(mobileList) : Frame(n)
    \/ Crash
    \/ Travel

Spec == Init /\ [][Next]_vars
-----------------------------------------------------------------------------
(***************************************************************************)
(* "delete previous text" (user.cpp:508, user.cpp:942): whoever writes has *)
(* one text above his head, the last one (User::userWriting,               *)
(* User::get_msg).                                                         *)
(***************************************************************************)
PreviousDeleted ==
    running => \A u \in User : Len(SelectSeq(Shown, LAMBDA b : b.of = u)) <= 1
=============================================================================
