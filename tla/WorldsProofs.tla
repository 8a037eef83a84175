---------------------------- MODULE WorldsProofs ----------------------------
(***************************************************************************)
(* Proofs about the list of worlds, for any number of worlds, trips and    *)
(* failures: it stays in range on broken lists too and only the current    *)
(* world runs; and as long as no exchange has worked on a broken list, it  *)
(* is the trail of module Trail.                                           *)
(***************************************************************************)
EXTENDS Worlds, SequencesExt, FiniteSetTheorems, WellFoundedInduction, TLAPS

(***************************************************************************)
(* Naturals.  A set that holds 0 and the successor of what it holds is all *)
(* of them; the library's least element of a non-empty set gives both.     *)
(***************************************************************************)
LEMMA LeastNat ==
  ASSUME NEW T \in SUBSET Nat, T # {}
  PROVE  Min(T) \in T /\ \A y \in T : Min(T) <= y
<1>1. PICK x \in T : \A y \in T : ~(<<y, x>> \in OpToRel(<, Nat))
  BY NatLessThanWellFounded, WFMin, Zenon
<1>2. \A y \in T : ~(y < x)
  BY <1>1 DEF OpToRel
<1>3. \A y \in T : x <= y
  BY <1>2
<1>4. \E z \in T : \A y \in T : z =< y
  BY <1>3
<1> QED
  BY <1>4 DEF Min

\* Induction, for a set
LEMMA AllNaturals ==
  ASSUME NEW S \in SUBSET Nat, 0 \in S, \A n \in S : n + 1 \in S
  PROVE  S = Nat
<1>. DEFINE T == Nat \ S
<1>1. ASSUME T # {} PROVE FALSE
  <2>1. Min(T) \in T /\ \A y \in T : Min(T) <= y
    BY <1>1, LeastNat
  <2>. DEFINE m == Min(T)
  <2>. HIDE DEF m
  <2>2. m \in Nat /\ m \notin S /\ \A y \in Nat : y \notin S => m <= y
    BY <2>1 DEF m
  <2>3. m # 0 /\ m - 1 \in Nat
    BY <2>2
  <2>4. m - 1 \in S
    BY <2>2, <2>3
  <2>5. (m - 1) + 1 \in S
    BY <2>4
  <2> QED
    BY <2>2, <2>5
<1> QED
  BY <1>1
\* and for an initial segment
LEMMA UpTo ==
  ASSUME NEW n \in Nat, NEW S, 0 \in S, \A k \in 0..(n - 1) : k \in S => k + 1 \in S
  PROVE  0..n \subseteq S
<1>. DEFINE T == {k \in Nat : k <= n => k \in S}
<1>1. 0 \in T
  OBVIOUS
<1>2. ASSUME NEW k \in T PROVE k + 1 \in T
  <2>1. k + 1 <= n => k \in 0..(n - 1)
    OBVIOUS
  <2> QED
    BY <2>1
<1>. HIDE DEF T
<1>3. T = Nat
  <2>1. T \in SUBSET Nat
    BY DEF T
  <2> QED
    BY <1>1, <1>2, <2>1, AllNaturals
<1> QED
  BY <1>3 DEF T
-----------------------------------------------------------------------------
(* Walks. *)

\* The first n steps from w
Steps(w, n, g) == g = [k \in 0..n |-> IF k = 0 THEN w ELSE After(g[k - 1])]

\* The steps of a walk: the recursive function exists
LEMMA StepsExist ==
  ASSUME NEW w, NEW n \in Nat
  PROVE  \E g : Steps(w, n, g)
<1>. DEFINE S == {m \in Nat : \E g : Steps(w, m, g)}
<1>1. 0 \in S
  <2>1. Steps(w, 0, [k \in 0..0 |-> w])
    BY DEF Steps
  <2> QED
    BY <2>1
<1>2. ASSUME NEW m \in S PROVE m + 1 \in S
  <2>1. PICK g : Steps(w, m, g)
    OBVIOUS
  <2>. DEFINE h == [k \in 0..(m + 1) |-> IF k = m + 1 THEN After(g[m]) ELSE g[k]]
  <2>2. ASSUME NEW k \in 0..(m + 1)
        PROVE  h[k] = IF k = 0 THEN w ELSE After(h[k - 1])
    <3>1. CASE k = 0
      BY <2>1, <3>1 DEF Steps
    <3>2. CASE k = m + 1
      <4>1. k # 0 /\ k - 1 = m /\ m \in 0..(m + 1) /\ m # m + 1
        BY <3>2
      <4> QED
        BY <3>2, <4>1
    <3>3. CASE k # 0 /\ k # m + 1
      <4>1. k \in 0..m /\ k - 1 \in 0..m /\ k - 1 # m + 1 /\ k - 1 \in 0..(m + 1)
        BY <3>3
      <4>2. g[k] = After(g[k - 1])
        BY <2>1, <3>3, <4>1 DEF Steps
      <4> QED
        BY <3>3, <4>1, <4>2
    <3> QED
      BY <3>1, <3>2, <3>3
  <2>3. h = [k \in 0..(m + 1) |-> h[k]]
    OBVIOUS
  <2>. HIDE DEF h
  <2>4. Steps(w, m + 1, h)
    BY <2>2, <2>3 DEF Steps
  <2>5. m + 1 \in Nat
    OBVIOUS
  <2> QED
    BY <2>4, <2>5
<1>. HIDE DEF S
<1>3. S = Nat
  <2>1. S \in SUBSET Nat
    BY DEF S
  <2> QED
    BY <1>1, <1>2, <2>1, AllNaturals
<1> QED
  BY <1>3 DEF S

\* A walk starts at its world and follows the next pointers
LEMMA WalkSteps ==
  ASSUME NEW w
  PROVE  /\ Walk(w) = [k \in 0..LoopMax |-> Walk(w)[k]]
         /\ Walk(w)[0] = w
         /\ \A k \in 0..(LoopMax - 1) : Walk(w)[k + 1] = After(Walk(w)[k])
<1>1. LoopMax \in Nat
  BY WorldsAssumption
<1>2. Walk(w) = CHOOSE g : g = [k \in 0..LoopMax |-> IF k = 0 THEN w ELSE After(g[k - 1])]
  BY DEF Walk
<1>3. Walk(w) = CHOOSE g : Steps(w, LoopMax, g)
  BY <1>2 DEF Steps
<1>4. Steps(w, LoopMax, Walk(w))
  BY <1>1, <1>3, StepsExist
<1>. DEFINE g == Walk(w)
<1>. HIDE DEF g
<1>5. g = [k \in 0..LoopMax |-> IF k = 0 THEN w ELSE After(g[k - 1])]
  BY <1>4 DEF Steps, g
<1>6. ASSUME NEW k \in 0..(LoopMax - 1) PROVE g[k + 1] = After(g[k])
  <2>1. k + 1 \in 0..LoopMax /\ k + 1 # 0 /\ (k + 1) - 1 = k
    BY <1>1
  <2> QED
    BY <1>5, <2>1
<1> QED
  BY <1>1, <1>5, <1>6 DEF g
-----------------------------------------------------------------------------
(* The worlds created, and their pointers. *)

Pointers(n) ==
    {f \in [World -> World \cup {NoWorld}] :
        \A v \in World : f[v] # NoWorld => v <= n /\ f[v] <= n}

Typed ==
    /\ TypeOK
    /\ next \in Pointers(worldcnt) /\ prev \in Pointers(worldcnt)

\* What the constants are
LEMMA Constants ==
  /\ MaxWorlds \in Nat \ {0} /\ LoopMax \in Nat /\ LoopMax > MaxWorlds
  /\ World = 1..MaxWorlds /\ NoWorld \notin World
  /\ \A n \in World : n \in Nat /\ 1..n \subseteq World /\ \A v \in 1..n : v <= n
BY WorldsAssumption DEF World

\* Pointers between worlds created stay such when one is set
LEMMA SetPointer ==
  ASSUME NEW n \in World, NEW f \in Pointers(n), NEW a \in 1..n \cup {NoWorld},
         NEW b \in 1..n \cup {NoWorld}
  PROVE  Set(f, a, b) \in Pointers(n)
<1>. DEFINE g == Set(f, a, b)
<1>1. 1..n \subseteq World /\ \A v \in 1..n : v <= n
  BY Constants
<1>2. f \in [World -> World \cup {NoWorld}] /\ b \in World \cup {NoWorld}
  BY <1>1 DEF Pointers
<1>3. g \in [World -> World \cup {NoWorld}]
  BY <1>2 DEF Set
<1>4. ASSUME NEW v \in World, g[v] # NoWorld
      PROVE  v <= n /\ g[v] <= n
  <2>1. CASE v = a
    <3>1. g[v] = b /\ a \in 1..n /\ b \in 1..n
      BY <1>2, <1>4, <2>1, Constants DEF Set
    <3> QED
      BY <1>1, <2>1, <3>1
  <2>2. CASE v # a
    BY <1>2, <1>4, <2>2 DEF Set, Pointers
  <2> QED
    BY <2>1, <2>2
<1> QED
  BY <1>3, <1>4 DEF Pointers

\* Where a pointer of a world created points
LEMMA Follow ==
  ASSUME NEW n \in World, NEW f \in Pointers(n), NEW v \in World
  PROVE  f[v] \in 1..n \cup {NoWorld}
<1>1. f[v] \in World \cup {NoWorld} /\ (f[v] # NoWorld => f[v] <= n)
  BY DEF Pointers
<1> QED
  BY <1>1, Constants

\* Walks meet worlds created only
LEMMA WalkCreated ==
  ASSUME Typed, NEW w \in 1..worldcnt \cup {NoWorld}
  PROVE  \A k \in 0..LoopMax : Walk(w)[k] \in 1..worldcnt \cup {NoWorld}
<1>. DEFINE S == {k \in Nat : Walk(w)[k] \in 1..worldcnt \cup {NoWorld}}
<1>0. worldcnt \in World /\ 1..worldcnt \subseteq World /\ LoopMax \in Nat
  BY Constants DEF Typed, TypeOK
<1>1. 0 \in S
  BY WalkSteps
<1>2. ASSUME NEW k \in 0..(LoopMax - 1), k \in S PROVE k + 1 \in S
  <2>1. Walk(w)[k + 1] = After(Walk(w)[k]) /\ k + 1 \in Nat
    BY <1>0, WalkSteps
  <2>2. Walk(w)[k] \in 1..worldcnt \cup {NoWorld}
    BY <1>2
  <2>3. After(Walk(w)[k]) \in 1..worldcnt \cup {NoWorld}
    BY <1>0, <2>2, Follow DEF After, Typed
  <2> QED
    BY <2>1, <2>3
<1>. HIDE DEF S
<1>3. 0..LoopMax \subseteq S
  BY <1>0, <1>1, <1>2, UpTo
<1> QED
  BY <1>3 DEF S

\* The world found is listed
LEMMA Found ==
  ASSUME Typed, NEW u, WorldByUrl(u) # NoWorld
  PROVE  WorldByUrl(u) \in 1..worldcnt /\ WorldByUrl(u) \in Listed
<1>. DEFINE walk == Walk(worldList)
            at == {k \in 0..LoopMax : walk[k] # NoWorld /\ url[walk[k]] \in {u, NoUrl}}
<1>1. WorldByUrl(u) = IF at = {} THEN NoWorld ELSE walk[Min(at)]
  BY DEF WorldByUrl
<1>2. at # {}
  BY <1>1
<1>3. at \in SUBSET Nat
  BY Constants
<1>4. Min(at) \in at
  BY <1>2, <1>3, LeastNat
<1>5. \A k \in 0..LoopMax : walk[k] \in 1..worldcnt \cup {NoWorld}
  BY WalkCreated DEF Typed, TypeOK
<1>. HIDE DEF walk
<1>6. PICK k \in 0..LoopMax : k = Min(at) /\ walk[k] # NoWorld
  BY <1>4
<1>7. walk[k] \in Listed
  BY <1>6 DEF Listed, walk
<1> QED
  BY <1>1, <1>2, <1>5, <1>6, <1>7

(***************************************************************************)
(* goForward's walk on whatever list: the world it stops at is followed by *)
(* another one.                                                            *)
(***************************************************************************)
LEMMA ForwardStops ==
  ASSUME Typed, next[worldList] # NoWorld
  PROVE  LastButOne \in 1..worldcnt /\ next[LastButOne] \in 1..worldcnt
<1>. DEFINE walk == Walk(worldList)
            Ends(k) == /\ walk[k] # NoWorld /\ next[walk[k]] # NoWorld
                       /\ next[next[walk[k]]] = NoWorld
            stops == {k \in 0..LoopMax : k = LoopMax \/ Ends(k)}
            Goes(k) == walk[k] # NoWorld /\ next[walk[k]] # NoWorld
<1>0. worldcnt \in World /\ worldList \in 1..worldcnt /\ 1..worldcnt \subseteq World
      /\ LoopMax \in Nat
  BY Constants DEF Typed, TypeOK
<1>1. LastButOne = walk[Min(stops)]
  BY DEF LastButOne
<1>2. Min(stops) \in stops /\ \A y \in stops : Min(stops) <= y
  <2>1. stops \in SUBSET Nat /\ stops # {}
    BY <1>0
  <2>. HIDE DEF stops
  <2> QED
    BY <2>1, LeastNat
<1>3. PICK m \in 0..LoopMax : m = Min(stops)
  BY <1>2
<1>4. \A k \in 0..LoopMax : walk[k] \in 1..worldcnt \cup {NoWorld}
  BY <1>0, WalkCreated
<1>5. walk[0] = worldList /\ \A k \in 0..(LoopMax - 1) : walk[k + 1] = After(walk[k])
  BY WalkSteps
<1>6. \A k \in 0..(m - 1) : ~Ends(k)
  <2>. SUFFICES ASSUME NEW k \in 0..(m - 1), Ends(k) PROVE FALSE
    OBVIOUS
  <2>1. k \in 0..LoopMax /\ k < m
    BY <1>0
  <2>2. k \in stops
    BY <2>1
  <2>. HIDE DEF stops
  <2>3. m <= k
    BY <1>2, <1>3, <2>2
  <2> QED
    BY <2>1, <2>3
<1>7. Goes(m)
  <2>. DEFINE S == {k \in Nat : Goes(k)}
  <2>1. 0 \in S
    BY <1>0, <1>5, Constants
  <2>2. ASSUME NEW k \in 0..(m - 1), k \in S PROVE k + 1 \in S
    <3>1. k \in 0..(LoopMax - 1) /\ Goes(k) /\ ~Ends(k) /\ k + 1 \in Nat
      BY <1>0, <1>6, <2>2
    <3>2. walk[k + 1] = next[walk[k]]
      BY <1>5, <3>1 DEF After
    <3> QED
      BY <3>1, <3>2
  <2>3. m \in Nat /\ m \in 0..m
    OBVIOUS
  <2>. HIDE DEF S
  <2>4. 0..m \subseteq S
    BY <2>1, <2>2, <2>3, UpTo
  <2> QED
    BY <2>3, <2>4 DEF S
<1>8. walk[m] \in 1..worldcnt /\ next[walk[m]] # NoWorld
  BY <1>4, <1>7
<1>9. next[walk[m]] \in 1..worldcnt
  BY <1>0, <1>8, Follow DEF Typed
<1> QED
  BY <1>1, <1>3, <1>8, <1>9
-----------------------------------------------------------------------------
(* The invariant. *)

Inv == Typed /\ OnlyCurrentRuns

States == {"STOPPED", "LOADING", "LOADED", "SIMULATION"}

\* The invariant holds at first, then one lemma for each way from world to world
LEMMA InvInit == Init => Inv
<1>. SUFFICES ASSUME Init PROVE Inv
  OBVIOUS
<1>1. 1 \in World /\ 1 \in Nat
  BY Constants
<1>2. TypeOK
  <2>1. worldcnt \in World /\ worldList \in 1..worldcnt
    BY <1>1 DEF Init
  <2>2. Home \in Url /\ InitialChannel \in Channel
    BY WorldsAssumption
  <2>3. /\ next \in [World -> World \cup {NoWorld}] /\ prev \in [World -> World \cup {NoWorld}]
        /\ islinked \in [World -> BOOLEAN]
    BY DEF Init
  <2>4. url \in [World -> Url \cup {NoUrl}] /\ chan \in [World -> Channel \cup {NoChannel}]
        /\ channel \in Channel \cup {NoChannel, NoSession}
    BY <2>2 DEF Init
  <2>5. state \in [World -> {"STOPPED", "LOADING", "LOADED", "SIMULATION"}]
    BY DEF Init
  <2>6. trips \in 0..MaxTrips /\ failures \in 0..MaxFailures
    BY WorldsAssumption DEF Init
  <2>7. astray \in BOOLEAN
    BY DEF Init
  <2> QED
    BY <2>1, <2>3, <2>4, <2>5, <2>6, <2>7 DEF TypeOK
<1>3. next \in Pointers(worldcnt) /\ prev \in Pointers(worldcnt)
  BY DEF Init, Pointers
<1>5. Typed
  BY <1>2, <1>3 DEF Typed
<1>6. OnlyCurrentRuns
  BY DEF Init, OnlyCurrentRuns
<1> QED
  BY <1>5, <1>6 DEF Inv

\* World::quit, before every World::enter
LEMMA Leaving ==
  ASSUME state \in [World -> States], OnlyCurrentRuns, NEW w \in World,
         worldList \in World, worldList' = w,
         state' = Left(w) \/ state' = Set(Left(w), w, "LOADING")
  PROVE  state' \in [World -> States] /\ OnlyCurrentRuns'
BY DEF OnlyCurrentRuns, Left, Set, States

\* Failures stay within their bound
LEMMA Failing ==
  ASSUME TypeOK, NEW joined \in BOOLEAN, Outcome(joined)
  PROVE  failures' \in 0..MaxFailures
BY WorldsAssumption DEF Outcome, TypeOK

\* What a channel becomes
LEMMA Joining ==
  ASSUME NEW c \in Channel \cup {NoChannel}, NEW joined \in BOOLEAN
  PROVE  Joined(c, joined) \in Channel \cup {NoChannel, NoSession}
BY DEF Joined

(***************************************************************************)
(* World::swap: of the eight assignments, those that follow a null pointer *)
(* do nothing.                                                             *)
(***************************************************************************)
LEMMA Swapping ==
  ASSUME Typed, NEW w \in 1..worldcnt, Swap(w)
  PROVE  next' \in Pointers(worldcnt) /\ prev' \in Pointers(worldcnt)
<1>. DEFINE n == worldcnt
            P == 1..n \cup {NoWorld}
            n1 == IF prev[w] = NoWorld THEN next ELSE Set(next, prev[w], worldList)
            p2 == IF n1[w] = NoWorld THEN prev ELSE Set(prev, n1[w], worldList)
            p3 == IF n1[worldList] = NoWorld THEN p2 ELSE Set(p2, n1[worldList], w)
            p4 == Set(p3, worldList, p3[w])
            n5 == Set(n1, worldList, n1[w])
            n6 == Set(n5, w, n1[worldList])
            p7 == Set(p4, w, NoWorld)
<1>1. /\ n \in World /\ w \in P /\ worldList \in P /\ w \in World /\ worldList \in World
      /\ NoWorld \in P /\ next \in Pointers(n) /\ prev \in Pointers(n)
  BY Constants DEF Typed, TypeOK
<1>2. CASE w = worldList
  BY <1>1, <1>2 DEF Swap
<1>3. CASE w # worldList
  <2>0. next' = n6 /\ prev' = p7
    BY <1>3 DEF Swap
  <2>1. prev[w] \in P
    BY <1>1, Follow
  <2>2. n1 \in Pointers(n)
    BY <1>1, <2>1, SetPointer
  <2>. HIDE DEF n1, n, P
  <2>3. n1[w] \in P /\ n1[worldList] \in P
    BY <1>1, <2>2, Follow DEF P
  <2>4. p2 \in Pointers(n)
    BY <1>1, <2>3, SetPointer DEF P
  <2>. HIDE DEF p2
  <2>5. p3 \in Pointers(n)
    BY <1>1, <2>3, <2>4, SetPointer DEF P
  <2>. HIDE DEF p3
  <2>6. p3[w] \in P
    BY <1>1, <2>5, Follow DEF P
  <2>7. p4 \in Pointers(n)
    BY <1>1, <2>5, <2>6, SetPointer DEF P
  <2>8. n5 \in Pointers(n)
    BY <1>1, <2>2, <2>3, SetPointer DEF P
  <2>. HIDE DEF p4, n5
  <2>9. p7 \in Pointers(n)
    BY <1>1, <2>7, SetPointer DEF P
  <2>10. n6 \in Pointers(n)
    BY <1>1, <2>3, <2>8, SetPointer DEF P
  <2> QED
    BY <2>0, <2>9, <2>10 DEF n
<1> QED
  BY <1>2, <1>3

\* World::enter: of a world in memory, of a new one, or of a bad one
Enters(u) == EnterKnown(u) \/ EnterNew(u) \/ EnterBad(u)

LEMMA Entering ==
  ASSUME Inv, NEW u \in Url \cup {NoUrl}, Enters(u)
  PROVE  /\ worldcnt' \in World /\ worldList' \in 1..worldcnt' /\ astray' \in BOOLEAN
         /\ next' \in Pointers(worldcnt') /\ prev' \in Pointers(worldcnt')
         /\ url' \in [World -> Url \cup {NoUrl}]
         /\ state' \in [World -> States] /\ OnlyCurrentRuns'
<1>0. /\ worldcnt \in World /\ worldList \in 1..worldcnt /\ worldList \in World
      /\ worldcnt \in Nat /\ 1..worldcnt \subseteq World
      /\ Typed /\ url \in [World -> Url \cup {NoUrl}] /\ astray \in BOOLEAN
      /\ state \in [World -> States] /\ OnlyCurrentRuns
  BY Constants DEF Inv, Typed, TypeOK, States
<1>1. CASE EnterKnown(u)
  <2>1. PICK w \in 1..worldcnt : w = WorldByUrl(u)
    BY <1>0, <1>1, Found DEF EnterKnown
  <2>2. /\ worldList' = w /\ Swap(w) /\ state' = Left(w)
        /\ url' = url /\ worldcnt' = worldcnt /\ astray' \in BOOLEAN
    BY <1>0, <1>1, <2>1 DEF EnterKnown
  <2>3. next' \in Pointers(worldcnt') /\ prev' \in Pointers(worldcnt')
    BY <1>0, <2>2, Swapping
  <2>4. state' \in [World -> States] /\ OnlyCurrentRuns'
    BY <1>0, <2>2, Leaving
  <2> QED
    BY <1>0, <2>1, <2>2, <2>3, <2>4
<1>2. CASE EnterNew(u) \/ EnterBad(u)
  <2>0. Add(u) /\ (\/ state' = Left(worldcnt + 1)
                   \/ state' = Set(Left(worldcnt + 1), worldcnt + 1, "LOADING"))
    BY <1>2 DEF EnterNew, EnterBad
  <2>1. PICK n \in World : n = worldcnt + 1
    BY <1>0, <2>0, Constants DEF Add
  <2>2. /\ worldList' = n /\ worldcnt' = n /\ astray' = astray
        /\ next' = Set(next, n, worldList) /\ prev' = Set(prev, worldList, n)
        /\ url' = Set(url, n, u)
        /\ state' = Left(n) \/ state' = Set(Left(n), n, "LOADING")
    BY <2>0, <2>1 DEF Add
  <2>3. n \in 1..n /\ worldList \in 1..n
    BY <1>0, <2>1, Constants
  <2>4. next \in Pointers(n) /\ prev \in Pointers(n)
    <3>1. \A x \in World : x <= worldcnt => x <= n
      BY <1>0, <2>1, Constants
    <3> QED
      BY <1>0, <3>1, Constants DEF Typed, Pointers
  <2>5. next' \in Pointers(worldcnt') /\ prev' \in Pointers(worldcnt')
    BY <2>2, <2>3, <2>4, SetPointer
  <2>6. state' \in [World -> States] /\ OnlyCurrentRuns'
    BY <1>0, <2>2, Leaving
  <2>7. url' \in [World -> Url \cup {NoUrl}]
    BY <1>0, <2>2 DEF Set
  <2> QED
    BY <1>0, <2>2, <2>3, <2>5, <2>6, <2>7
<1> QED
  BY <1>1, <1>2 DEF Enters

\* The other variables after a world is entered
LEMMA Entered ==
  ASSUME Inv, NEW u \in Url \cup {NoUrl}, Trip, failures' \in 0..MaxFailures,
         Enters(u),
         chan' \in [World -> Channel \cup {NoChannel}],
         islinked' \in [World -> BOOLEAN], channel' \in Channel \cup {NoChannel, NoSession}
  PROVE  Inv'
<1>1. /\ worldcnt' \in World /\ worldList' \in 1..worldcnt' /\ astray' \in BOOLEAN
      /\ next' \in Pointers(worldcnt') /\ prev' \in Pointers(worldcnt')
      /\ url' \in [World -> Url \cup {NoUrl}]
      /\ state' \in [World -> States] /\ OnlyCurrentRuns'
  BY Entering
<1>2. trips' \in 0..MaxTrips
  BY WorldsAssumption DEF Trip, Inv, Typed, TypeOK
<1>3. TypeOK'
  BY <1>1, <1>2 DEF TypeOK, Pointers, States
<1> QED
  BY <1>1, <1>3 DEF Inv, Typed

LEMMA InvGate ==
  ASSUME Inv, NEW u \in Url \cup {NoUrl}, NEW c \in GateChannels(u), NEW joined \in BOOLEAN,
         Gate(u, c, joined)
  PROVE  Inv'
<1>1. /\ Trip /\ failures' \in 0..MaxFailures /\ islinked' = islinked
      /\ Enters(u) /\ channel' = Joined(c, joined)
  BY Failing DEF Gate, Enters, Inv, Typed
<1>2. /\ chan \in [World -> Channel \cup {NoChannel}] /\ islinked \in [World -> BOOLEAN]
      /\ c \in Channel
  BY WorldsAssumption DEF Inv, Typed, TypeOK, GateChannels
<1>3. channel' \in Channel \cup {NoChannel, NoSession}
  BY <1>1, <1>2, Joining
<1>4. chan' \in [World -> Channel \cup {NoChannel}]
  BY <1>2 DEF Gate, Set
<1> QED
  BY <1>1, <1>2, <1>3, <1>4, Entered

LEMMA InvGoto ==
  ASSUME Inv, NEW u \in Url, NEW c \in Channel, NEW joined \in BOOLEAN, Goto(u, c, joined)
  PROVE  Inv'
<1>1. /\ Trip /\ failures' \in 0..MaxFailures /\ islinked' = islinked
      /\ Enters(u) /\ channel' = Joined(c, joined) /\ chan' = Set(chan, worldList', c)
  BY Failing DEF Goto, Enters, Inv, Typed
<1>2. chan \in [World -> Channel \cup {NoChannel}] /\ islinked \in [World -> BOOLEAN]
  BY DEF Inv, Typed, TypeOK
<1>3. channel' \in Channel \cup {NoChannel, NoSession}
  BY <1>1, Joining
<1>4. chan' \in [World -> Channel \cup {NoChannel}]
  BY <1>1, <1>2 DEF Set
<1> QED
  BY <1>1, <1>2, <1>3, <1>4, Entered

LEMMA InvLink ==
  ASSUME Inv, NEW u \in Url \cup {NoUrl}, Link(u)
  PROVE  Inv'
<1>1. /\ Trip /\ failures' = failures /\ chan' = chan /\ channel' = channel
      /\ Enters(u) /\ islinked' = Set(islinked, worldList', TRUE)
  BY DEF Link, Enters
<1>2. /\ chan \in [World -> Channel \cup {NoChannel}] /\ islinked \in [World -> BOOLEAN]
      /\ channel \in Channel \cup {NoChannel, NoSession} /\ failures \in 0..MaxFailures
  BY DEF Inv, Typed, TypeOK
<1>3. islinked' \in [World -> BOOLEAN]
  BY <1>1, <1>2 DEF Set
<1> QED
  BY <1>1, <1>2, <1>3, Entered

\* World::call on a world of the list
LEMMA Calling ==
  ASSUME Inv, Trip, NEW w \in 1..worldcnt, NEW joined \in BOOLEAN,
         Call(w, joined), worldList' = w,
         next' \in Pointers(worldcnt), prev' \in Pointers(worldcnt)
  PROVE  Inv'
<1>0. /\ Typed /\ TypeOK /\ w \in World /\ worldList \in World
      /\ state \in [World -> States] /\ OnlyCurrentRuns
      /\ chan \in [World -> Channel \cup {NoChannel}] /\ chan[w] \in Channel \cup {NoChannel}
  BY Constants DEF Inv, Typed, TypeOK, States
<1>1. /\ failures' \in 0..MaxFailures /\ state' = Left(w)
      /\ UNCHANGED <<url, islinked, worldcnt, astray>>
  BY <1>0, Failing DEF Call
<1>2. state' \in [World -> States] /\ OnlyCurrentRuns'
  BY <1>0, <1>1, Leaving
<1>3. trips' \in 0..MaxTrips
  BY <1>0, WorldsAssumption DEF Trip, TypeOK
<1>4. /\ channel' \in Channel \cup {NoChannel, NoSession}
      /\ chan' \in [World -> Channel \cup {NoChannel}]
  <2>1. CASE islinked[worldList]
    BY <1>0, <2>1 DEF Call, Set, TypeOK
  <2>2. CASE ~islinked[worldList]
    <3>1. chan' = chan /\ channel' = Joined(chan[w], joined)
      BY <2>2 DEF Call
    <3> QED
      BY <1>0, <3>1, Joining
  <2> QED
    BY <2>1, <2>2
<1>5. TypeOK'
  BY <1>0, <1>1, <1>2, <1>3, <1>4 DEF TypeOK, Pointers, States
<1> QED
  BY <1>0, <1>1, <1>2, <1>5 DEF Inv, Typed

LEMMA InvGoBack ==
  ASSUME Inv, NEW joined \in BOOLEAN, GoBack(joined)
  PROVE  Inv'
<1>. DEFINE n == worldcnt
            w == next[worldList]
            l == LastFrom(w)
<1>0. /\ Typed /\ n \in World /\ worldList \in 1..n /\ worldList \in World
      /\ next \in Pointers(n) /\ prev \in Pointers(n) /\ next[worldList] # NoWorld
  BY Constants DEF Inv, Typed, TypeOK, GoBack
<1>1. w \in 1..n
  BY <1>0, Follow
<1>2. l \in 1..n \cup {NoWorld}
  <2>. DEFINE walk == Walk(w)
              stops == {k \in 0..LoopMax :
                    \/ k = LoopMax
                    \/ walk[k] # NoWorld /\ next[walk[k]] \in {NoWorld, walk[k]}}
  <2>1. l = walk[Min(stops)]
    BY DEF LastFrom
  <2>2. \A k \in 0..LoopMax : walk[k] \in 1..n \cup {NoWorld}
    BY <1>0, <1>1, WalkCreated
  <2>3. stops \in SUBSET Nat /\ stops # {} /\ stops \subseteq 0..LoopMax
    BY Constants
  <2>. HIDE DEF stops, walk
  <2>4. Min(stops) \in 0..LoopMax
    BY <2>3, LeastNat
  <2> QED
    BY <2>1, <2>2, <2>4
<1>3. /\ next' = Set(Set(next, l, worldList), worldList, NoWorld)
      /\ prev' = Set(Set(prev, w, NoWorld), worldList, w)
      /\ worldList' = w /\ Call(w, joined) /\ Trip
  BY DEF GoBack
<1>. HIDE DEF w, l
<1>4. Set(next, l, worldList) \in Pointers(n) /\ Set(prev, w, NoWorld) \in Pointers(n)
  BY <1>0, <1>1, <1>2, SetPointer
<1>5. next' \in Pointers(n) /\ prev' \in Pointers(n)
  BY <1>0, <1>1, <1>3, <1>4, SetPointer
<1> QED
  BY <1>1, <1>3, <1>5, Calling

LEMMA InvGoForward ==
  ASSUME Inv, NEW joined \in BOOLEAN, GoForward(joined)
  PROVE  Inv'
<1>. DEFINE n == worldcnt
            l == LastButOne
            w == next[l]
<1>0. /\ Typed /\ n \in World /\ worldList \in 1..n /\ next[worldList] # NoWorld
      /\ next \in Pointers(n) /\ prev \in Pointers(n)
  BY DEF Inv, Typed, TypeOK, GoForward
<1>1. l \in 1..n /\ w \in 1..n
  BY <1>0, ForwardStops
<1>2. /\ next' = Set(Set(next, w, worldList), l, NoWorld)
      /\ prev' = Set(Set(prev, w, NoWorld), worldList, w)
      /\ worldList' = w /\ Call(w, joined) /\ Trip
  BY DEF GoForward
<1>. HIDE DEF w, l
<1>3. Set(next, w, worldList) \in Pointers(n) /\ Set(prev, w, NoWorld) \in Pointers(n)
  BY <1>0, <1>1, SetPointer
<1>4. next' \in Pointers(n) /\ prev' \in Pointers(n)
  BY <1>0, <1>1, <1>2, <1>3, SetPointer
<1> QED
  BY <1>1, <1>2, <1>4, Calling

LEMMA InvSandbox ==
  ASSUME Inv, Sandbox
  PROVE  Inv'
<1>0. /\ Typed /\ TypeOK /\ worldList \in World /\ state \in [World -> States]
      /\ OnlyCurrentRuns
  BY Constants DEF Inv, Typed, TypeOK, States
<1>1. /\ state' = Left(worldList) /\ channel' = NoChannel
      /\ UNCHANGED <<worldList, next, prev, worldcnt, astray, url, chan, islinked, failures>>
  BY DEF Sandbox, list
<1>2. state' \in [World -> States] /\ OnlyCurrentRuns'
  BY <1>0, <1>1, Leaving
<1>3. trips' \in 0..MaxTrips
  BY <1>0, WorldsAssumption DEF Trip, TypeOK, Sandbox
<1>4. TypeOK'
  BY <1>0, <1>1, <1>2, <1>3 DEF TypeOK, States
<1> QED
  BY <1>0, <1>1, <1>2, <1>4 DEF Inv, Typed

LEMMA InvCompute ==
  ASSUME Inv, Compute
  PROVE  Inv'
<1>1. /\ state' = Set(state, worldList, "SIMULATION")
      /\ UNCHANGED <<worldList, next, prev, worldcnt, astray, url, chan, islinked,
                     channel, trips, failures>>
  BY DEF Compute, list
<1>2. state' \in [World -> States] /\ OnlyCurrentRuns'
  BY <1>1 DEF Inv, Typed, TypeOK, Set, OnlyCurrentRuns, States
<1>3. TypeOK'
  BY <1>1, <1>2 DEF Inv, Typed, TypeOK, States
<1> QED
  BY <1>1, <1>2, <1>3 DEF Inv, Typed

\* The invariant is inductive
LEMMA InvNext == Inv /\ [Next]_vars => Inv'
<1>1. ASSUME Inv, Next PROVE Inv'
  BY <1>1, WorldsAssumption, InvGate, InvGoto, InvLink, InvGoBack, InvGoForward, InvSandbox, InvCompute
  DEF Next
<1>2. ASSUME Inv, UNCHANGED vars PROVE Inv'
  BY <1>2 DEF vars, Inv, Typed, TypeOK, OnlyCurrentRuns
<1> QED
  BY <1>1, <1>2

\* The inductive invariant of the worlds: pointers lead to worlds created, also on
\* broken lists, and the current world alone runs
THEOREM WorldsInvariant == Spec => []Inv
<1> QED
  BY InvInit, InvNext, PTL DEF Spec

(***************************************************************************)
(* Fields and pointers stay in range on broken lists too: goBack and       *)
(* goForward follow no null pointer.                                       *)
(***************************************************************************)
THEOREM WorldsTyped == Spec => []TypeOK
<1>1. Inv => TypeOK
  BY DEF Inv, Typed
<1> QED
  BY <1>1, WorldsInvariant, PTL

(***************************************************************************)
(* A world that is not the current one is stopped, for any number of       *)
(* worlds and whatever channels fail (World::quit, World::enter).          *)
(***************************************************************************)
THEOREM OnlyCurrentRunsTheorem == Spec => []OnlyCurrentRuns
<1>1. Inv => OnlyCurrentRuns
  BY DEF Inv
<1> QED
  BY <1>1, WorldsInvariant, PTL

-----------------------------------------------------------------------------
(* The list is a trail: Worlds implements Trail. *)

\* A sequence over S has its elements in S
LEMMA ElementOfSeq ==
  ASSUME NEW S, NEW s \in Seq(S), NEW i \in 1..Len(s)
  PROVE  s[i] \in S
OBVIOUS

(***************************************************************************)
(* The pointers nx of the first c worlds lead along s, which holds no      *)
(* world twice, and end there.                                             *)
(***************************************************************************)
Chain(nx, c, s) ==
    /\ s \in Seq(1..c) /\ Len(s) \in 1..c
    /\ \A i, j \in 1..Len(s) : s[i] = s[j] => i = j
    /\ \A i \in 1..(Len(s) - 1) : nx[s[i]] = s[i + 1]
    /\ nx[s[Len(s)]] = NoWorld

Path(s) == Chain(next, worldcnt, s) /\ s[1] = worldList

\* The worlds visited, as the refinement sees them
Visited == [k \in 1..Cardinality(Listed) |-> Walk(worldList)[k - 1]]

\* The least element of a set of naturals
LEMMA MinIs ==
  ASSUME NEW T \in SUBSET Nat, NEW m \in T, \A y \in T : m <= y
  PROVE  Min(T) = m
<1>1. Min(T) \in T /\ \A y \in T : Min(T) <= y
  BY LeastNat
<1>2. Min(T) <= m /\ m <= Min(T) /\ Min(T) \in Nat /\ m \in Nat
  BY <1>1
<1> QED
  BY <1>2

\* What a chain is made of
LEMMA ChainWorlds ==
  ASSUME NEW nx, NEW c \in World, NEW s, Chain(nx, c, s)
  PROVE  /\ Len(s) \in Nat /\ 0 < Len(s) /\ Len(s) <= c /\ Len(s) < LoopMax /\ c \in Nat
         /\ \A i \in 1..Len(s) : s[i] \in 1..c /\ s[i] \in World /\ s[i] # NoWorld
<1>1. c \in Nat /\ c <= MaxWorlds /\ 1..c \subseteq World /\ NoWorld \notin World
      /\ MaxWorlds < LoopMax /\ MaxWorlds \in Nat /\ LoopMax \in Nat
  BY Constants
<1>2. s \in Seq(1..c) /\ Len(s) \in 1..c
  BY DEF Chain
<1>3. ASSUME NEW i \in 1..Len(s) PROVE s[i] \in 1..c
  BY <1>2, ElementOfSeq
<1> QED
  BY <1>1, <1>2, <1>3

\* Walking from one of its worlds goes along the chain
LEMMA ChainWalk ==
  ASSUME Typed, NEW s, Chain(next, worldcnt, s), NEW j \in 1..Len(s)
  PROVE  \A k \in 0..LoopMax :
            Walk(s[j])[k] = IF j + k <= Len(s) THEN s[j + k] ELSE NoWorld
<1>. DEFINE n == Len(s)
            walk == Walk(s[j])
            S == {k \in Nat : walk[k] = IF j + k <= n THEN s[j + k] ELSE NoWorld}
<1>0. /\ worldcnt \in World /\ n \in Nat /\ LoopMax \in Nat
      /\ \A i \in 1..n : s[i] \in World /\ s[i] # NoWorld
  BY ChainWorlds, Constants, ZenonT(30) DEF Typed, TypeOK
<1>1. 0 \in S
  BY <1>0, WalkSteps
<1>2. ASSUME NEW k \in 0..(LoopMax - 1), k \in S PROVE k + 1 \in S
  <2>1. walk[k + 1] = After(walk[k]) /\ k + 1 \in Nat /\ k \in Nat
    BY <1>0, WalkSteps
  <2>2. walk[k] = IF j + k <= n THEN s[j + k] ELSE NoWorld
    BY <1>2
  <2>. HIDE DEF walk
  <2>3. CASE j + k > n
    <3>1. walk[k] = NoWorld /\ ~(j + (k + 1) <= n)
      BY <1>0, <2>1, <2>2, <2>3
    <3>2. walk[k + 1] = NoWorld
      BY <2>1, <3>1 DEF After
    <3> QED
      BY <2>1, <3>1, <3>2
  <2>4. CASE j + k = n
    <3>1. walk[k] = s[n] /\ ~(j + (k + 1) <= n) /\ n \in 1..n
      BY <1>0, <2>1, <2>2, <2>4
    <3>2. walk[k + 1] = NoWorld
      BY <1>0, <2>1, <3>1 DEF After, Chain
    <3> QED
      BY <2>1, <3>1, <3>2
  <2>5. CASE j + k < n
    <3>1. /\ walk[k] = s[j + k] /\ j + (k + 1) <= n /\ (j + k) + 1 = j + (k + 1)
          /\ j + k \in 1..n /\ j + k \in 1..(n - 1)
      BY <1>0, <2>1, <2>2, <2>5
    <3>2. walk[k + 1] = s[j + (k + 1)]
      BY <1>0, <2>1, <3>1 DEF After, Chain
    <3> QED
      BY <2>1, <3>1, <3>2
  <2> QED
    BY <1>0, <2>1, <2>3, <2>4, <2>5
<1>. HIDE DEF S
<1>3. 0..LoopMax \subseteq S
  BY <1>0, <1>1, <1>2, UpTo
<1> QED
  BY <1>3 DEF S

\* The worlds of the list, walked from the current one, are the chain
LEMMA PathVisited ==
  ASSUME Typed, NEW s, Path(s)
  PROVE  Visited = s /\ Listed = {s[i] : i \in 1..Len(s)}
<1>. DEFINE n == Len(s)
            walk == Walk(worldList)
            all == {s[i] : i \in 1..n}
<1>0. /\ worldcnt \in World /\ n \in Nat /\ 0 < n /\ n < LoopMax /\ LoopMax \in Nat
      /\ \A i \in 1..n : s[i] \in World /\ s[i] # NoWorld
      /\ 1 \in 1..n
  <2>1. worldcnt \in World /\ Chain(next, worldcnt, s) /\ LoopMax \in Nat
    BY Constants DEF Path, Typed, TypeOK
  <2>2. /\ n \in Nat /\ 0 < n /\ n < LoopMax
        /\ \A i \in 1..n : s[i] \in World /\ s[i] # NoWorld
    BY <2>1, ChainWorlds
  <2> QED
    BY <2>1, <2>2
<1>1. \A k \in 0..LoopMax : walk[k] = IF 1 + k <= n THEN s[1 + k] ELSE NoWorld
  BY <1>0, ChainWalk DEF Path
<1>. HIDE DEF walk
<1>2. \A i \in 1..n : i - 1 \in 0..LoopMax /\ walk[i - 1] = s[i]
  <2>. SUFFICES ASSUME NEW i \in 1..n PROVE i - 1 \in 0..LoopMax /\ walk[i - 1] = s[i]
    OBVIOUS
  <2>1. i - 1 \in 0..LoopMax /\ 1 + (i - 1) = i /\ i <= n
    BY <1>0
  <2> QED
    BY <1>1, <2>1
<1>3. Listed = {walk[k] : k \in 0..LoopMax} \ {NoWorld}
  BY DEF Listed, walk
<1>4. Listed = all
  <2>1. ASSUME NEW x \in Listed PROVE x \in all
    <3>1. PICK k \in 0..LoopMax : x = walk[k] /\ x # NoWorld
      BY <1>3
    <3>2. 1 + k \in 1..n /\ x = s[1 + k]
      BY <1>0, <1>1, <3>1
    <3> QED
      BY <3>2
  <2>2. ASSUME NEW i \in 1..n PROVE s[i] \in Listed
    BY <1>0, <1>2, <1>3
  <2> QED
    BY <2>1, <2>2
<1>5. Cardinality(Listed) = n
  <2>1. s \in [1..n -> all] /\ \A i, j \in 1..n : s[i] = s[j] => i = j
    BY DEF Path, Chain
  <2>2. s \in Bijection(1..n, all)
    BY <2>1 DEF Bijection, Injection, Surjection, IsInjective
  <2>3. IsFiniteSet(1..n) /\ Cardinality(1..n) = n
    <3>1. 1 \in Int /\ n \in Int
      BY <1>0
    <3>2. IsFiniteSet(1..n) /\ Cardinality(1..n) = IF 1 > n THEN 0 ELSE n - 1 + 1
      BY <3>1, FS_Interval
    <3> QED
      BY <1>0, <3>2
  <2>. HIDE DEF all
  <2>4. Cardinality(all) = Cardinality(1..n)
    <3>1. ExistsBijection(1..n, all)
      BY <2>2 DEF ExistsBijection
    <3> QED
      BY <2>3, <3>1, FS_Bijection
  <2> QED
    BY <1>4, <2>3, <2>4
<1>6. Visited = [i \in 1..n |-> s[i]]
  <2>1. Visited = [k \in 1..n |-> walk[k - 1]]
    BY <1>5 DEF Visited, walk
  <2> QED
    BY <1>2, <2>1
<1>7. s = [i \in 1..n |-> s[i]]
  BY <1>0 DEF Path, Chain
<1> QED
  BY <1>4, <1>6, <1>7
-----------------------------------------------------------------------------
(* What the operations on the list make of a chain. *)

\* A sequence with these worlds, one by one
LEMMA ChainOf ==
  ASSUME NEW nx, NEW c \in World, NEW n \in 1..c, NEW s \in [1..n -> 1..c],
         \A i, j \in 1..n : s[i] = s[j] => i = j,
         \A i \in 1..(n - 1) : nx[s[i]] = s[i + 1],
         nx[s[n]] = NoWorld
  PROVE  Chain(nx, c, s) /\ Len(s) = n
<1>1. n \in Nat /\ c \in Nat
  BY Constants
<1>2. s \in Seq(1..c) /\ Len(s) = n
  BY <1>1
<1> QED
  BY <1>2 DEF Chain

\* addToList
LEMMA ChainNew ==
  ASSUME NEW nx \in [World -> World \cup {NoWorld}], NEW c \in World, NEW s, Chain(nx, c, s),
         c + 1 \in World
  PROVE  Chain(Set(nx, c + 1, s[1]), c + 1, <<c + 1>> \o s)
<1>. DEFINE n == Len(s)
            m == n + 1
            t == <<c + 1>> \o s
            nx2 == Set(nx, c + 1, s[1])
<1>1. /\ n \in Nat /\ 0 < n /\ n <= c /\ c \in Nat
      /\ \A i \in 1..n : s[i] \in 1..c /\ s[i] \in World /\ s[i] # NoWorld
  BY ChainWorlds
<1>2. s \in Seq(1..(c + 1)) /\ c + 1 \in 1..(c + 1)
  <2>1. s \in [1..n -> 1..(c + 1)]
    BY <1>1 DEF Chain
  <2> QED
    BY <1>1, <2>1
<1>3. /\ Len(t) = m /\ t[1] = c + 1 /\ t \in [1..m -> 1..(c + 1)]
      /\ \A i \in 1..m : i # 1 => i - 1 \in 1..n /\ t[i] = s[i - 1]
  <2>1. <<c + 1>> \in Seq(1..(c + 1)) /\ Len(<<c + 1>>) = 1 /\ <<c + 1>>[1] = c + 1
    BY <1>2
  <2>2. t \in Seq(1..(c + 1)) /\ Len(t) = m /\ t[1] = c + 1
    BY <1>1, <1>2, <2>1
  <2>3. ASSUME NEW i \in 1..m, i # 1 PROVE i - 1 \in 1..n /\ t[i] = s[i - 1]
    <3>1. i - 1 \in 1..n
      BY <1>1, <2>3
    <3> QED
      BY <1>1, <1>2, <2>1, <2>3, <3>1
  <2>. HIDE DEF t, m
  <2>4. t \in [1..m -> 1..(c + 1)]
    BY <2>2
  <2> QED
    BY <2>2, <2>3, <2>4
<1>4. nx2[c + 1] = s[1] /\ \A v \in 1..c : nx2[v] = nx[v]
  BY <1>1, Constants DEF Set
<1>. HIDE DEF t, nx2
<1>5. ASSUME NEW i \in 1..m, NEW j \in 1..m, t[i] = t[j] PROVE i = j
  <2>1. CASE i = 1 \/ j = 1
    <3>1. \A l \in 1..m : l # 1 => t[l] \in 1..c
      BY <1>1, <1>3
    <3>2. c + 1 \notin 1..c
      BY <1>1
    <3> QED
      BY <1>3, <1>5, <2>1, <3>1, <3>2
  <2>2. CASE i # 1 /\ j # 1
    <3>1. i - 1 = j - 1
      BY <1>3, <1>5, <2>2 DEF Chain
    <3> QED
      BY <3>1
  <2> QED
    BY <2>1, <2>2
<1>6. ASSUME NEW i \in 1..(m - 1) PROVE nx2[t[i]] = t[i + 1]
  <2>1. i \in 1..m /\ i + 1 \in 1..m /\ i + 1 # 1 /\ (i + 1) - 1 = i /\ i \in 1..n
    BY <1>1
  <2>2. t[i + 1] = s[i]
    BY <1>3, <2>1
  <2>3. CASE i = 1
    BY <1>3, <1>4, <2>2, <2>3
  <2>4. CASE i # 1
    <3>1. t[i] = s[i - 1] /\ i - 1 \in 1..(n - 1) /\ (i - 1) + 1 = i /\ i - 1 \in 1..n
      BY <1>1, <1>3, <2>1, <2>4
    <3>2. nx[s[i - 1]] = s[i]
      BY <3>1 DEF Chain
    <3> QED
      BY <1>1, <1>4, <2>2, <3>1, <3>2
  <2> QED
    BY <2>3, <2>4
<1>7. nx2[t[m]] = NoWorld
  <2>1. m \in 1..m /\ m # 1 /\ m - 1 = n /\ n \in 1..n
    BY <1>1
  <2>2. t[m] = s[n] /\ nx[s[n]] = NoWorld
    BY <1>3, <2>1 DEF Chain
  <2> QED
    BY <1>1, <1>4, <2>1, <2>2
<1>8. m \in 1..(c + 1)
  BY <1>1
<1>. HIDE DEF m
<1>9. Chain(nx2, c + 1, t)
  BY <1>3, <1>5, <1>6, <1>7, <1>8, ChainOf
<1> QED
  BY <1>9 DEF t, nx2

\* swap of the current world and the k-th
LEMMA ChainExchange ==
  ASSUME NEW nx \in [World -> World \cup {NoWorld}], NEW c \in World, NEW s, Chain(nx, c, s),
         NEW k \in 2..Len(s), NEW n1, n1 = Set(nx, s[k - 1], s[1])
  PROVE  Chain(Set(Set(n1, s[1], n1[s[k]]), s[k], n1[s[1]]), c,
               [s EXCEPT ![1] = s[k], ![k] = s[1]])
<1>. DEFINE n == Len(s)
            t == [s EXCEPT ![1] = s[k], ![k] = s[1]]
            n6 == Set(Set(n1, s[1], n1[s[k]]), s[k], n1[s[1]])
<1>1. /\ n \in Nat /\ 1 < n /\ n <= c /\ c \in Nat /\ k \in 1..n /\ 1 \in 1..n /\ n \in 1..c
      /\ k - 1 \in 1..n /\ k # 1 /\ k - 1 # k
      /\ \A i \in 1..n : s[i] \in 1..c /\ s[i] \in World /\ s[i] # NoWorld
  <2>1. /\ n \in Nat /\ n <= c /\ c \in Nat
        /\ \A i \in 1..n : s[i] \in 1..c /\ s[i] \in World /\ s[i] # NoWorld
    BY ChainWorlds
  <2> QED
    BY <2>1
<1>2. /\ s \in [1..n -> 1..c] /\ \A i, j \in 1..n : s[i] = s[j] => i = j
      /\ \A i \in 1..(n - 1) : nx[s[i]] = s[i + 1]
      /\ nx[s[n]] = NoWorld
  BY SMTT(30) DEF Chain
<1>3. t \in [1..n -> 1..c]
  BY <1>1, <1>2
<1>4. t[1] = s[k] /\ t[k] = s[1] /\ \A i \in 1..n : i # 1 /\ i # k => t[i] = s[i]
  BY <1>1, <1>2
<1>5. n1[s[k - 1]] = s[1] /\ \A v \in World : v # s[k - 1] => n1[v] = nx[v]
  BY <1>1 DEF Set
<1>6. s[k] # s[k - 1] /\ s[k] # s[1]
  BY <1>1, <1>2
<1>7. n6[s[k]] = n1[s[1]] /\ n6[s[1]] = nx[s[k]]
  BY <1>1, <1>5, <1>6 DEF Set
<1>8. \A v \in World : v # s[1] /\ v # s[k] => n6[v] = n1[v]
  BY <1>1 DEF Set
<1>. HIDE DEF t, n6
<1>9. ASSUME NEW i \in 1..n, NEW j \in 1..n, t[i] = t[j] PROVE i = j
  BY <1>1, <1>2, <1>4, <1>9
<1>10. ASSUME NEW i \in 1..(n - 1) PROVE n6[t[i]] = t[i + 1]
  <2>1. i \in 1..n /\ i + 1 \in 1..n /\ i + 1 # 1 /\ i + 1 # i
    BY <1>1
  <2>2. CASE i = 1
    <3>1. n6[t[i]] = n1[s[1]]
      BY <1>4, <1>7, <2>2
    <3>2. CASE k = 2
      <4>1. k - 1 = 1 /\ i + 1 = k
        BY <2>2, <3>2
      <4> QED
        BY <1>4, <1>5, <3>1, <4>1
    <3>3. CASE k # 2
      <4>1. k - 1 # 1 /\ i + 1 # k /\ i + 1 = 2
        BY <1>1, <2>2, <3>3
      <4>2. s[1] # s[k - 1]
        BY <1>1, <1>2, <4>1
      <4>3. n1[s[1]] = s[2]
        BY <1>1, <1>2, <1>5, <2>2, <4>1, <4>2
      <4> QED
        BY <1>4, <2>1, <3>1, <4>1, <4>3
    <3> QED
      BY <3>2, <3>3
  <2>3. CASE i = k
    <3>1. n6[t[i]] = nx[s[k]] /\ nx[s[k]] = s[i + 1]
      BY <1>2, <1>4, <1>7, <2>3
    <3> QED
      BY <1>4, <2>1, <2>3, <3>1
  <2>4. CASE i # 1 /\ i # k
    <3>1. t[i] = s[i] /\ s[i] # s[1] /\ s[i] # s[k]
      BY <1>1, <1>2, <1>4, <2>1, <2>4
    <3>2. n6[t[i]] = n1[s[i]]
      BY <1>1, <1>8, <2>1, <3>1
    <3>3. CASE i = k - 1
      <4>1. i + 1 = k
        BY <1>1, <3>3
      <4> QED
        BY <1>4, <1>5, <3>2, <3>3, <4>1
    <3>4. CASE i # k - 1
      <4>1. i + 1 # k
        BY <1>1, <3>4
      <4>2. s[i] # s[k - 1]
        BY <1>1, <1>2, <2>1, <3>4
      <4>3. n1[s[i]] = s[i + 1]
        BY <1>1, <1>2, <1>5, <2>1, <4>2
      <4> QED
        BY <1>4, <2>1, <3>2, <4>1, <4>3
    <3> QED
      BY <3>3, <3>4
  <2> QED
    BY <2>2, <2>3, <2>4
<1>11. n6[t[n]] = NoWorld
  <2>1. n \in 1..n /\ n # 1
    BY <1>1
  <2>2. CASE n = k
    BY <1>2, <1>4, <1>7, <2>2
  <2>3. CASE n # k
    <3>0. n # k - 1
      BY <1>1
    <3>1. t[n] = s[n] /\ s[n] # s[1] /\ s[n] # s[k] /\ n # k - 1
      BY <1>1, <1>2, <1>4, <2>1, <2>3, <3>0
    <3>2. s[n] # s[k - 1]
      BY <1>1, <1>2, <2>1, <3>1
    <3> QED
      BY <1>1, <1>2, <1>5, <1>8, <2>1, <3>1, <3>2
  <2> QED
    BY <2>2, <2>3
<1>12. Chain(n6, c, t)
  BY <1>1, <1>3, <1>9, <1>10, <1>11, ChainOf
<1> QED
  BY <1>12 DEF t, n6

\* A sequence of at least two worlds, turned
LEMMA Turned ==
  ASSUME NEW S, NEW s \in Seq(S), Len(s) > 1
  PROVE  /\ Append(Tail(s), Head(s)) =
               [i \in 1..Len(s) |-> IF i = Len(s) THEN s[1] ELSE s[i + 1]]
         /\ <<Last(s)>> \o Front(s) =
               [i \in 1..Len(s) |-> IF i = 1 THEN s[Len(s)] ELSE s[i - 1]]
<1>. DEFINE n == Len(s)
            b == Append(Tail(s), Head(s))
            f == <<Last(s)>> \o Front(s)
<1>0. n \in Nat /\ \A i \in 1..n : s[i] \in S
  OBVIOUS
<1>1. /\ Tail(s) \in Seq(S) /\ Len(Tail(s)) = n - 1
      /\ \A i \in 1..(n - 1) : Tail(s)[i] = s[i + 1]
  <2>1. s # << >>
    OBVIOUS
  <2>2. Tail(s) \in Seq(S) /\ Len(Tail(s)) = n - 1
    BY <2>1
  <2>3. ASSUME NEW i \in 1..(n - 1) PROVE Tail(s)[i] = s[i + 1]
    BY <1>0, <2>1
  <2> QED
    BY <2>2, <2>3
<1>2. Head(s) = s[1] /\ Head(s) \in S
  BY <1>0
<1>3. b \in Seq(S) /\ Len(b) = n /\ \A i \in 1..n : b[i] = IF i = n THEN s[1] ELSE s[i + 1]
  <2>. DEFINE h == Head(s)
              u == Tail(s)
  <2>1. h \in S /\ h = s[1] /\ u \in Seq(S) /\ Len(u) = n - 1 /\ b = Append(u, h)
    BY <1>1, <1>2
  <2>2. \A i \in 1..(n - 1) : u[i] = s[i + 1]
    BY <1>1
  <2>. HIDE DEF h, u, b
  <2>3. b \in Seq(S) /\ Len(b) = n
    BY <1>0, <2>1
  <2>4. ASSUME NEW i \in 1..n PROVE b[i] = IF i = n THEN s[1] ELSE s[i + 1]
    BY <1>0, <2>1, <2>2
  <2> QED
    BY <2>3, <2>4
<1>4. /\ Front(s) \in Seq(S) /\ Len(Front(s)) = n - 1
      /\ \A i \in 1..(n - 1) : Front(s)[i] = s[i]
  BY <1>0 DEF Front
<1>5. Last(s) = s[n] /\ Last(s) \in S
  BY <1>0 DEF Last
<1>6. f \in Seq(S) /\ Len(f) = n
  BY <1>0, <1>4, <1>5
<1>7. ASSUME NEW i \in 1..n PROVE f[i] = IF i = 1 THEN s[n] ELSE s[i - 1]
  <2>1. i # 1 => i - 1 \in 1..(n - 1)
    BY <1>0
  <2> QED
    BY <1>0, <1>4, <1>5, <2>1
<1>. HIDE DEF b, f, n
<1>8. b = [i \in 1..n |-> IF i = n THEN s[1] ELSE s[i + 1]]
  <2>1. b = [i \in 1..n |-> b[i]]
    BY <1>3
  <2> QED
    BY <1>3, <2>1
<1>9. f = [i \in 1..n |-> IF i = 1 THEN s[n] ELSE s[i - 1]]
  <2>1. f = [i \in 1..n |-> f[i]]
    BY <1>6
  <2> QED
    BY <1>7, <2>1
<1> QED
  BY <1>8, <1>9 DEF b, f, n

\* goBack
LEMMA ChainBack ==
  ASSUME NEW nx \in [World -> World \cup {NoWorld}], NEW c \in World, NEW s, Chain(nx, c, s),
         Len(s) > 1
  PROVE  /\ Chain(Set(Set(nx, s[Len(s)], s[1]), s[1], NoWorld), c, Append(Tail(s), Head(s)))
         /\ Append(Tail(s), Head(s))[1] = s[2]
<1>. DEFINE n == Len(s)
            t == Append(Tail(s), Head(s))
            nx2 == Set(Set(nx, s[n], s[1]), s[1], NoWorld)
<1>1. /\ n \in Nat /\ n \in 1..c /\ 1 \in 1..n /\ 2 \in 1..n /\ n \in 1..n /\ n # 1
      /\ \A i \in 1..n : s[i] \in 1..c /\ s[i] \in World /\ s[i] # NoWorld
  <2>1. /\ n \in Nat /\ n <= c /\ c \in Nat
        /\ \A i \in 1..n : s[i] \in 1..c /\ s[i] \in World /\ s[i] # NoWorld
    BY ChainWorlds
  <2> QED
    BY <2>1
<1>2. /\ s \in Seq(1..c) /\ \A i, j \in 1..n : s[i] = s[j] => i = j
      /\ \A i \in 1..(n - 1) : nx[s[i]] = s[i + 1]
      /\ nx[s[n]] = NoWorld
  BY DEF Chain
<1>3. t = [i \in 1..n |-> IF i = n THEN s[1] ELSE s[i + 1]]
  BY <1>2, Turned, ZenonT(30)
<1>4. s[1] # s[n]
  BY <1>1, <1>2
<1>5. /\ nx2[s[1]] = NoWorld /\ nx2[s[n]] = s[1]
      /\ \A v \in World : v # s[1] /\ v # s[n] => nx2[v] = nx[v]
  BY <1>1, <1>4 DEF Set
<1>. HIDE DEF t, nx2
<1>6. t[n] = s[1] /\ \A i \in 1..n : i # n => i + 1 \in 1..n /\ t[i] = s[i + 1]
  BY <1>1, <1>3
<1>7. t \in [1..n -> 1..c]
  BY <1>1, <1>3
<1>8. ASSUME NEW i \in 1..n, NEW j \in 1..n, t[i] = t[j] PROVE i = j
  <2>1. CASE i = n /\ j # n
    <3>1. j + 1 \in 1..n /\ s[1] = s[j + 1] /\ j + 1 # 1
      BY <1>1, <1>6, <1>8, <2>1
    <3> QED
      BY <1>1, <1>2, <3>1
  <2>2. CASE i # n /\ j = n
    <3>1. i + 1 \in 1..n /\ s[1] = s[i + 1] /\ i + 1 # 1
      BY <1>1, <1>6, <1>8, <2>2
    <3> QED
      BY <1>1, <1>2, <3>1
  <2>3. CASE i # n /\ j # n
    <3>1. i + 1 = j + 1
      BY <1>2, <1>6, <1>8, <2>3
    <3> QED
      BY <3>1
  <2> QED
    BY <2>1, <2>2, <2>3
<1>9. ASSUME NEW i \in 1..(n - 1) PROVE nx2[t[i]] = t[i + 1]
  <2>1. i \in 1..n /\ i # n /\ i + 1 \in 1..n /\ i + 1 # 1 /\ t[i] = s[i + 1]
    BY <1>1, <1>6
  <2>2. s[i + 1] # s[1] /\ s[i + 1] \in World
    BY <1>1, <1>2, <2>1
  <2>3. CASE i + 1 = n
    BY <1>5, <1>6, <2>1, <2>3
  <2>4. CASE i + 1 # n
    <3>1. s[i + 1] # s[n] /\ i + 1 \in 1..(n - 1) /\ t[i + 1] = s[(i + 1) + 1]
      BY <1>1, <1>2, <1>6, <2>1, <2>4
    <3>2. nx[s[i + 1]] = s[(i + 1) + 1]
      BY <1>2, <3>1
    <3> QED
      BY <1>5, <2>1, <2>2, <3>1, <3>2
  <2> QED
    BY <2>3, <2>4
<1>10. nx2[t[n]] = NoWorld
  BY <1>5, <1>6
<1>11. Chain(nx2, c, t)
  BY <1>1, <1>7, <1>8, <1>9, <1>10, ChainOf
<1>12. t[1] = s[2]
  BY <1>1, <1>6
<1> QED
  BY <1>11, <1>12 DEF t, nx2

\* goForward
LEMMA ChainForward ==
  ASSUME NEW nx \in [World -> World \cup {NoWorld}], NEW c \in World, NEW s, Chain(nx, c, s),
         Len(s) > 1
  PROVE  /\ Chain(Set(Set(nx, s[Len(s)], s[1]), s[Len(s) - 1], NoWorld), c,
                  <<Last(s)>> \o Front(s))
         /\ (<<Last(s)>> \o Front(s))[1] = s[Len(s)]
<1>. DEFINE n == Len(s)
            t == <<Last(s)>> \o Front(s)
            nx2 == Set(Set(nx, s[n], s[1]), s[n - 1], NoWorld)
<1>1. /\ n \in Nat /\ n \in 1..c /\ 1 \in 1..n /\ n \in 1..n /\ n # 1
      /\ n - 1 \in 1..n /\ n - 1 # n
      /\ \A i \in 1..n : s[i] \in 1..c /\ s[i] \in World /\ s[i] # NoWorld
  <2>1. /\ n \in Nat /\ n <= c /\ c \in Nat
        /\ \A i \in 1..n : s[i] \in 1..c /\ s[i] \in World /\ s[i] # NoWorld
    BY ChainWorlds
  <2> QED
    BY <2>1
<1>2. /\ s \in Seq(1..c) /\ \A i, j \in 1..n : s[i] = s[j] => i = j
      /\ \A i \in 1..(n - 1) : nx[s[i]] = s[i + 1]
      /\ nx[s[n]] = NoWorld
  BY DEF Chain
<1>3. t = [i \in 1..n |-> IF i = 1 THEN s[n] ELSE s[i - 1]]
  BY <1>2, Turned
<1>4. s[n - 1] # s[n]
  BY <1>1, <1>2
<1>5. /\ nx2[s[n - 1]] = NoWorld /\ nx2[s[n]] = s[1]
      /\ \A v \in World : v # s[n - 1] /\ v # s[n] => nx2[v] = nx[v]
  BY <1>1, <1>4 DEF Set
<1>. HIDE DEF t, nx2
<1>6. t[1] = s[n] /\ \A i \in 1..n : i # 1 => i - 1 \in 1..n /\ i - 1 # n /\ t[i] = s[i - 1]
  BY <1>1, <1>3
<1>7. t \in [1..n -> 1..c]
  BY <1>1, <1>3
<1>8. ASSUME NEW i \in 1..n, NEW j \in 1..n, t[i] = t[j] PROVE i = j
  <2>1. CASE i = 1 /\ j # 1
    <3>1. j - 1 \in 1..n /\ s[n] = s[j - 1] /\ j - 1 # n
      BY <1>1, <1>6, <1>8, <2>1
    <3> QED
      BY <1>1, <1>2, <3>1
  <2>2. CASE i # 1 /\ j = 1
    <3>1. i - 1 \in 1..n /\ s[n] = s[i - 1] /\ i - 1 # n
      BY <1>1, <1>6, <1>8, <2>2
    <3> QED
      BY <1>1, <1>2, <3>1
  <2>3. CASE i # 1 /\ j # 1
    <3>1. i - 1 = j - 1
      BY <1>2, <1>6, <1>8, <2>3
    <3> QED
      BY <3>1
  <2> QED
    BY <2>1, <2>2, <2>3
<1>9. ASSUME NEW i \in 1..(n - 1) PROVE nx2[t[i]] = t[i + 1]
  <2>1. i \in 1..n /\ i + 1 \in 1..n /\ i + 1 # 1 /\ (i + 1) - 1 = i /\ i # n
    BY <1>1
  <2>2. t[i + 1] = s[i]
    BY <1>6, <2>1
  <2>3. CASE i = 1
    BY <1>5, <1>6, <2>2, <2>3
  <2>4. CASE i # 1
    <3>1. t[i] = s[i - 1] /\ i - 1 \in 1..(n - 1) /\ (i - 1) + 1 = i /\ i - 1 # n - 1
          /\ i - 1 \in 1..n /\ i - 1 # n
      BY <1>1, <1>6, <2>1, <2>4
    <3>2. nx[s[i - 1]] = s[i] /\ s[i - 1] # s[n] /\ s[i - 1] # s[n - 1]
      BY <1>1, <1>2, <3>1
    <3> QED
      BY <1>1, <1>5, <2>2, <3>1, <3>2
  <2> QED
    BY <2>3, <2>4
<1>10. nx2[t[n]] = NoWorld
  BY <1>1, <1>5, <1>6
<1>11. Chain(nx2, c, t)
  BY <1>1, <1>7, <1>8, <1>9, <1>10, ChainOf
<1> QED
  BY <1>6, <1>11 DEF t, nx2

\* goBack's walk ends at the last world of a chain
LEMMA WalkToLast ==
  ASSUME Typed, NEW s, Path(s), Len(s) > 1
  PROVE  LastFrom(s[2]) = s[Len(s)]
<1>. DEFINE n == Len(s)
            walk == Walk(s[2])
            stops == {k \in 0..LoopMax :
                    \/ k = LoopMax
                    \/ walk[k] # NoWorld /\ next[walk[k]] \in {NoWorld, walk[k]}}
<1>1. /\ n \in Nat /\ n < LoopMax /\ LoopMax \in Nat /\ 2 \in 1..n /\ n \in 1..n
      /\ \A i \in 1..n : s[i] \in World /\ s[i] # NoWorld
  <2>1. worldcnt \in World /\ Chain(next, worldcnt, s) /\ LoopMax \in Nat
    BY Constants DEF Path, Typed, TypeOK
  <2>2. /\ n \in Nat /\ n < LoopMax
        /\ \A i \in 1..n : s[i] \in World /\ s[i] # NoWorld
    BY <2>1, ChainWorlds
  <2> QED
    BY <2>1, <2>2
<1>2. /\ \A i, j \in 1..n : s[i] = s[j] => i = j
      /\ \A i \in 1..(n - 1) : next[s[i]] = s[i + 1]
      /\ next[s[n]] = NoWorld
  BY DEF Path, Chain
<1>3. \A k \in 0..LoopMax : walk[k] = IF 2 + k <= n THEN s[2 + k] ELSE NoWorld
  BY <1>1, ChainWalk DEF Path
<1>4. LastFrom(s[2]) = walk[Min(stops)]
  BY DEF LastFrom
<1>. HIDE DEF walk
<1>5. n - 2 \in 0..LoopMax /\ walk[n - 2] = s[n]
  <2>1. n - 2 \in 0..LoopMax /\ 2 + (n - 2) = n /\ n <= n
    BY <1>1
  <2> QED
    BY <1>3, <2>1
<1>6. n - 2 \in stops
  BY <1>1, <1>2, <1>5
<1>7. ASSUME NEW k \in stops, k < n - 2 PROVE FALSE
  <2>1. /\ k \in 0..LoopMax /\ k # LoopMax /\ 2 + k \in 1..n /\ 2 + k \in 1..(n - 1)
        /\ (2 + k) + 1 \in 1..n /\ (2 + k) + 1 # 2 + k /\ 2 + k <= n
    BY <1>1, <1>7
  <2>2. walk[k] = s[2 + k] /\ next[walk[k]] = s[(2 + k) + 1]
    BY <1>2, <1>3, <2>1
  <2>3. s[(2 + k) + 1] # NoWorld /\ s[(2 + k) + 1] # s[2 + k]
    BY <1>1, <1>2, <2>1
  <2> QED
    BY <2>1, <2>2, <2>3
<1>8. stops \in SUBSET Nat /\ \A k \in stops : n - 2 <= k
  <2>1. stops \subseteq 0..LoopMax
    OBVIOUS
  <2>. HIDE DEF stops
  <2> QED
    BY <1>1, <1>7, <2>1
<1>. HIDE DEF stops
<1>9. Min(stops) = n - 2
  BY <1>6, <1>8, MinIs
<1> QED
  BY <1>4, <1>5, <1>9

\* goForward's at the last but one
LEMMA WalkToLastButOne ==
  ASSUME Typed, NEW s, Path(s), Len(s) > 1
  PROVE  LastButOne = s[Len(s) - 1]
<1>. DEFINE n == Len(s)
            walk == Walk(worldList)
            stops == {k \in 0..LoopMax :
                    \/ k = LoopMax
                    \/ /\ walk[k] # NoWorld /\ next[walk[k]] # NoWorld
                       /\ next[next[walk[k]]] = NoWorld}
<1>1. /\ n \in Nat /\ n < LoopMax /\ LoopMax \in Nat /\ 1 \in 1..n /\ n \in 1..n
      /\ \A i \in 1..n : s[i] \in World /\ s[i] # NoWorld
  <2>1. worldcnt \in World /\ Chain(next, worldcnt, s) /\ LoopMax \in Nat
    BY Constants DEF Path, Typed, TypeOK
  <2>2. /\ n \in Nat /\ n < LoopMax
        /\ \A i \in 1..n : s[i] \in World /\ s[i] # NoWorld
    BY <2>1, ChainWorlds
  <2> QED
    BY <2>1, <2>2
<1>2. /\ \A i \in 1..(n - 1) : next[s[i]] = s[i + 1]
      /\ next[s[n]] = NoWorld
  BY DEF Path, Chain
<1>3. \A k \in 0..LoopMax : walk[k] = IF 1 + k <= n THEN s[1 + k] ELSE NoWorld
  BY <1>1, ChainWalk DEF Path
<1>4. LastButOne = walk[Min(stops)]
  BY DEF LastButOne
<1>. HIDE DEF walk
<1>5. n - 2 \in 0..LoopMax /\ walk[n - 2] = s[n - 1]
  <2>1. n - 2 \in 0..LoopMax /\ 1 + (n - 2) = n - 1 /\ n - 1 <= n
    BY <1>1
  <2> QED
    BY <1>3, <2>1
<1>6. n - 2 \in stops
  <2>1. n - 1 \in 1..(n - 1) /\ (n - 1) + 1 = n /\ n - 1 \in 1..n
    BY <1>1
  <2>2. next[s[n - 1]] = s[n]
    BY <1>2, <2>1
  <2> QED
    BY <1>1, <1>2, <1>5, <2>1, <2>2
<1>7. ASSUME NEW k \in stops, k < n - 2 PROVE FALSE
  <2>1. /\ k \in 0..LoopMax /\ k # LoopMax /\ 1 + k \in 1..(n - 1) /\ 1 + k <= n
        /\ (1 + k) + 1 \in 1..(n - 1) /\ ((1 + k) + 1) + 1 \in 1..n
    BY <1>1, <1>7
  <2>2. walk[k] = s[1 + k] /\ next[walk[k]] = s[(1 + k) + 1]
    BY <1>2, <1>3, <2>1
  <2>3. next[next[walk[k]]] = s[((1 + k) + 1) + 1]
    BY <1>2, <2>1, <2>2
  <2> QED
    BY <1>1, <2>1, <2>3
<1>8. stops \in SUBSET Nat /\ \A k \in stops : n - 2 <= k
  <2>1. stops \subseteq 0..LoopMax
    OBVIOUS
  <2>. HIDE DEF stops
  <2> QED
    BY <1>1, <1>7, <2>1
<1>. HIDE DEF stops
<1>9. Min(stops) = n - 2
  BY <1>6, <1>8, MinIs
<1> QED
  BY <1>4, <1>5, <1>9
-----------------------------------------------------------------------------
(* Every step that does not go astray is one of Trail. *)

\* What a step of Trail makes of the trail s
Turns(s, t) ==
    \/ t = s
    \/ Len(s) > 1 /\ t = Append(Tail(s), Head(s))
    \/ Len(s) > 1 /\ t = <<Last(s)>> \o Front(s)
    \/ \E k \in 2..Len(s) : t = [s EXCEPT ![1] = s[k], ![k] = s[1]]
    \/ \E w \in World : w \notin ToSet(s) /\ t = <<w>> \o s

\* The chain after a step
Reached(t) == Chain(next', worldcnt', t) /\ t[1] = worldList'

\* A path is a chain, from the current world, of worlds created
LEMMA PathFacts ==
  ASSUME Typed, NEW s, Path(s)
  PROVE  /\ worldcnt \in World /\ worldList = s[1] /\ Chain(next, worldcnt, s)
         /\ next \in [World -> World \cup {NoWorld}]
         /\ Len(s) \in Nat /\ 0 < Len(s) /\ Len(s) <= worldcnt
         /\ \A i \in 1..Len(s) : s[i] \in 1..worldcnt /\ s[i] \in World /\ s[i] # NoWorld
         /\ s \in Seq(1..worldcnt)
<1>1. /\ worldcnt \in World /\ worldList = s[1] /\ Chain(next, worldcnt, s)
      /\ next \in [World -> World \cup {NoWorld}]
  BY Constants DEF Path, Typed, TypeOK
<1>2. /\ Len(s) \in Nat /\ 0 < Len(s) /\ Len(s) <= worldcnt
      /\ \A i \in 1..Len(s) : s[i] \in 1..worldcnt /\ s[i] \in World /\ s[i] # NoWorld
  BY <1>1, ChainWorlds
<1> QED
  BY <1>1, <1>2 DEF Chain

\* World::enter of a world in memory exchanges two worlds, if prev mirrors next
LEMMA PathKnown ==
  ASSUME Typed, NEW s, Path(s), NEW u, EnterKnown(u), ~astray'
  PROVE  ~astray /\ \E t : Reached(t) /\ Turns(s, t)
<1>. DEFINE w == WorldByUrl(u)
<1>1. /\ worldcnt \in World /\ worldList = s[1] /\ Chain(next, worldcnt, s)
      /\ next \in [World -> World \cup {NoWorld}]
      /\ Len(s) \in Nat /\ 0 < Len(s)
      /\ \A i \in 1..Len(s) : s[i] \in World /\ s[i] # NoWorld
  BY PathFacts
<1>2. /\ w # NoWorld /\ worldList' = w /\ Swap(w) /\ worldcnt' = worldcnt
      /\ Doubly /\ ~astray
  BY DEF EnterKnown
<1>3. Listed = {s[i] : i \in 1..Len(s)}
  BY PathVisited
<1>4. w \in Listed
  BY <1>2, Found
<1>5. PICK k \in 1..Len(s) : w = s[k]
  BY <1>3, <1>4
<1>. HIDE DEF w
<1>6. CASE k = 1
  <2>1. next' = next
    BY <1>1, <1>2, <1>5, <1>6 DEF Swap
  <2>2. Reached(s)
    BY <1>1, <1>2, <1>5, <1>6, <2>1 DEF Reached
  <2> QED
    BY <1>2, <2>2 DEF Turns
<1>7. CASE k # 1
  <2>. DEFINE n1 == Set(next, s[k - 1], s[1])
              t == [s EXCEPT ![1] = s[k], ![k] = s[1]]
  <2>1. k \in 2..Len(s) /\ k - 1 \in 1..Len(s) /\ k - 1 \in 1..(Len(s) - 1)
        /\ (k - 1) + 1 = k /\ 1 \in 1..Len(s)
    BY <1>1, <1>7
  <2>2. next[s[k - 1]] = s[k] /\ s[k] # s[1]
    BY <1>1, <1>7, <2>1 DEF Chain
  <2>3. s[k - 1] \in Listed
    BY <1>3, <2>1
  <2>4. prev[w] = s[k - 1] /\ s[k - 1] # NoWorld /\ w # worldList
    BY <1>1, <1>2, <1>5, <2>1, <2>2, <2>3 DEF Doubly
  <2>5. next' = Set(Set(n1, s[1], n1[s[k]]), s[k], n1[s[1]])
    BY <1>1, <1>2, <1>5, <2>4 DEF Swap
  <2>6. Chain(Set(Set(n1, s[1], n1[s[k]]), s[k], n1[s[1]]), worldcnt, t)
    BY <1>1, <2>1, ChainExchange
  <2>7. t[1] = s[k]
    BY <1>1, <2>1 DEF Chain
  <2>. HIDE DEF t, n1
  <2>8. Reached(t)
    BY <1>2, <1>5, <2>5, <2>6, <2>7 DEF Reached
  <2>9. Turns(s, t)
    BY <2>1 DEF Turns, t
  <2> QED
    BY <1>2, <2>8, <2>9
<1> QED
  BY <1>6, <1>7

\* World::enter of a new world puts it in front
LEMMA PathNew ==
  ASSUME Typed, NEW s, Path(s), NEW u, Add(u), ~astray'
  PROVE  ~astray /\ \E t : Reached(t) /\ Turns(s, t)
<1>. DEFINE w == worldcnt + 1
            t == <<w>> \o s
<1>1. /\ worldcnt \in World /\ worldList = s[1] /\ Chain(next, worldcnt, s)
      /\ next \in [World -> World \cup {NoWorld}]
      /\ \A i \in 1..Len(s) : s[i] \in 1..worldcnt
      /\ s \in Seq(1..worldcnt)
  BY PathFacts
<1>2. /\ worldcnt < MaxWorlds /\ worldcnt' = w /\ worldList' = w
      /\ next' = Set(next, w, s[1]) /\ ~astray
  BY <1>1 DEF Add
<1>3. w \in World /\ w \notin 1..worldcnt
  BY <1>1, <1>2, Constants
<1>4. Chain(Set(next, w, s[1]), w, t)
  BY <1>1, <1>3, ChainNew
<1>5. t[1] = w
  BY <1>1, <1>3
<1>6. w \notin ToSet(s)
  BY <1>1, <1>3 DEF ToSet
<1>. HIDE DEF w, t
<1>7. Reached(t)
  BY <1>2, <1>4, <1>5 DEF Reached
<1>8. Turns(s, t)
  BY <1>3, <1>6 DEF Turns, t
<1> QED
  BY <1>2, <1>7, <1>8

\* World::goBack puts the current world last
LEMMA PathBack ==
  ASSUME Typed, NEW s, Path(s), NEW joined \in BOOLEAN, GoBack(joined), ~astray'
  PROVE  ~astray /\ \E t : Reached(t) /\ Turns(s, t)
<1>. DEFINE t == Append(Tail(s), Head(s))
<1>1. /\ worldcnt \in World /\ worldList = s[1] /\ Chain(next, worldcnt, s)
      /\ next \in [World -> World \cup {NoWorld}]
      /\ Len(s) \in Nat /\ 0 < Len(s)
  BY PathFacts
<1>2. /\ next[worldList] # NoWorld /\ worldList' = next[worldList]
      /\ next' = Set(Set(next, LastFrom(next[worldList]), worldList), worldList, NoWorld)
      /\ worldcnt' = worldcnt /\ ~astray
  BY DEF GoBack, Call
<1>3. Len(s) > 1
  <2>1. next[s[Len(s)]] = NoWorld
    BY <1>1 DEF Chain
  <2> QED
    BY <1>1, <1>2, <2>1
<1>4. next[worldList] = s[2]
  <2>1. 1 \in 1..(Len(s) - 1) /\ 1 + 1 = 2
    BY <1>1, <1>3
  <2> QED
    BY <1>1, <2>1 DEF Chain
<1>5. LastFrom(s[2]) = s[Len(s)]
  BY <1>3, WalkToLast
<1>6. /\ Chain(Set(Set(next, s[Len(s)], s[1]), s[1], NoWorld), worldcnt, t)
      /\ t[1] = s[2]
  BY <1>1, <1>3, ChainBack
<1>. HIDE DEF t
<1>7. Reached(t)
  BY <1>1, <1>2, <1>4, <1>5, <1>6 DEF Reached
<1>8. Turns(s, t)
  BY <1>3 DEF Turns, t
<1> QED
  BY <1>2, <1>7, <1>8

\* World::goForward takes the last one from there
LEMMA PathForward ==
  ASSUME Typed, NEW s, Path(s), NEW joined \in BOOLEAN, GoForward(joined), ~astray'
  PROVE  ~astray /\ \E t : Reached(t) /\ Turns(s, t)
<1>. DEFINE t == <<Last(s)>> \o Front(s)
            l == LastButOne
<1>1. /\ worldcnt \in World /\ worldList = s[1] /\ Chain(next, worldcnt, s)
      /\ next \in [World -> World \cup {NoWorld}]
      /\ Len(s) \in Nat /\ 0 < Len(s)
  BY PathFacts
<1>2. /\ next[worldList] # NoWorld /\ worldList' = next[l]
      /\ next' = Set(Set(next, next[l], worldList), l, NoWorld)
      /\ worldcnt' = worldcnt /\ ~astray
  BY DEF GoForward, Call
<1>3. Len(s) > 1
  <2>1. next[s[Len(s)]] = NoWorld
    BY <1>1 DEF Chain
  <2> QED
    BY <1>1, <1>2, <2>1
<1>4. l = s[Len(s) - 1]
  BY <1>3, WalkToLastButOne
<1>5. next[l] = s[Len(s)]
  <2>1. Len(s) - 1 \in 1..(Len(s) - 1) /\ (Len(s) - 1) + 1 = Len(s)
    BY <1>1, <1>3
  <2>2. next[s[Len(s) - 1]] = s[(Len(s) - 1) + 1]
    BY <1>1, <2>1 DEF Chain
  <2> QED
    BY <1>4, <2>1, <2>2
<1>6. /\ Chain(Set(Set(next, s[Len(s)], s[1]), s[Len(s) - 1], NoWorld), worldcnt, t)
      /\ t[1] = s[Len(s)]
  BY <1>1, <1>3, ChainForward
<1>. HIDE DEF t, l
<1>7. Reached(t)
  BY <1>1, <1>2, <1>4, <1>5, <1>6 DEF Reached
<1>8. Turns(s, t)
  BY <1>3 DEF Turns, t
<1> QED
  BY <1>2, <1>7, <1>8

\* Every other step leaves the chain alone
LEMMA PathNext ==
  ASSUME Inv, [Next]_vars, ~astray', NEW s, Path(s)
  PROVE  ~astray /\ \E t : Reached(t) /\ Turns(s, t)
<1>0. Typed
  BY DEF Inv
<1>1. ASSUME UNCHANGED list
      PROVE  ~astray /\ \E t : Reached(t) /\ Turns(s, t)
  <2>1. Reached(s) /\ ~astray
    BY <1>1 DEF list, Reached, Path
  <2> QED
    BY <2>1 DEF Turns
<1>2. ASSUME NEW u, EnterKnown(u) \/ Add(u)
      PROVE  ~astray /\ \E t : Reached(t) /\ Turns(s, t)
  BY <1>0, <1>2, PathKnown, PathNew
<1>3. ASSUME NEW joined \in BOOLEAN, GoBack(joined)
      PROVE  ~astray /\ \E t : Reached(t) /\ Turns(s, t)
  BY <1>0, <1>3, PathBack
<1>4. ASSUME NEW joined \in BOOLEAN, GoForward(joined)
      PROVE  ~astray /\ \E t : Reached(t) /\ Turns(s, t)
  BY <1>0, <1>4, PathForward
<1>5. \/ UNCHANGED list
      \/ \E u : EnterKnown(u) \/ Add(u)
      \/ \E joined \in BOOLEAN : GoBack(joined)
      \/ \E joined \in BOOLEAN : GoForward(joined)
  BY DEF Next, vars, list, Gate, Goto, Link, Sandbox, Compute, EnterNew, EnterBad
<1> QED
  BY <1>1, <1>2, <1>3, <1>4, <1>5

\* What Path says of the refinement mapping, now and after a step
PathsVisited == \A s : Path(s) => Visited = s

LEMMA VisitedNow == Typed => PathsVisited
BY PathVisited DEF PathsVisited

LEMMA VisitedNext == Typed' => PathsVisited'
BY VisitedNow, PTL

(***************************************************************************)
(* As long as the user has not gone astray the next pointers lead from the *)
(* current world through distinct worlds to an end.                        *)
(***************************************************************************)
Straight == ~astray => \E s : Path(s)

\* Straight holds at first, when the trail is the first world
LEMMA StraightInit == Init => Straight /\ Visited = <<1>>
<1>. SUFFICES ASSUME Init PROVE Straight /\ Visited = <<1>>
  OBVIOUS
<1>1. /\ worldList = 1 /\ worldcnt = 1 /\ next = [w \in World |-> NoWorld] /\ 1 \in World
  BY Constants DEF Init
<1>. DEFINE s == <<1>>
<1>2. s \in [1..1 -> 1..1] /\ s[1] = 1
  OBVIOUS
<1>3. Chain(next, 1, s)
  <2>1. next[s[1]] = NoWorld /\ 1 \in 1..1
    BY <1>1, <1>2
  <2>2. s \in Seq(1..1) /\ Len(s) = 1
    OBVIOUS
  <2>3. \A i, j \in 1..1 : s[i] = s[j] => i = j
    OBVIOUS
  <2>4. \A i \in 1..(1 - 1) : next[s[i]] = s[i + 1]
    OBVIOUS
  <2> QED
    BY <2>1, <2>2, <2>3, <2>4 DEF Chain
<1>4. Path(s)
  BY <1>1, <1>2, <1>3 DEF Path
<1>5. Typed
  BY InvInit DEF Inv
<1> QED
  BY <1>4, <1>5, PathVisited DEF Straight

\* Nobody comes back from going astray
LEMMA AstrayStays ==
  ASSUME [Next]_vars, ~astray'
  PROVE  ~astray
<1>1. \/ astray' = astray
      \/ \E u : EnterKnown(u) \/ Add(u)
  BY DEF Next, vars, list, Gate, Goto, Link, Sandbox, Compute, GoBack, GoForward, Call,
         EnterNew, EnterBad
<1>2. ASSUME NEW u, EnterKnown(u) \/ Add(u)
      PROVE  astray' = astray \/ astray' = (astray \/ ~Doubly)
  BY <1>2 DEF EnterKnown, Add
<1> QED
  BY <1>1, <1>2

\* One step, seen by Trail
LEMMA TrailStep ==
  ASSUME Inv, Inv', Straight, [Next]_vars
  PROVE  Straight' /\ (astray' \/ (~astray /\ ~astray' /\ Turns(Visited, Visited')))
<1>1. CASE astray'
  BY <1>1 DEF Straight
<1>2. CASE ~astray'
  <2>1. ~astray
    BY <1>2, AstrayStays
  <2>2. PICK s : Path(s)
    BY <2>1 DEF Straight
  <2>3. PICK t : Reached(t) /\ Turns(s, t)
    BY <1>2, <2>2, PathNext
  <2>4. Path(t)'
    BY <2>3 DEF Reached, Path, Chain
  <2>5. Visited = s
    BY <2>2, VisitedNow DEF Inv, PathsVisited
  <2>6. Visited' = t
    BY <2>4, VisitedNext DEF Inv, PathsVisited
  <2>7. Straight'
    BY <2>4 DEF Straight
  <2> QED
    BY <1>2, <2>1, <2>3, <2>5, <2>6, <2>7
<1> QED
  BY <1>1, <1>2

\* The actions of Trail on the worlds visited
LEMMA TrailActions ==
  /\ Trail!GoBack <=> Len(Visited) > 1 /\ Visited' = Append(Tail(Visited), Head(Visited))
  /\ Trail!GoForward <=> Len(Visited) > 1 /\ Visited' = <<Last(Visited)>> \o Front(Visited)
  /\ \A k : Trail!Exchange(k) <=>
               Visited' = [Visited EXCEPT ![1] = Visited[k], ![k] = Visited[1]]
  /\ \A w : Trail!New(w) <=> w \notin ToSet(Visited) /\ Visited' = <<w>> \o Visited
  /\ Trail!Next <=>
        \/ /\ ~astray /\ ~astray'
           /\ \/ Trail!GoBack
              \/ Trail!GoForward
              \/ \E k \in 2..Len(Visited) : Trail!Exchange(k)
              \/ \E w \in World : Trail!New(w)
        \/ astray'
<1>1. Trail!GoBack <=> Len(Visited) > 1 /\ Visited' = Append(Tail(Visited), Head(Visited))
  BY Zenon DEF Trail!GoBack, Visited
<1>2. Trail!GoForward <=> Len(Visited) > 1 /\ Visited' = <<Last(Visited)>> \o Front(Visited)
  BY Zenon DEF Trail!GoForward, Visited, Trail!Last, Trail!Front, Last, Front
<1>3. \A k : Trail!Exchange(k) <=>
               Visited' = [Visited EXCEPT ![1] = Visited[k], ![k] = Visited[1]]
  BY Zenon DEF Trail!Exchange, Visited
<1>4. \A w : Trail!New(w) <=> w \notin ToSet(Visited) /\ Visited' = <<w>> \o Visited
  BY Zenon DEF Trail!New, Visited, Trail!ToSet, ToSet
<1>5. Trail!Next <=>
        \/ /\ ~astray /\ ~astray'
           /\ \/ Trail!GoBack
              \/ Trail!GoForward
              \/ \E k \in 2..Len(Visited) : Trail!Exchange(k)
              \/ \E w \in World : Trail!New(w)
        \/ astray'
  BY Zenon DEF Trail!Next, Visited
<1> QED
  BY <1>1, <1>2, <1>3, <1>4, <1>5, Zenon

\* and is thus a step of Trail
LEMMA TrailNext ==
  ASSUME astray \in BOOLEAN, astray' \in BOOLEAN,
         astray' \/ (~astray /\ ~astray' /\ Turns(Visited, Visited'))
  PROVE  [Trail!Next]_<<Visited, astray>>
<1>1. CASE astray'
  BY <1>1, TrailActions, Zenon
<1>2. CASE ~astray /\ ~astray' /\ Turns(Visited, Visited')
  <2>1. CASE Visited' = Visited
    <3>1. Visited' = Visited /\ astray' = astray
      BY <1>2, <2>1
    <3> QED
      BY <3>1, Zenon
  <2>2. CASE Visited' # Visited
    BY <1>2, <2>2, TrailActions, Zenon DEF Turns
  <2> QED
    BY <2>1, <2>2
<1> QED
  BY <1>1, <1>2

(***************************************************************************)
(* The list of worlds implements a trail, whatever the number of worlds,   *)
(* of trips and of failures: until the user has gone astray, no world      *)
(* visited is lost and back, forward, new worlds and exchanges keep the    *)
(* order (World::goBack, goForward, addToList, swap).                      *)
(***************************************************************************)
THEOREM WorldsKeptTheorem == Spec => WorldsKept
<1>1. Init => Straight /\ Trail!Init
  <2>1. 1 \in World
    BY Constants
  <2>2. Init => astray = FALSE
    BY DEF Init
  <2>3. Trail!Init <=> (\E w \in World : Visited = <<w>>) /\ astray = FALSE
    BY Zenon DEF Trail!Init, Visited
  <2>4. Init => Straight /\ Visited = <<1>>
    BY StraightInit
  <2> QED
    BY <2>1, <2>2, <2>3, <2>4, Zenon
<1>2. Inv /\ Inv' /\ Straight /\ [Next]_vars => Straight' /\ [Trail!Next]_<<Visited, astray>>
  <2>1. Inv => astray \in BOOLEAN
    BY DEF Inv, Typed, TypeOK
  <2>2. Inv' => astray' \in BOOLEAN
    BY DEF Inv, Typed, TypeOK
  <2> QED
    BY <2>1, <2>2, TrailStep, TrailNext
<1>3. WorldsKept <=> Trail!Init /\ [][Trail!Next]_<<Visited, astray>>
  BY DEF WorldsKept, Trail!Spec, Visited
<1> QED
  BY <1>1, <1>2, <1>3, WorldsInvariant, PTL DEF Spec
=============================================================================
