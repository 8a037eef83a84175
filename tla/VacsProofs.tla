----------------------------- MODULE VacsProofs -----------------------------
(***************************************************************************)
(* Proofs about the address server: its state is well-formed, and a world  *)
(* keeps its channel.  The channel of a world is the one of its first      *)
(* record in the list; the invariant is that there is one record only, in  *)
(* the list and in the file, and that what is in the file is in the list.  *)
(* That channels are given once is a second invariant, about the numbers   *)
(* under which the channels of the list follow each other (Numbered).      *)
(***************************************************************************)
EXTENDS Vacs, FiniteSetTheorems, TLAPS

\* What the server starts from
Stored == file[VRE_VERSION]

Once(s) == \A i, j \in 1..Len(s) : s[i].world = s[j].world => i = j

StoredOnce == Once(Stored) /\ \A i \in 1..Len(Stored) : Stored[i].world # Manager

StoredListed ==
    \A i \in 1..Len(Stored) : \E j \in 1..Len(vacsList) : vacsList[j] = Stored[i]

ManagerListed == \E i \in 1..Len(vacsList) : vacsList[i].world = Manager

Inv == TypeOK /\ Once(vacsList) /\ ManagerListed /\ StoredOnce /\ StoredListed
-----------------------------------------------------------------------------
(* Channels. *)

\* The channels of a byte and a uint16_t are channels
LEMMA Modulo == ASSUME NEW n \in Int, NEW m \in Nat \ {0} PROVE n % m \in 0..(m - 1)
  OBVIOUS

LEMMA NthChannel == ASSUME NEW n \in Nat PROVE Nth(n) \in Channel
<1>1. n % Addresses \in 0..(Addresses - 1)
  BY Modulo, VacsAssumption
<1>2. n * VRENG_MPORT_INCR \in Int
  BY VacsAssumption
<1>3. (n * VRENG_MPORT_INCR) % Ports \in 0..(Ports - 1)
  BY <1>2, Modulo, VacsAssumption
<1> QED
  BY <1>1, <1>3, Zenon DEF Nth, Channel

LEMMA AfterChannel == ASSUME NEW c \in Channel PROVE After(c) \in Channel
<1>1. c.maddr + 1 \in Int /\ c.mport + VRENG_MPORT_INCR \in Int
  BY VacsAssumption DEF Channel
<1>2. (c.maddr + 1) % Addresses \in 0..(Addresses - 1)
  BY <1>1, Modulo, VacsAssumption
<1>3. (c.mport + VRENG_MPORT_INCR) % Ports \in 0..(Ports - 1)
  BY <1>1, Modulo, VacsAssumption
<1> QED
  BY <1>2, <1>3, Zenon DEF After, Channel
-----------------------------------------------------------------------------
(* loadCache. *)

LEMMA LoadedRecords ==
  ASSUME NEW s \in Seq(Record)
  PROVE  /\ Loaded(s) \in Seq(Record) /\ Len(Loaded(s)) = Len(s) + 1
         /\ Loaded(s)[1] = Rec(Manager, Nth(0))
         /\ \A i \in 1..Len(s) : Loaded(s)[i + 1] = s[i]
<1>1. Rec(Manager, Nth(0)) \in Record
  BY NthChannel, VacsAssumption DEF Rec, Record
<1> QED
  BY <1>1 DEF Loaded

LEMMA NextLoaded ==
  ASSUME NEW s \in Seq(Record) PROVE NextOf(Loaded(s)) \in Channel
<1>1. Loaded(s)[Len(Loaded(s))] \in Record
  BY LoadedRecords
<1> QED
  BY <1>1, AfterChannel DEF NextOf, Last, Record

\* A list loaded from a file that holds a world once holds it once
LEMMA LoadedOnce ==
  ASSUME NEW s \in Seq(Record), Once(s), \A i \in 1..Len(s) : s[i].world # Manager
  PROVE  Once(Loaded(s))
<1> SUFFICES ASSUME NEW i \in 1..Len(Loaded(s)), NEW j \in 1..Len(Loaded(s)),
                    Loaded(s)[i].world = Loaded(s)[j].world
             PROVE  i = j
  BY DEF Once
<1>1. \A k \in 1..Len(Loaded(s)) : k # 1 => k - 1 \in 1..Len(s) /\ Loaded(s)[k] = s[k - 1]
  BY LoadedRecords, SMTT(30)
<1>2. Loaded(s)[1].world = Manager
  BY LoadedRecords, SMTT(30) DEF Rec
<1>3. CASE i # 1 /\ j # 1
  <2>1. i - 1 = j - 1
    BY <1>1, <1>3 DEF Once
  <2> QED
    BY <2>1
<1>4. CASE i = 1 \/ j = 1
  BY <1>1, <1>2, <1>4
<1> QED
  BY <1>3, <1>4

LEMMA LoadedManager ==
  ASSUME NEW s \in Seq(Record)
  PROVE  1 \in 1..Len(Loaded(s)) /\ Loaded(s)[1].world = Manager
<1>1. Len(s) \in Nat
  OBVIOUS
<1> QED
  BY <1>1, LoadedRecords DEF Rec

LEMMA LoadedListed ==
  ASSUME NEW s \in Seq(Record), NEW i \in 1..Len(s)
  PROVE  i + 1 \in 1..Len(Loaded(s)) /\ Loaded(s)[i + 1] = s[i]
  BY LoadedRecords
-----------------------------------------------------------------------------
(* The list. *)

\* The records appended to the list are new
LEMMA AppendedOnce ==
  ASSUME NEW s \in Seq(Record), Once(s), NEW r \in Record,
         \A i \in 1..Len(s) : s[i].world # r.world
  PROVE  Once(Append(s, r))
  BY DEF Once

\* A world with one record has its channel
LEMMA OneChannel ==
  ASSUME vacsList \in Seq(Record), Once(vacsList), NEW i \in 1..Len(vacsList)
  PROVE  /\ Of(vacsList[i].world) = {i}
         /\ ChannelOf(vacsList[i].world) = vacsList[i].channel
<1>1. Of(vacsList[i].world) = {i}
  BY DEF Of, Once
<1> QED
  BY <1>1 DEF ChannelOf
-----------------------------------------------------------------------------
LEMMA InvInit == Init => Inv
<1> SUFFICES ASSUME Init PROVE Inv
  OBVIOUS
<1> USE VacsAssumption
<1>1. PICK n \in 0..MaxRecords : \E ws \in [1..n -> Qualified \ {Manager}] :
          /\ IsInjective(ws)
          /\ file = [v \in Version |->
                IF v = VRE_VERSION THEN [i \in 1..n |-> Rec(ws[i], Nth(i))] ELSE <<>>]
  BY DEF Init
<1>2. PICK ws \in [1..n -> Qualified \ {Manager}] :
          /\ IsInjective(ws)
          /\ file = [v \in Version |->
                IF v = VRE_VERSION THEN [i \in 1..n |-> Rec(ws[i], Nth(i))] ELSE <<>>]
  BY <1>1
<1>3. Stored = [i \in 1..n |-> Rec(ws[i], Nth(i))] /\ n \in Nat
  BY <1>2 DEF Stored
<1>4. \A i \in 1..n : Rec(ws[i], Nth(i)) \in Record
  BY NthChannel DEF Rec, Record
<1>5. Stored \in Seq(Record) /\ Len(Stored) = n
  BY <1>3, <1>4
<1>6. file \in [Version -> Seq(Record)]
  BY <1>2, <1>3, <1>5 DEF Stored
<1>7. vacsList = Loaded(Stored) /\ next = NextOf(Loaded(Stored))
  BY DEF Init, Stored
<1>8. TypeOK
  BY <1>5, <1>6, <1>7, LoadedRecords, NextLoaded DEF Init, TypeOK
<1>9. StoredOnce
  <2>1. \A i \in 1..n : Stored[i].world = ws[i] /\ ws[i] # Manager
    BY <1>3 DEF Rec
  <2>2. \A i, j \in 1..n : ws[i] = ws[j] => i = j
    BY <1>2 DEF IsInjective
  <2> QED
    BY <1>5, <2>1, <2>2 DEF StoredOnce, Once
<1>10. Once(vacsList)
  BY <1>5, <1>7, <1>9, LoadedOnce DEF StoredOnce
<1>11. StoredListed
  BY <1>5, <1>7, LoadedListed DEF StoredListed
<1>12. ManagerListed
  BY <1>5, <1>7, LoadedManager DEF ManagerListed
<1> QED
  BY <1>8, <1>9, <1>10, <1>11, <1>12 DEF Inv

\* A world that addCache adds is in the list once more, and in a file perhaps
LEMMA InvListed ==
  ASSUME Inv, NEW w \in World, Unknown(w), Listed(w), next' \in Channel,
         file' = file \/ (/\ vacs_file \in Directory
                          /\ file' = [file EXCEPT ![vacs_file] = Append(@, Rec(w, next))]),
         vacs_file' = vacs_file, starts' = starts, unsaved' \subseteq World
  PROVE  Inv' /\ \A i \in 1..Len(vacsList) : i \in 1..Len(vacsList') /\ vacsList'[i] = vacsList[i]
<1> USE VacsAssumption
<1>1. /\ vacsList \in Seq(Record) /\ next \in Channel /\ file \in [Version -> Seq(Record)]
      /\ Stored \in Seq(Record)
  BY DEF Inv, TypeOK, Stored
<1>2. Rec(w, next) \in Record /\ Rec(w, next).world = w
  BY <1>1 DEF Rec, Record
<1>3. vacsList' = Append(vacsList, Rec(w, next))
  BY DEF Listed
<1>4. \A i \in 1..Len(vacsList) : vacsList[i].world # w
  BY <1>1 DEF Unknown, Of
<1>5. Once(vacsList)'
  BY <1>1, <1>2, <1>3, <1>4, AppendedOnce DEF Inv, Once
<1>6. \A i \in 1..Len(Stored) : Stored[i].world # w
  BY <1>4 DEF Inv, StoredListed
<1>7. file' \in [Version -> Seq(Record)]
  <2>1. CASE file' = file
    BY <1>1, <2>1
  <2>2. CASE /\ vacs_file \in Directory
             /\ file' = [file EXCEPT ![vacs_file] = Append(@, Rec(w, next))]
    <3>1. Append(file[vacs_file], Rec(w, next)) \in Seq(Record)
      BY <1>1, <1>2, <2>2
    <3> QED
      BY <1>1, <2>2, <3>1
  <2> QED
    BY <2>1, <2>2
<1>8. Stored' = Stored \/ Stored' = Append(Stored, Rec(w, next))
  BY <1>1 DEF Stored
<1>9. /\ Len(vacsList') = Len(vacsList) + 1 /\ vacsList'[Len(vacsList) + 1] = Rec(w, next)
      /\ \A i \in 1..Len(vacsList) : i \in 1..Len(vacsList') /\ vacsList'[i] = vacsList[i]
  BY <1>1, <1>2, <1>3
<1>10. TypeOK'
  <2>1. vacsList' \in Seq(Record)
    BY <1>1, <1>2, <1>3
  <2> QED
    BY <1>7, <2>1 DEF Inv, TypeOK
<1>11. ManagerListed'
  BY <1>9 DEF Inv, ManagerListed
<1>12. CASE Stored' = Stored
  <2>1. StoredOnce'
    BY <1>12 DEF Inv, StoredOnce, Once
  <2>2. StoredListed'
    BY <1>9, <1>12 DEF Inv, StoredListed
  <2> QED
    BY <1>5, <1>9, <1>10, <1>11, <2>1, <2>2 DEF Inv
<1>13. CASE Stored' = Append(Stored, Rec(w, next))
  <2>1. /\ Len(Stored') = Len(Stored) + 1 /\ Stored'[Len(Stored) + 1] = Rec(w, next)
        /\ \A i \in 1..Len(Stored) : Stored'[i] = Stored[i]
    BY <1>1, <1>2, <1>13
  <2>2. Once(Stored)'
    BY <1>1, <1>2, <1>6, <1>13, AppendedOnce DEF Inv, StoredOnce, Once
  <2>3. w # Manager
    <3>1. PICK i \in 1..Len(vacsList) : vacsList[i].world = Manager
      BY DEF Inv, ManagerListed
    <3> QED
      BY <1>4, <3>1
  <2>4. \A i \in 1..Len(Stored') : Stored'[i].world # Manager
    BY <1>1, <1>2, <2>1, <2>3, SMTT(30) DEF Inv, StoredOnce
  <2>5. StoredListed'
    <3> SUFFICES ASSUME NEW i \in 1..Len(Stored')
                 PROVE  \E j \in 1..Len(vacsList') : vacsList'[j] = Stored'[i]
      BY DEF StoredListed
    <3>1. CASE i = Len(Stored) + 1
      BY <1>1, <1>9, <2>1, <3>1
    <3>2. CASE i \in 1..Len(Stored)
      BY <1>9, <2>1, <3>2 DEF Inv, StoredListed
    <3> QED
      BY <1>1, <2>1, <3>1, <3>2
  <2> QED
    BY <1>5, <1>9, <1>10, <1>11, <2>2, <2>4, <2>5 DEF Inv, StoredOnce
<1> QED
  BY <1>8, <1>12, <1>13
-----------------------------------------------------------------------------
(* The steps. *)

LEMMA InvRestart ==
  ASSUME Inv, Restart
  PROVE  /\ Inv' /\ starts' # starts /\ vacsList' = Loaded(Stored) /\ Stored \in Seq(Record)
<1> USE VacsAssumption
<1>1. Stored \in Seq(Record) /\ Stored' = Stored
  BY DEF Inv, TypeOK, Stored, Restart
<1>2. vacsList' = Loaded(Stored) /\ next' = NextOf(Loaded(Stored))
  BY DEF Restart, Stored
<1>3. TypeOK'
  BY <1>1, <1>2, LoadedRecords, NextLoaded DEF Inv, TypeOK, Restart
<1>4. Once(vacsList)'
  BY <1>1, <1>2, LoadedOnce DEF Inv, StoredOnce, Once
<1>5. StoredOnce'
  BY <1>1 DEF Inv, StoredOnce, Once
<1>6. StoredListed'
  BY <1>1, <1>2, LoadedListed DEF StoredListed
<1>7. ManagerListed'
  BY <1>1, <1>2, LoadedManager DEF ManagerListed
<1>8. starts' # starts
  BY DEF Inv, TypeOK, Restart
<1> QED
  BY <1>1, <1>2, <1>3, <1>4, <1>5, <1>6, <1>7, <1>8 DEF Inv

LEMMA InvKept ==
  ASSUME Inv, UNCHANGED <<file, vacsList, next, starts, unsaved>>,
         vacs_file' \in Version \cup {NoFile}
  PROVE  Inv'
  BY DEF Inv, TypeOK, Once, ManagerListed, StoredOnce, StoredListed, Stored

\* What every step but a start leaves of the list
Longer == \A i \in 1..Len(vacsList) : i \in 1..Len(vacsList') /\ vacsList'[i] = vacsList[i]

LEMMA InvNext ==
  ASSUME Inv, [Next]_vars
  PROVE  Inv' /\ (Restart \/ Longer)
<1> USE VacsAssumption
<1>1. CASE Restart
  BY <1>1, InvRestart
<1>2. ASSUME NEW v \in Version, List(v) PROVE Inv' /\ Longer
  BY <1>2, InvKept DEF List, Longer
<1>3. ASSUME NEW w \in World, Add(w) PROVE Inv' /\ Longer
  <2>1. next' \in Channel
    BY <1>3, AfterChannel DEF Add, Inv, TypeOK
  <2>2. unsaved' \subseteq World
    BY <1>3 DEF Add, Inv, TypeOK
  <2> QED
    BY <1>3, <2>1, <2>2, InvListed DEF Add, Written, Longer
<1>4. ASSUME NEW w \in World, AddLocal(w) PROVE Inv' /\ Longer
  <2>1. next' \in Channel
    BY <1>4, AfterChannel DEF AddLocal, Inv, TypeOK
  <2>2. unsaved' \subseteq World
    BY <1>4 DEF AddLocal, Inv, TypeOK
  <2> QED
    BY <1>4, <2>1, <2>2, InvListed DEF AddLocal, Longer
<1>5. ASSUME NEW w \in World, AddUnsaved(w) PROVE Inv' /\ Longer
  <2>1. next' \in Channel /\ unsaved' \subseteq World
    BY <1>5 DEF AddUnsaved, Inv, TypeOK
  <2> QED
    BY <1>5, <2>1, InvListed DEF AddUnsaved, Longer
<1>6. CASE UNCHANGED vars
  BY <1>6, InvKept DEF vars, Longer, Inv, TypeOK
<1> QED
  BY <1>1, <1>2, <1>3, <1>4, <1>5, <1>6 DEF Next

\* The channel of a world stays
LEMMA KeptStep ==
  ASSUME Inv, [Next]_vars, NEW w \in World, Of(w) # {}, starts' = starts \/ Recorded(w)
  PROVE  Of(w)' # {} /\ ChannelOf(w)' = ChannelOf(w)
<1>1. vacsList \in Seq(Record) /\ Once(vacsList) /\ vacsList' \in Seq(Record) /\ Once(vacsList')
  BY InvNext DEF Inv, TypeOK, Once
<1>2. PICK i \in 1..Len(vacsList) : vacsList[i].world = w
  BY <1>1 DEF Of
<1>3. ChannelOf(w) = vacsList[i].channel
  BY <1>1, <1>2, OneChannel
<1>4. \E j \in 1..Len(vacsList') : vacsList'[j] = vacsList[i]
  <2>1. CASE Longer
    BY <2>1 DEF Longer
  <2>2. CASE Restart
    <3>1. Stored \in Seq(Record) /\ vacsList' = Loaded(Stored) /\ starts' # starts
      BY <2>2, InvRestart
    <3>2. PICK k \in 1..Len(Stored) : Stored[k].world = w
      BY <3>1 DEF Recorded, Stored
    <3>3. PICK l \in 1..Len(vacsList) : vacsList[l] = Stored[k]
      BY DEF Inv, StoredListed
    <3>4. l = i
      BY <1>2, <3>2, <3>3 DEF Inv, Once
    <3> QED
      BY <3>1, <3>3, <3>4, LoadedListed
  <2> QED
    BY <2>1, <2>2, InvNext
<1>5. PICK j \in 1..Len(vacsList') : vacsList'[j] = vacsList[i]
  BY <1>4
<1>6. Of(w)' = {j}
  BY <1>1, <1>2, <1>5 DEF Of, Once
<1>7. ChannelOf(w)' = vacsList'[j].channel
  BY <1>6 DEF ChannelOf
<1> QED
  BY <1>3, <1>5, <1>6, <1>7
-----------------------------------------------------------------------------
(***************************************************************************)
(* The server's state is well-formed: addresses stay within a byte and     *)
(* ports within 16 bits, however many worlds it names (addCache,           *)
(* loadCache).                                                             *)
(***************************************************************************)
THEOREM VacsTyped == Spec => []TypeOK
<1>1. Inv /\ [Next]_vars => Inv'
  BY InvNext
<1>2. Inv => TypeOK
  BY DEF Inv
<1> QED
  BY <1>1, <1>2, InvInit, PTL DEF Spec

(***************************************************************************)
(* For any number of worlds, versions and starts: the channel of a world   *)
(* never changes while the server runs, nor when it starts again, if the   *)
(* world is in its file (resolveCache, addCache, loadCache).               *)
(***************************************************************************)
THEOREM VacsChannelKept == Spec => ChannelKept
<1>1. Inv /\ [Next]_vars => Inv'
  BY InvNext
<1>2. Inv /\ [Next]_vars =>
        [\A w \in World : Of(w) # {} /\ (starts' = starts \/ Recorded(w))
            => Of(w)' # {} /\ ChannelOf(w)' = ChannelOf(w)]_vars
  BY KeptStep
<1> QED
  BY <1>1, <1>2, InvInit, PTL DEF Spec, ChannelKept
-----------------------------------------------------------------------------
(* Distinct channels. *)

(***************************************************************************)
(* Channels are numbered in the order they are given.  The next one is the *)
(* n-th; world i of the list has the at[i]-th, which is one before, unless *)
(* the world could not be saved; the numbers kept[i] of the worlds in the  *)
(* file grow, and the next one comes after them.                           *)
(***************************************************************************)
Numbering(s, lost, n, at) ==
    /\ \A i \in 1..Len(s) :
          /\ s[i].channel = Nth(at[i]) /\ at[i] <= n
          /\ at[i] = n => s[i].world \in lost
    /\ \A i, j \in 1..Len(s) : i < j /\ at[i] = at[j] => s[i].world \in lost

Filed(s, n, kept) ==
    /\ \A i \in 1..Len(s) : s[i].channel = Nth(kept[i]) /\ 0 < kept[i] /\ kept[i] < n
    /\ \A i, j \in 1..Len(s) : i < j => kept[i] < kept[j]

\* No more channels are given than worlds listed since the first start
Given == Len(vacsList) + starts * Cardinality(World)

Numbered ==
    \E n \in Nat :
       /\ 0 < n /\ n <= Given /\ next = Nth(n)
       /\ \E at \in [1..Len(vacsList) -> Nat] : Numbering(vacsList, unsaved, n, at)
       /\ \E kept \in [1..Len(Stored) -> Nat] : Filed(Stored, n, kept)

\* Remainders
LEMMA ModuloUnique ==
  ASSUME NEW m \in Nat \ {0}, NEW q \in Int, NEW r \in 0..(m - 1)
  PROVE  ((q * m) + r) % m = r
  OBVIOUS

LEMMA ModuloExists ==
  ASSUME NEW m \in Nat \ {0}, NEW n \in Int
  PROVE  \E q \in Int, r \in 0..(m - 1) : n = (q * m) + r /\ n % m = r
<1>1. n = m * (n \div m) + (n % m) /\ n \div m \in Int /\ n % m \in 0..(m - 1)
  OBVIOUS
<1>2. PICK q \in Int, r \in 0..(m - 1) : n = m * q + r /\ n % m = r
  BY <1>1
<1>3. m * q = q * m
  OBVIOUS
<1> QED
  BY <1>2, <1>3

LEMMA ModuloPlus ==
  ASSUME NEW m \in Nat \ {0}, NEW n \in Int, NEW k \in Int
  PROVE  ((n % m) + k) % m = (n + k) % m
<1>1. PICK q \in Int, r \in 0..(m - 1) : n = (q * m) + r /\ n % m = r
  BY ModuloExists
<1>2. r + k \in Int
  OBVIOUS
<1>3. PICK p \in Int, t \in 0..(m - 1) : r + k = (p * m) + t /\ (r + k) % m = t
  BY <1>2, ModuloExists
<1>4. (q + p) * m = (q * m) + (p * m) /\ q * m \in Int /\ p * m \in Int
  OBVIOUS
<1>5. n + k = ((q + p) * m) + t
  BY <1>1, <1>3, <1>4
<1>6. q + p \in Int
  OBVIOUS
<1>7. (((q + p) * m) + t) % m = t
  BY <1>6, ModuloUnique
<1> QED
  BY <1>1, <1>3, <1>5, <1>7

LEMMA AfterNth ==
  ASSUME NEW n \in Nat
  PROVE  After(Nth(n)) = Nth(n + 1)
<1>. DEFINE I == VRENG_MPORT_INCR
<1>1. I \in Nat /\ n * I \in Int /\ (n + 1) * I = (n * I) + I
  BY VacsAssumption
<1>2. ((n % Addresses) + 1) % Addresses = (n + 1) % Addresses
  <2>1. n \in Int /\ 1 \in Int /\ Addresses \in Nat \ {0}
    BY VacsAssumption
  <2> QED
    BY <2>1, ModuloPlus
<1>3. (((n * I) % Ports) + I) % Ports = ((n * I) + I) % Ports
  <2>1. n * I \in Int /\ I \in Int /\ Ports \in Nat \ {0}
    BY <1>1, VacsAssumption
  <2>. HIDE DEF I
  <2> QED
    BY <2>1, ModuloPlus
<1> QED
  BY <1>1, <1>2, <1>3, Zenon DEF After, Nth

\* A list that holds each world once is no longer than there are worlds
LEMMA OnceShort ==
  ASSUME IsFiniteSet(World), NEW s \in Seq(Record), Once(s)
  PROVE  Len(s) <= Cardinality(World) /\ Cardinality(World) \in Nat
<1>. DEFINE f == [i \in 1..Len(s) |-> s[i].world]
<1>0. Len(s) \in Nat /\ Cardinality(World) \in Nat
  BY FS_CardinalityType
<1>1. ASSUME NEW i \in 1..Len(s) PROVE s[i].world \in World
  <2>1. s[i] \in Record
    OBVIOUS
  <2> QED
    BY <2>1 DEF Record
<1>2. f \in [1..Len(s) -> World] /\ \A i, j \in 1..Len(s) : f[i] = f[j] => i = j
  BY <1>1 DEF Once
<1>3. f \in Injection(1..Len(s), World)
  BY <1>2 DEF Injection, IsInjective
<1>. HIDE DEF f
<1>4. Cardinality(1..Len(s)) <= Cardinality(World)
  BY <1>3, FS_Injection
<1>5. Cardinality(1..Len(s)) = Len(s)
  <2>1. 1 \in Int /\ Len(s) \in Int
    BY <1>0
  <2>2. Cardinality(1..Len(s)) = IF 1 > Len(s) THEN 0 ELSE Len(s) - 1 + 1
    BY <2>1, FS_Interval
  <2> QED
    BY <1>0, <2>2
<1> QED
  BY <1>0, <1>4, <1>5

(***************************************************************************)
(* A start numbers the manager 0 and the worlds of the file as they are    *)
(* there, and goes on after the last.                                      *)
(***************************************************************************)
LEMMA LoadedNumbered ==
  ASSUME NEW s \in Seq(Record), NEW n \in Nat, 0 < n, NEW kept \in [1..Len(s) -> Nat],
         Filed(s, n, kept)
  PROVE  \E m \in 1..n :
            /\ NextOf(Loaded(s)) = Nth(m) /\ Filed(s, m, kept)
            /\ \E at \in [1..(Len(s) + 1) -> Nat] :
                  /\ \A i \in 1..(Len(s) + 1) :
                        Loaded(s)[i].channel = Nth(at[i]) /\ at[i] < m
                  /\ \A i, j \in 1..(Len(s) + 1) : i < j => at[i] < at[j]
<1>. DEFINE l == Len(s) + 1
            at == [i \in 1..l |-> IF i = 1 THEN 0 ELSE kept[i - 1]]
            m == at[l] + 1
<1>1. Len(s) \in Nat /\ l \in Nat /\ l \in 1..l
  OBVIOUS
<1>2. /\ Loaded(s) \in Seq(Record) /\ Len(Loaded(s)) = l
      /\ Loaded(s)[1].channel = Nth(0)
      /\ \A i \in 1..Len(s) : Loaded(s)[i + 1] = s[i]
  BY LoadedRecords DEF Rec
<1>3. ASSUME NEW i \in 1..l, i # 1
      PROVE  i - 1 \in 1..Len(s) /\ at[i] = kept[i - 1] /\ Loaded(s)[i] = s[i - 1]
  <2>1. i - 1 \in 1..Len(s) /\ (i - 1) + 1 = i
    BY <1>1, <1>3
  <2> QED
    BY <1>2, <1>3, <2>1
<1>4. at[1] = 0 /\ 1 \in 1..l
  BY <1>1
<1>5. at \in [1..l -> Nat]
  BY <1>3
<1>. HIDE DEF at
<1>6. ASSUME NEW i \in 1..l, NEW j \in 1..l, i < j
      PROVE  at[i] < at[j]
  <2>1. j # 1 /\ at[j] = kept[j - 1] /\ j - 1 \in 1..Len(s)
    BY <1>3, <1>6
  <2>2. CASE i = 1
    BY <1>4, <2>1, <2>2 DEF Filed
  <2>3. CASE i # 1
    <3>1. at[i] = kept[i - 1] /\ i - 1 \in 1..Len(s) /\ i - 1 < j - 1
      BY <1>3, <1>6, <2>3
    <3> QED
      BY <2>1, <3>1 DEF Filed
  <2> QED
    BY <2>2, <2>3
<1>7. ASSUME NEW i \in 1..l
      PROVE  Loaded(s)[i].channel = Nth(at[i]) /\ at[i] < m
  <2>1. Loaded(s)[i].channel = Nth(at[i])
    BY <1>2, <1>3, <1>4 DEF Filed
  <2>2. i = l \/ i < l
    BY <1>1
  <2>3. at[i] <= at[l] /\ at[i] \in Nat /\ at[l] \in Nat
    BY <1>1, <1>5, <1>6, <2>2
  <2> QED
    BY <2>1, <2>3
<1>8. m \in 1..n
  <2>1. l = 1 \/ l # 1
    OBVIOUS
  <2>2. at[l] < n /\ at[l] \in Nat
    BY <1>1, <1>3, <1>4, <1>5 DEF Filed
  <2> QED
    BY <2>2
<1>9. NextOf(Loaded(s)) = Nth(m)
  <2>1. Last(Loaded(s)).channel = Nth(at[l])
    BY <1>1, <1>2, <1>7 DEF Last
  <2> QED
    BY <1>1, <1>5, <2>1, AfterNth DEF NextOf
<1>10. Filed(s, m, kept)
  <2>1. ASSUME NEW i \in 1..Len(s) PROVE kept[i] < m
    <3>1. i + 1 \in 1..l /\ i + 1 # 1 /\ (i + 1) - 1 = i
      BY <1>1
    <3>2. at[i + 1] = kept[i]
      BY <1>3, <3>1
    <3> QED
      BY <1>7, <3>1, <3>2
  <2> QED
    BY <2>1 DEF Filed
<1>. HIDE DEF m
<1> QED
  BY <1>5, <1>6, <1>7, <1>8, <1>9, <1>10

\* After a start no world is lost
LEMMA Started ==
  ASSUME NEW s \in Seq(Record), NEW n \in Nat, 0 < n, NEW kept \in [1..Len(s) -> Nat],
         Filed(s, n, kept)
  PROVE  \E m \in 1..n :
            /\ NextOf(Loaded(s)) = Nth(m) /\ Filed(s, m, kept)
            /\ \E at \in [1..Len(Loaded(s)) -> Nat] : Numbering(Loaded(s), {}, m, at)
<1>1. PICK m \in 1..n :
            /\ NextOf(Loaded(s)) = Nth(m) /\ Filed(s, m, kept)
            /\ \E at \in [1..(Len(s) + 1) -> Nat] :
                  /\ \A i \in 1..(Len(s) + 1) :
                        Loaded(s)[i].channel = Nth(at[i]) /\ at[i] < m
                  /\ \A i, j \in 1..(Len(s) + 1) : i < j => at[i] < at[j]
  BY LoadedNumbered
<1>2. PICK at \in [1..(Len(s) + 1) -> Nat] :
                  /\ \A i \in 1..(Len(s) + 1) :
                        Loaded(s)[i].channel = Nth(at[i]) /\ at[i] < m
                  /\ \A i, j \in 1..(Len(s) + 1) : i < j => at[i] < at[j]
  BY <1>1
<1>3. Len(Loaded(s)) = Len(s) + 1 /\ Len(s) \in Nat
  BY LoadedRecords
<1>4. ASSUME NEW i \in 1..(Len(s) + 1) PROVE at[i] <= m /\ at[i] # m
  <2>1. at[i] \in Nat /\ m \in Int /\ at[i] < m
    BY <1>2
  <2> QED
    BY <2>1
<1>5. \A i, j \in 1..(Len(s) + 1) : i < j => at[i] # at[j]
  BY <1>2
<1>6. Numbering(Loaded(s), {}, m, at)
  BY <1>2, <1>3, <1>4, <1>5 DEF Numbering
<1> QED
  BY <1>1, <1>3, <1>6

\* A world is listed with the next channel
LEMMA ListedNumbering ==
  ASSUME Inv, NEW w \in World, Listed(w), NEW n \in Nat, next = Nth(n),
         NEW at \in [1..Len(vacsList) -> Nat], Numbering(vacsList, unsaved, n, at),
         unsaved \subseteq unsaved', NEW m \in Nat,
         m = n + 1 \/ (m = n /\ w \in unsaved')
  PROVE  \E new \in [1..Len(vacsList') -> Nat] : Numbering(vacsList', unsaved', m, new)
<1>1. /\ Len(vacsList) \in Nat /\ vacsList' = Append(vacsList, Rec(w, next))
      /\ vacsList \in Seq(Record)
  BY DEF Inv, TypeOK, Listed
<1>0. PICK l \in Nat : l = Len(vacsList) + 1
  BY <1>1
<1>2. /\ Len(vacsList') = l /\ vacsList'[l] = Rec(w, next) /\ l \in 1..l
      /\ \A i \in 1..l : i # l => i \in 1..Len(vacsList) /\ vacsList'[i] = vacsList[i]
  BY <1>0, <1>1
<1>9. PICK new \in [1..l -> Nat] : new = [i \in 1..l |-> IF i = l THEN n ELSE at[i]]
  BY <1>2
<1>3. new[l] = n
  BY <1>2, <1>9
<1>4. \A i \in 1..l : i # l => new[i] = at[i]
  BY <1>9
<1>5. ASSUME NEW i \in 1..l
      PROVE  /\ vacsList'[i].channel = Nth(new[i]) /\ new[i] <= n /\ new[i] \in Nat
             /\ i # l /\ new[i] = n => vacsList'[i].world \in unsaved'
  <2>1. CASE i = l
    BY <1>2, <1>3, <2>1 DEF Rec
  <2>2. CASE i # l
    BY <1>2, <1>3, <1>4, <2>2 DEF Numbering
  <2> QED
    BY <2>1, <2>2
<1>6. ASSUME NEW i \in 1..l, NEW j \in 1..l, i < j, new[i] = new[j]
      PROVE  vacsList'[i].world \in unsaved'
  <2>1. i # l
    BY <1>0, <1>6
  <2>2. CASE j = l
    BY <1>3, <1>5, <1>6, <2>1, <2>2
  <2>3. CASE j # l
    BY <1>2, <1>4, <1>6, <2>1, <2>3 DEF Numbering
  <2> QED
    BY <2>2, <2>3
<1>7. CASE m = n + 1
  <2>1. \A i \in 1..l : new[i] <= n + 1 /\ new[i] # n + 1
    BY <1>5
  <2>2. Numbering(vacsList', unsaved', m, new)
    BY <1>2, <1>5, <1>6, <1>7, <2>1 DEF Numbering
  <2> QED
    BY <1>2, <2>2
<1>8. CASE m = n /\ w \in unsaved'
  <2>1. vacsList'[l].world = w
    BY <1>2 DEF Rec
  <2>2. \A i \in 1..l : new[i] = n => vacsList'[i].world \in unsaved'
    BY <1>5, <1>8, <2>1
  <2>3. Numbering(vacsList', unsaved', m, new)
    BY <1>2, <1>5, <1>6, <1>8, <2>2 DEF Numbering
  <2> QED
    BY <1>2, <2>3
<1> QED
  BY <1>7, <1>8

\* A world is filed with the next channel
LEMMA AppendedFiled ==
  ASSUME NEW s \in Seq(Record), NEW r \in Record, NEW n \in Nat, 0 < n, r.channel = Nth(n),
         NEW kept \in [1..Len(s) -> Nat], Filed(s, n, kept)
  PROVE  \E more \in [1..Len(Append(s, r)) -> Nat] : Filed(Append(s, r), n + 1, more)
<1>. DEFINE l == Len(s) + 1
            t == Append(s, r)
            more == [i \in 1..l |-> IF i = l THEN n ELSE kept[i]]
<1>1. /\ Len(t) = l /\ t[l] = r /\ l \in 1..l /\ l \in Nat
      /\ \A i \in 1..l : i # l => i \in 1..Len(s) /\ t[i] = s[i] /\ i < l
  OBVIOUS
<1>2. more \in [1..l -> Nat] /\ more[l] = n /\ \A i \in 1..l : i # l => more[i] = kept[i]
  BY <1>1
<1>. HIDE DEF more, t, l
<1>3. ASSUME NEW i \in 1..l
      PROVE  /\ t[i].channel = Nth(more[i]) /\ 0 < more[i] /\ more[i] < n + 1
             /\ i # l => more[i] < n
  <2>1. CASE i = l
    BY <1>1, <1>2, <2>1
  <2>2. CASE i # l
    <3>1. more[i] = kept[i] /\ t[i].channel = Nth(kept[i]) /\ 0 < kept[i] /\ kept[i] < n
      BY <1>1, <1>2, <2>2 DEF Filed
    <3> QED
      BY <1>2, <3>1, <2>2
  <2> QED
    BY <2>1, <2>2
<1>4. ASSUME NEW i \in 1..l, NEW j \in 1..l, i < j
      PROVE  more[i] < more[j]
  <2>1. i # l
    BY <1>1, <1>4 DEF l
  <2>2. CASE j = l
    BY <1>2, <1>3, <2>1, <2>2
  <2>3. CASE j # l
    BY <1>1, <1>2, <1>4, <2>1, <2>3 DEF Filed
  <2> QED
    BY <2>2, <2>3
<1>5. Filed(t, n + 1, more)
  BY <1>1, <1>3, <1>4 DEF Filed
<1> QED
  BY <1>1, <1>2, <1>5 DEF t

LEMMA NumberedInit ==
  ASSUME Init, IsFiniteSet(World)
  PROVE  Numbered
<1>. USE VacsAssumption
<1>1. PICK n \in 0..MaxRecords : \E ws \in [1..n -> Qualified \ {Manager}] :
          /\ IsInjective(ws)
          /\ file = [v \in Version |->
                IF v = VRE_VERSION THEN [i \in 1..n |-> Rec(ws[i], Nth(i))] ELSE <<>>]
  BY DEF Init
<1>2. PICK ws \in [1..n -> Qualified \ {Manager}] :
          /\ IsInjective(ws)
          /\ file = [v \in Version |->
                IF v = VRE_VERSION THEN [i \in 1..n |-> Rec(ws[i], Nth(i))] ELSE <<>>]
  BY <1>1
<1>3. Stored = [i \in 1..n |-> Rec(ws[i], Nth(i))] /\ n \in Nat
  BY <1>2 DEF Stored
<1>4. Stored \in Seq(Record) /\ Len(Stored) = n
  <2>1. \A i \in 1..n : Rec(ws[i], Nth(i)) \in Record
    BY NthChannel DEF Rec, Record
  <2> QED
    BY <1>3, <2>1
<1>5. PICK kept \in [1..Len(Stored) -> Nat] : kept = [i \in 1..n |-> i]
  <2>1. [i \in 1..n |-> i] \in [1..Len(Stored) -> Nat]
    BY <1>3, <1>4
  <2> QED
    BY <2>1
<1>6. Filed(Stored, n + 1, kept)
  BY <1>3, <1>4, <1>5 DEF Filed, Rec
<1>7. vacsList = Loaded(Stored) /\ next = NextOf(Loaded(Stored)) /\ unsaved = {} /\ starts = 0
  BY DEF Init, Stored
<1>8. n + 1 \in Nat /\ 0 < n + 1
  BY <1>3
<1>9. PICK m \in 1..(n + 1) :
            /\ NextOf(Loaded(Stored)) = Nth(m) /\ Filed(Stored, m, kept)
            /\ \E at \in [1..Len(Loaded(Stored)) -> Nat] :
                  Numbering(Loaded(Stored), {}, m, at)
  BY <1>4, <1>6, <1>8, Started
<1>10. Given = n + 1
  <2>1. Len(vacsList) = n + 1
    BY <1>4, <1>7, LoadedRecords
  <2>2. 0 * Cardinality(World) = 0
    BY FS_CardinalityType
  <2> QED
    BY <1>7, <1>8, <2>1, <2>2 DEF Given
<1> QED
  BY <1>7, <1>9, <1>10 DEF Numbered

LEMMA NumberedRestart ==
  ASSUME Inv, Numbered, Restart, IsFiniteSet(World)
  PROVE  Numbered'
<1>0. /\ Stored \in Seq(Record) /\ Stored' = Stored /\ starts \in Nat /\ starts' = starts + 1
      /\ vacsList' = Loaded(Stored) /\ next' = NextOf(Loaded(Stored)) /\ unsaved' = {}
  BY VacsAssumption DEF Inv, TypeOK, Stored, Restart
<1>1. PICK n \in Nat :
       /\ 0 < n /\ n <= Given
       /\ \E kept \in [1..Len(Stored) -> Nat] : Filed(Stored, n, kept)
  BY DEF Numbered
<1>2. PICK kept \in [1..Len(Stored) -> Nat] : Filed(Stored, n, kept)
  BY <1>1
<1>3. PICK m \in 1..n :
            /\ NextOf(Loaded(Stored)) = Nth(m) /\ Filed(Stored, m, kept)
            /\ \E at \in [1..Len(Loaded(Stored)) -> Nat] :
                  Numbering(Loaded(Stored), {}, m, at)
  BY <1>0, <1>1, <1>2, Started
<1>4. m \in Nat /\ 0 < m /\ m <= Given'
  <2>1. Len(vacsList) <= Cardinality(World) /\ Cardinality(World) \in Nat
    BY OnceShort DEF Inv, TypeOK
  <2>2. starts' * Cardinality(World) = starts * Cardinality(World) + Cardinality(World)
        /\ starts * Cardinality(World) \in Nat
    BY <1>0, <2>1
  <2>3. Len(vacsList) \in Nat /\ Len(vacsList') \in Nat
    BY <1>0, LoadedRecords DEF Inv, TypeOK
  <2>4. Given <= Given' /\ Given \in Nat /\ Given' \in Nat
    BY <2>1, <2>2, <2>3 DEF Given
  <2> QED
    BY <1>1, <2>4
<1> QED
  BY <1>0, <1>3, <1>4 DEF Numbered

LEMMA NumberedListed ==
  ASSUME Inv, Numbered, IsFiniteSet(World), NEW w \in World, Listed(w), starts' = starts,
         unsaved \subseteq unsaved',
         \/ /\ next' = After(next)
            /\ Stored' = Stored \/ Stored' = Append(Stored, Rec(w, next))
         \/ next' = next /\ w \in unsaved' /\ Stored' = Stored
  PROVE  Numbered'
<1>0. /\ Stored \in Seq(Record) /\ starts \in Nat /\ Cardinality(World) \in Nat
      /\ vacsList \in Seq(Record) /\ next \in Channel
  BY VacsAssumption, FS_CardinalityType DEF Inv, TypeOK, Stored
<1>1. PICK n \in Nat :
       /\ 0 < n /\ n <= Given /\ next = Nth(n)
       /\ \E at \in [1..Len(vacsList) -> Nat] : Numbering(vacsList, unsaved, n, at)
       /\ \E kept \in [1..Len(Stored) -> Nat] : Filed(Stored, n, kept)
  BY DEF Numbered
<1>2. PICK at \in [1..Len(vacsList) -> Nat] : Numbering(vacsList, unsaved, n, at)
  BY <1>1
<1>3. PICK kept \in [1..Len(Stored) -> Nat] : Filed(Stored, n, kept)
  BY <1>1
<1>4. next' = After(next) => next' = Nth(n + 1)
  BY <1>1, AfterNth
<1>5. Given' = Given + 1 /\ Given \in Nat
  <2>1. Len(vacsList') = Len(vacsList) + 1 /\ Len(vacsList) \in Nat
    BY <1>0 DEF Listed
  <2>2. starts * Cardinality(World) \in Nat
    BY <1>0
  <2> QED
    BY <2>1, <2>2 DEF Given
<1>6. CASE next' = After(next) /\ (Stored' = Stored \/ Stored' = Append(Stored, Rec(w, next)))
  <2>1. PICK new \in [1..Len(vacsList') -> Nat] : Numbering(vacsList', unsaved', n + 1, new)
    <3>1. n + 1 \in Nat /\ (n + 1 = n + 1 \/ (n + 1 = n /\ w \in unsaved'))
      OBVIOUS
    <3> QED
      BY <1>1, <1>2, <3>1, ListedNumbering
  <2>2. PICK kept2 \in [1..Len(Stored') -> Nat] : Filed(Stored', n + 1, kept2)
    <3>1. CASE Stored' = Stored
      <4>1. Filed(Stored, n + 1, kept)
        BY <1>0, <1>3, SMTT(30) DEF Filed
      <4> QED
        BY <3>1, <4>1
    <3>2. CASE Stored' = Append(Stored, Rec(w, next))
      <4>1. Rec(w, next) \in Record /\ Rec(w, next).channel = Nth(n)
        BY <1>0, <1>1 DEF Rec, Record
      <4> QED
        BY <1>0, <1>1, <1>3, <3>2, <4>1, AppendedFiled
    <3> QED
      BY <1>6, <3>1, <3>2
  <2>3. n + 1 \in Nat /\ 0 < n + 1 /\ n + 1 <= Given'
    BY <1>1, <1>5
  <2> QED
    BY <1>4, <1>6, <2>1, <2>2, <2>3 DEF Numbered
<1>7. CASE next' = next /\ w \in unsaved' /\ Stored' = Stored
  <2>1. PICK new \in [1..Len(vacsList') -> Nat] : Numbering(vacsList', unsaved', n, new)
    BY <1>1, <1>2, <1>7, ListedNumbering
  <2>2. n <= Given'
    BY <1>1, <1>5
  <2> QED
    BY <1>1, <1>3, <1>7, <2>1, <2>2 DEF Numbered
<1> QED
  BY <1>6, <1>7

LEMMA NumberedNext ==
  ASSUME Inv, Numbered, [Next]_vars, IsFiniteSet(World)
  PROVE  Numbered'
<1>0. Stored \in Seq(Record) /\ file \in [Version -> Seq(Record)] /\ VRE_VERSION \in Version
  BY VacsAssumption DEF Inv, TypeOK, Stored
<1>1. CASE Restart
  BY <1>1, NumberedRestart
<1>2. CASE UNCHANGED <<file, vacsList, next, starts, unsaved>>
  BY <1>2 DEF Numbered, Given, Stored
<1>3. ASSUME NEW w \in World, Add(w) PROVE Numbered'
  <2>1. Stored' = Stored \/ Stored' = Append(Stored, Rec(w, next))
    BY <1>0, <1>3 DEF Add, Stored, Written
  <2> QED
    BY <1>3, <2>1, NumberedListed DEF Add
<1>4. ASSUME NEW w \in World, AddLocal(w) PROVE Numbered'
  <2>1. Stored' = Stored
    BY <1>4 DEF AddLocal, Stored
  <2> QED
    BY <1>4, <2>1, NumberedListed DEF AddLocal
<1>5. ASSUME NEW w \in World, AddUnsaved(w) PROVE Numbered'
  <2>1. Stored' = Stored /\ unsaved \subseteq unsaved' /\ w \in unsaved'
    BY <1>5 DEF AddUnsaved, Stored
  <2> QED
    BY <1>5, <2>1, NumberedListed DEF AddUnsaved
<1> QED
  BY <1>1, <1>2, <1>3, <1>4, <1>5, Zenon DEF Next, List, vars

LEMMA NumberedDistinct ==
  ASSUME Enough, Inv, Numbered
  PROVE  ChannelsDistinct
<1>1. Len(vacsList) <= Cardinality(World) /\ Cardinality(World) \in Nat
      /\ Len(vacsList) \in Nat /\ starts \in Nat /\ starts <= MaxStarts /\ MaxStarts \in Nat
  BY OnceShort, VacsAssumption DEF Inv, TypeOK, Enough
<1>2. PICK n \in Nat :
       /\ 0 < n /\ n <= Given
       /\ \E at \in [1..Len(vacsList) -> Nat] : Numbering(vacsList, unsaved, n, at)
  BY DEF Numbered
<1>3. PICK at \in [1..Len(vacsList) -> Nat] : Numbering(vacsList, unsaved, n, at)
  BY <1>2
<1>4. n <= (MaxStarts + 1) * Cardinality(World)
  <2>1. PICK c \in Nat : c = Cardinality(World)
    BY <1>1
  <2>2. PICK d \in Nat : MaxStarts = starts + d
    BY <1>1
  <2>3. PICK x \in Nat : x = starts * c
    BY <1>1
  <2>4. PICK y \in Nat : y = d * c
    OBVIOUS
  <2>5. (MaxStarts + 1) * Cardinality(World) = x + y + c
    <3>1. (starts + d + 1) * c = (starts * c) + (d * c) + c
      BY <1>1
    <3> QED
      BY <2>1, <2>2, <2>3, <2>4, <3>1
  <2>6. Given = Len(vacsList) + x
    BY <2>1, <2>3 DEF Given
  <2>7. Len(vacsList) <= c
    BY <1>1, <2>1
  <2>8. n <= Len(vacsList) + x /\ Len(vacsList) \in Nat
    BY <1>1, <1>2, <2>6
  <2> QED
    BY <2>5, <2>7, <2>8
<1>5. ASSUME NEW i \in 1..Len(vacsList)
      PROVE  at[i] \in 0..((MaxStarts + 1) * Cardinality(World))
  <2>1. at[i] \in Nat /\ at[i] <= n /\ (MaxStarts + 1) * Cardinality(World) \in Nat
    BY <1>1, <1>3 DEF Numbering
  <2> QED
    BY <1>4, <2>1
<1>6. ASSUME NEW i \in 1..Len(vacsList), NEW j \in 1..Len(vacsList), i < j,
             vacsList[i].channel = vacsList[j].channel
      PROVE  vacsList[i].world \in unsaved
  <2>1. Nth(at[i]) = Nth(at[j])
    BY <1>3, <1>6 DEF Numbering
  <2>2. at[i] = at[j]
    BY <1>5, <2>1 DEF Enough
  <2> QED
    BY <1>3, <1>6, <2>2 DEF Numbering
<1>7. DOMAIN vacsList = 1..Len(vacsList)
  BY DEF Inv, TypeOK
<1> QED
  BY <1>6, <1>7 DEF ChannelsDistinct

(***************************************************************************)
(* Two worlds have one channel only when the first of them could not be    *)
(* appended to the file, for any number of worlds, versions and starts     *)
(* within the channels there are (addCache, loadCache).                    *)
(***************************************************************************)
THEOREM VacsChannelsDistinct ==
  ASSUME Enough
  PROVE  Spec => []ChannelsDistinct
<1>1. Init => Inv /\ Numbered
  BY InvInit, NumberedInit DEF Enough
<1>2. Inv /\ Numbered /\ [Next]_vars => (Inv /\ Numbered)'
  BY InvNext, NumberedNext DEF Enough
<1>3. Inv /\ Numbered => ChannelsDistinct
  BY NumberedDistinct
<1> QED
  BY <1>1, <1>2, <1>3, PTL DEF Spec
=============================================================================
