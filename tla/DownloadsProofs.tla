--------------------------- MODULE DownloadsProofs ---------------------------
(***************************************************************************)
(* Proofs about HTTP downloads, for any number of requests, documents and  *)
(* kills and any size of the buffer: readers are called once and places    *)
(* given back, and as long as there are no threads readers read the        *)
(* beginning of what was asked for.                                        *)
(***************************************************************************)
EXTENDS Downloads, FiniteSetTheorems, TLAPS

\* The bytes of document u after the a-th, to the b-th
Piece(u, a, b) == [i \in 1..(b - a) |-> <<u, a + i>>]

Byte == Url \X (1..Size)

Phases == {"idle", "started", "lost", "asked", "reading", "ending", "over", "killed"}
          \cup Opening

\* Requests on their way, the caller of httpOpen waiting for them or not
Active == {r \in Request : phase[r] \in {"started", "asked", "reading"} \cup Opening}

\* Without threads there is one at a time, as the main thread waits
Alone ==
    ~threaded => /\ \A r \in Active : KindOf[r] # "gif"
                 /\ \A r, t \in Active : r = t

\* and the buffer holds the bytes of its document after those its reader has got
Stream(r) ==
    IF phase[r] \in {"reading", "copying"}
    THEN \E a \in 0..sent[r] : /\ htbuf = Piece(UrlOf[r], a, sent[r])
                               /\ Got(r) = Piece(UrlOf[r], 0, a)
    ELSE htbuf = <<>>

Undisturbed == ~threaded => \A r \in Active : Stream(r)

\* A request whose reader was not called has read nothing, and no one reads too much
Fresh ==
    \A r \in Request :
        /\ phase[r] \in {"idle", "started", "asked", "opening", "creating"} =>
              sent[r] = 0 /\ read[r] = <<>>
        /\ sent[r] <= last[r]

Filed == \A r \in Request : phase[r] = "copying" => file[Cache(r)] # Absent

CalledBefore == \A r \in Request : phase[r] \in {"reading"} \cup Opening => called[r] = 1

Counted == \A r \in counted : KindOf[r] = "gif" /\ phase[r] # "idle"

Inv ==
    /\ TypeOK /\ ReaderOnce /\ CalledBefore /\ Counted /\ PlacesFreed
    /\ Fresh /\ Filed /\ Alone /\ Undisturbed /\ BeginningRead
-----------------------------------------------------------------------------
(* Pieces of documents. *)

LEMMA Cached == \A r \in Request : UrlOf[r] \in Url /\ Cache(r) \in File
                                   /\ NameOf[UrlOf[r]] = Cache(r)
  BY DownloadsAssumption DEF Cache

LEMMA PieceBytes ==
  ASSUME NEW u \in Url, NEW a \in Nat, NEW b \in Nat, a <= b, b <= Size
  PROVE  /\ Piece(u, a, b) \in Seq(Byte) /\ Len(Piece(u, a, b)) = b - a
         /\ (a = b => Piece(u, a, b) = <<>>) /\ (Piece(u, a, b) = <<>> => a = b)
<1>1. \A i \in 1..(b - a) : <<u, a + i>> \in Byte
  BY DownloadsAssumption DEF Byte
<1>2. b - a \in Nat
  OBVIOUS
<1>3. Piece(u, a, b) \in [1..(b - a) -> Byte]
  BY <1>1 DEF Piece
<1>4. Piece(u, a, b) \in Seq(Byte) /\ Len(Piece(u, a, b)) = b - a
  BY <1>2, <1>3
<1> QED
  BY <1>4

LEMMA PieceNext ==
  ASSUME NEW u \in Url, NEW a \in Nat, NEW b \in Nat, a < b, b <= Size
  PROVE  /\ Head(Piece(u, a, b)) = <<u, a + 1>>
         /\ Tail(Piece(u, a, b)) = Piece(u, a + 1, b)
<1>0. a + 1 \in Nat /\ a <= b /\ a # b /\ a + 1 <= b
  OBVIOUS
<1>1. /\ Piece(u, a, b) \in Seq(Byte) /\ Len(Piece(u, a, b)) = b - a
      /\ Piece(u, a, b) # <<>>
  BY <1>0, PieceBytes
<1>2. /\ Piece(u, a + 1, b) \in Seq(Byte) /\ Len(Piece(u, a + 1, b)) = b - (a + 1)
  BY <1>0, PieceBytes
<1>3. Head(Piece(u, a, b)) = <<u, a + 1>>
  BY <1>1 DEF Piece
<1>4. /\ Tail(Piece(u, a, b)) \in Seq(Byte)
      /\ Len(Tail(Piece(u, a, b))) = b - (a + 1)
      /\ \A i \in 1..(b - (a + 1)) : Tail(Piece(u, a, b))[i] = Piece(u, a, b)[i + 1]
  BY <1>1
<1>5. \A i \in 1..(b - (a + 1)) : Piece(u, a, b)[i + 1] = Piece(u, a + 1, b)[i]
  BY DEF Piece
<1> QED
  BY <1>2, <1>3, <1>4, <1>5

LEMMA PieceGrows ==
  ASSUME NEW u \in Url, NEW a \in Nat, a < Size
  PROVE  Append(Piece(u, 0, a), <<u, a + 1>>) = Piece(u, 0, a + 1)
<1>. DEFINE s == Append(Piece(u, 0, a), <<u, a + 1>>)
<1>0. Size \in Nat
  BY DownloadsAssumption
<1>1. Piece(u, 0, a) \in Seq(Byte) /\ Len(Piece(u, 0, a)) = a
  BY <1>0, PieceBytes
<1>2. Piece(u, 0, a + 1) \in Seq(Byte) /\ Len(Piece(u, 0, a + 1)) = a + 1
  BY <1>0, PieceBytes
<1>3. <<u, a + 1>> \in Byte
  BY <1>0 DEF Byte
<1>4. s \in Seq(Byte) /\ Len(s) = a + 1
  BY <1>1, <1>3
<1>5. \A i \in 1..(a + 1) : s[i] = <<u, i>>
  BY <1>1 DEF Piece
<1>6. \A i \in 1..(a + 1) : Piece(u, 0, a + 1)[i] = <<u, i>>
  BY DEF Piece
<1>. HIDE DEF s
<1>7. s = Piece(u, 0, a + 1)
  <2>1. s \in [1..(a + 1) -> Byte]
    BY <1>4
  <2>2. Piece(u, 0, a + 1) \in [1..(a + 1) -> Byte]
    BY <1>2
  <2>3. \A i \in 1..(a + 1) : s[i] = Piece(u, 0, a + 1)[i]
    BY <1>5, <1>6
  <2> QED
    BY <2>1, <2>2, <2>3
<1> QED
  BY <1>7 DEF s

LEMMA PiecePrefix ==
  ASSUME NEW u \in Url, NEW a \in Nat, a <= Size
  PROVE  IsPrefix(Piece(u, 0, a), Document(u))
<1>0. Size \in Nat
  BY DownloadsAssumption
<1>1. Piece(u, 0, a) \in Seq(Byte) /\ Len(Piece(u, 0, a)) = a
  BY <1>0, PieceBytes
<1>2. Document(u) = Piece(u, 0, Size)
  BY <1>0 DEF Document, Piece
<1>3. Document(u) \in Seq(Byte) /\ Len(Document(u)) = Size
  BY <1>0, <1>2, PieceBytes
<1>4. SubSeq(Piece(u, 0, a), 1, a) = SubSeq(Document(u), 1, a)
  BY <1>0, <1>1, <1>3 DEF Piece, Document
<1> QED
  BY <1>1, <1>3, <1>4 DEF IsPrefix

LEMMA Smallest ==
  ASSUME NEW a \in Int, NEW b \in Int
  PROVE  Min({a, b}) = IF a <= b THEN a ELSE b
<1>1. CASE a <= b
  <2>1. \A y \in {a, b} : a =< y
    BY <1>1
  <2>2. \A x \in {a, b} : (\A y \in {a, b} : x =< y) => x = a
    BY <1>1
  <2> QED
    BY <1>1, <2>1, <2>2 DEF Min
<1>2. CASE b < a
  <2>1. \A y \in {a, b} : b =< y
    BY <1>2
  <2>2. \A x \in {a, b} : (\A y \in {a, b} : x =< y) => x = b
    BY <1>2
  <2> QED
    BY <1>2, <2>1, <2>2 DEF Min
<1> QED
  BY <1>1, <1>2
-----------------------------------------------------------------------------
(* Readers. *)

\* What httpRead fills an empty buffer with
LEMMA FillsPiece ==
  ASSUME Inv, NEW r \in Request, htbuf = <<>>
  PROVE  \E b \in Nat : /\ sent[r] <= b /\ b <= last[r] /\ b <= Size
                        /\ Filled(r) = Piece(UrlOf[r], sent[r], b)
                        /\ Len(Filled(r)) = b - sent[r]
<1>. DEFINE n == Min({BufSize, last[r] - sent[r]})
            b == sent[r] + n
<1>1. /\ sent[r] \in 0..Size /\ last[r] \in 0..Size /\ sent[r] <= last[r]
      /\ Size \in Nat /\ BufSize \in Nat /\ UrlOf[r] \in Url
  BY DownloadsAssumption DEF Inv, TypeOK, Fresh
<1>2. n \in Nat /\ n <= last[r] - sent[r]
  BY <1>1, Smallest
<1>3. Filled(r) = [i \in 1..n |-> <<UrlOf[r], sent[r] + i>>]
  BY DEF Filled
<1>. HIDE DEF n
<1>4. b \in Nat /\ b - sent[r] = n /\ sent[r] <= b /\ b <= last[r] /\ b <= Size
      /\ sent[r] \in Nat
  BY <1>1, <1>2
<1>. HIDE DEF b
<1>5. Filled(r) = Piece(UrlOf[r], sent[r], b)
  BY <1>3, <1>4 DEF Piece
<1>6. Len(Piece(UrlOf[r], sent[r], b)) = b - sent[r]
  BY <1>1, <1>4, PieceBytes
<1> QED
  BY <1>4, <1>5, <1>6

\* A getChar in itself: the buffer keeps bytes, and no one reads too much
LEMMA Reading ==
  ASSUME Inv, NEW r \in Request, Reads(r)
  PROVE  /\ Filled(r) \in Seq(Byte) /\ Filled(r) # <<>>
         /\ Head(Filled(r)) \in Byte /\ Tail(Filled(r)) \in Seq(Byte)
         /\ sent' \in [Request -> 0..Size] /\ sent'[r] <= last[r]
         /\ \A t \in Request \ {r} : sent'[t] = sent[t]
<1>1. /\ sent \in [Request -> 0..Size] /\ last \in [Request -> 0..Size] /\ Size \in Nat
      /\ sent[r] \in 0..Size /\ last[r] \in 0..Size /\ sent[r] <= last[r]
      /\ UrlOf[r] \in Url /\ htbuf \in Seq(Byte)
  BY DownloadsAssumption DEF Inv, TypeOK, Fresh, Byte
<1>2. /\ Filled(r) # <<>>
      /\ sent' = [sent EXCEPT ![r] = IF htbuf = <<>> THEN @ + Len(Filled(r)) ELSE @]
  BY DEF Reads
<1>3. /\ Filled(r) \in Seq(Byte)
      /\ sent' = [sent EXCEPT ![r] = sent'[r]]
      /\ sent'[r] \in 0..Size /\ sent'[r] <= last[r]
  <2>1. CASE htbuf # <<>>
    BY <1>1, <1>2, <2>1 DEF Filled
  <2>2. CASE htbuf = <<>>
    <3>1. PICK b \in Nat : /\ sent[r] <= b /\ b <= last[r] /\ b <= Size
                          /\ Filled(r) = Piece(UrlOf[r], sent[r], b)
                          /\ Len(Filled(r)) = b - sent[r]
      BY <2>2, FillsPiece
    <3>2. sent[r] \in Nat
      BY <1>1
    <3>3. Piece(UrlOf[r], sent[r], b) \in Seq(Byte)
      BY <1>1, <3>1, <3>2, PieceBytes
    <3>4. sent[r] + Len(Filled(r)) = b /\ b \in 0..Size
      BY <1>1, <3>1, <3>2
    <3> QED
      BY <1>1, <1>2, <2>2, <3>1, <3>3, <3>4
  <2> QED
    BY <2>1, <2>2
<1>4. Head(Filled(r)) \in Byte /\ Tail(Filled(r)) \in Seq(Byte)
  BY <1>2, <1>3
<1> QED
  BY <1>1, <1>2, <1>3, <1>4

\* What a reader gets stays of its type
LEMMA Getting ==
  ASSUME Inv, NEW r \in Request, NEW s \in Seq(Byte) \cup {Garbled}, Get(r, s)
  PROVE  /\ read' \in [Request -> Seq(Byte) \cup {Garbled}]
         /\ file' \in [File -> Seq(Byte) \cup {Absent, Garbled}]
         /\ \A t \in Request : t # r => read'[t] = read[t]
         /\ \A f \in File : file[f] # Absent => file'[f] # Absent
<1>1. /\ read \in [Request -> Seq(Byte) \cup {Garbled}]
      /\ file \in [File -> Seq(Byte) \cup {Absent, Garbled}]
  BY DEF Inv, TypeOK, Byte
<1>2. s # Absent
  <2>1. \A x \in Seq(Byte) : x \in Seq(Url \X Nat)
    BY DEF Byte
  <2> QED
    BY <2>1, DownloadsAssumption
<1> QED
  BY <1>1, <1>2 DEF Get

LEMMA GotType ==
  ASSUME Inv, NEW r \in Request, phase[r] \in {"reading", "copying"}
  PROVE  Got(r) \in Seq(Byte) \cup {Garbled}
  BY Cached DEF Inv, TypeOK, Filed, Got, Byte

\* The byte getChar returns without threads is the next one of the document
LEMMA NextByte ==
  ASSUME Inv, ~threaded, NEW r \in Request, GetChar(r)
  PROVE  \E a \in 1..Size : /\ a <= sent'[r] /\ Get(r, Piece(UrlOf[r], 0, a))
                            /\ htbuf' = Piece(UrlOf[r], a, sent'[r])
<1>. DEFINE u == UrlOf[r]
<1>1. /\ Reads(r) /\ phase[r] \in {"reading", "copying"} /\ Filled(r) # <<>>
      /\ htbuf' = Tail(Filled(r))
      /\ sent' = [sent EXCEPT ![r] = IF htbuf = <<>> THEN @ + Len(Filled(r)) ELSE @]
      /\ Get(r, IF Got(r) = Garbled THEN Garbled ELSE Append(Got(r), Head(Filled(r))))
  BY DEF GetChar, Reads
<1>2. r \in Active
  BY <1>1 DEF Active, Opening
<1>3. PICK a \in 0..sent[r] : htbuf = Piece(u, a, sent[r]) /\ Got(r) = Piece(u, 0, a)
  BY <1>1, <1>2 DEF Inv, Undisturbed, Stream
<1>4. /\ sent \in [Request -> 0..Size] /\ sent[r] \in 0..Size /\ Size \in Nat
      /\ last[r] \in 0..Size /\ u \in Url /\ sent[r] \in Nat /\ a \in Nat
      /\ a <= sent[r] /\ sent[r] <= Size /\ a <= Size
  BY Cached, DownloadsAssumption DEF Inv, TypeOK
<1>. HIDE DEF u
<1>5. PICK b \in Nat : a <= b /\ b <= Size /\ Filled(r) = Piece(u, a, b) /\ sent'[r] = b
  <2>1. CASE htbuf # <<>>
    BY <1>1, <1>3, <1>4, <2>1 DEF Filled
  <2>2. CASE htbuf = <<>>
    <3>1. Piece(u, a, sent[r]) = <<>> => a = sent[r]
      BY <1>4, PieceBytes
    <3>2. a = sent[r]
      BY <1>3, <2>2, <3>1
    <3>3. PICK b \in Nat : /\ sent[r] <= b /\ b <= last[r] /\ b <= Size
                          /\ Filled(r) = Piece(UrlOf[r], sent[r], b)
                          /\ Len(Filled(r)) = b - sent[r]
      BY <2>2, FillsPiece
    <3>4. sent'[r] = b
      BY <1>1, <1>4, <2>2, <3>3
    <3> QED
      BY <3>2, <3>3, <3>4 DEF u
  <2> QED
    BY <2>1, <2>2
<1>6. a < b
  <2>1. a = b => Piece(u, a, b) = <<>>
    BY <1>4, <1>5, PieceBytes
  <2> QED
    BY <1>1, <1>4, <1>5, <2>1
<1>7. Head(Filled(r)) = <<u, a + 1>> /\ htbuf' = Piece(u, a + 1, b)
  BY <1>1, <1>4, <1>5, <1>6, PieceNext
<1>8. Append(Got(r), Head(Filled(r))) = Piece(u, 0, a + 1)
  <2>1. a < Size
    BY <1>4, <1>5, <1>6
  <2> QED
    BY <1>3, <1>4, <1>7, <2>1, PieceGrows
<1>9. Got(r) # Garbled
  <2>1. Piece(u, 0, a) \in Seq(Byte)
    BY <1>4, PieceBytes
  <2>2. \A x \in Seq(Byte) : x \in Seq(Url \X Nat)
    BY DEF Byte
  <2> QED
    BY <1>3, <2>1, <2>2, DownloadsAssumption
<1>10. a + 1 \in 1..Size /\ a + 1 <= sent'[r]
  BY <1>4, <1>5, <1>6
<1>11. Get(r, Piece(u, 0, a + 1))
  BY <1>1, <1>8, <1>9
<1> QED
  BY <1>5, <1>7, <1>10, <1>11 DEF u
-----------------------------------------------------------------------------
(* The invariant. *)

LEMMA InvInit == Init => Inv
<1>. SUFFICES ASSUME Init PROVE Inv
  OBVIOUS
<1>. USE DownloadsAssumption
<1>1. TypeOK
  <2>1. <<>> \in Seq(Url \X (1..Size)) /\ 0 \in 0..Size /\ 0 \in 0..MaxSimCon /\ 0 \in 0..MaxKills
    OBVIOUS
  <2>2. /\ Zero \in [Request -> 0..Size] /\ Zero \in [Request -> Nat]
        /\ [r \in Request |-> <<>>] \in [Request -> Seq(Url \X (1..Size)) \cup {Garbled}]
        /\ [f \in File |-> Absent] \in [File -> Seq(Url \X (1..Size)) \cup {Absent, Garbled}]
    BY <2>1 DEF Zero
  <2> QED
    BY <2>1, <2>2 DEF Init, TypeOK
<1>2. ReaderOnce /\ CalledBefore /\ Counted /\ Fresh /\ Filed /\ Alone /\ Undisturbed
  BY DEF Init, Zero, ReaderOnce, CalledBefore, Counted, Fresh, Filed, Alone, Undisturbed,
         Stream, Active, Opening
<1>3. PlacesFreed
  BY FS_EmptySet DEF Init, PlacesFreed
<1>4. BeginningRead
  <2>1. \A u \in Url : Piece(u, 0, 0) = <<>> /\ IsPrefix(Piece(u, 0, 0), Document(u))
    BY PieceBytes, PiecePrefix
  <2> QED
    BY <2>1, Cached DEF Init, BeginningRead
<1> QED
  BY <1>1, <1>2, <1>3, <1>4 DEF Inv

\* What opening a connection does
Opened(r, p) ==
    /\ phase[r] = "idle" /\ phase' = [phase EXCEPT ![r] = p] /\ ~Busy
    /\ htbuf' = <<>> /\ UNCHANGED <<refused, sent, last, read, file, kills>>
    /\ IF p \in {"reading", "ending"}
       THEN called' = [called EXCEPT ![r] = @ + 1] ELSE called' = called
    /\ p = "started" /\ KindOf[r] = "gif" => threaded'
    /\ p = "reading" => KindOf[r] = "list"
    /\ threaded => threaded'

LEMMA Opens ==
  ASSUME NEW r \in Request, OpenCached(r) \/ OpenInline(r) \/ OpenThread(r)
  PROVE  \E p \in {"reading", "ending", "started", "lost"} : Opened(r, p)
<1>1. CASE OpenCached(r)
  <2>1. Opened(r, IF KindOf[r] = "list" THEN "reading" ELSE "ending")
    BY <1>1 DEF OpenCached, Open, Opened, Reset
  <2> QED
    BY <2>1
<1>2. CASE OpenInline(r)
  <2>1. Opened(r, "started")
    BY <1>2 DEF OpenInline, Open, Opened, Reset
  <2> QED
    BY <2>1
<1>3. CASE OpenThread(r)
  <2>1. Opened(r, "started") \/ Opened(r, "lost")
    BY <1>3 DEF OpenThread, Open, Opened, Reset
  <2> QED
    BY <2>1
<1> QED
  BY <1>1, <1>2, <1>3

LEMMA TypeStep ==
  ASSUME Inv, Next
  PROVE  TypeOK'
<1>. USE DownloadsAssumption DEF Opening
<1>0. TypeOK /\ Fresh
  BY DEF Inv
<1>1. ASSUME NEW r \in Request, OpenCached(r)
      PROVE  TypeOK'
  BY <1>0, <1>1 DEF OpenCached, Open, Reset, pool, TypeOK
<1>2. ASSUME NEW r \in Request, OpenInline(r)
      PROVE  TypeOK'
  BY <1>0, <1>2 DEF OpenInline, Open, Reset, pool, TypeOK
<1>3. ASSUME NEW r \in Request, OpenThread(r)
      PROVE  TypeOK'
  <2>1. nbsimcon' \in 0..MaxSimCon /\ waiting' \in Nat /\ counted' \subseteq Request
    BY <1>0, <1>3 DEF OpenThread, TypeOK
  <2>2. Open(r) /\ UNCHANGED called
    BY <1>3 DEF OpenThread
  <2>3. /\ threaded' \in BOOLEAN
        /\ \E p \in {"started", "lost"} : phase' = [phase EXCEPT ![r] = p]
    BY <1>0, <1>3 DEF OpenThread, TypeOK
  <2> QED
    BY <1>0, <2>1, <2>2, <2>3 DEF Open, Reset, TypeOK
<1>4. ASSUME NEW r \in Request, Fail(r) \/ Ask(r)
      PROVE  TypeOK'
  <2>1. CASE Fail(r)
    BY <1>0, <2>1 DEF Fail, pool, TypeOK
  <2>2. CASE Ask(r)
    BY <1>0, <2>2 DEF Ask, Reset, pool, TypeOK
  <2> QED
    BY <1>4, <2>1, <2>2
<1>5. ASSUME NEW r \in Request, NEW n \in Arriving, Answer(r, n)
      PROVE  TypeOK'
  <2>1. n \in 0..Size
    OBVIOUS
  <2> QED
    BY <1>0, <1>5, <2>1 DEF Answer, Called, pool, TypeOK
<1>6. ASSUME NEW r \in Request, FindFile(r) \/ FindNone(r)
      PROVE  TypeOK'
  BY <1>0, <1>6 DEF FindFile, FindNone, pool, TypeOK
<1>7. ASSUME NEW r \in Request, MakeFile(r)
      PROVE  TypeOK'
  <2>. DEFINE s == IF \E t \in Request : phase[t] = "copying" /\ Cache(t) = Cache(r)
                   THEN Garbled ELSE <<>>
  <2>1. s \in Seq(Url \X (1..Size)) \cup {Garbled} /\ file' = [file EXCEPT ![Cache(r)] = s]
    BY <1>7 DEF MakeFile
  <2>. HIDE DEF s
  <2>2. file' \in [File -> Seq(Url \X (1..Size)) \cup {Absent, Garbled}]
    BY <1>0, <2>1 DEF TypeOK
  <2> QED
    BY <1>0, <1>7, <2>2 DEF MakeFile, pool, TypeOK
<1>8. ASSUME NEW r \in Request, NEW s \in Seq(Byte) \cup {Garbled}, Reads(r), Get(r, s),
             htbuf' \in Seq(Byte)
      PROVE  TypeOK'
  <2>1. /\ sent' \in [Request -> 0..Size]
        /\ UNCHANGED <<phase, refused, last, called, nbsimcon, waiting, counted, threaded, kills>>
    BY <1>8, Reading DEF Reads, pool
  <2>2. /\ read' \in [Request -> Seq(Byte) \cup {Garbled}]
        /\ file' \in [File -> Seq(Byte) \cup {Absent, Garbled}]
    BY <1>8, Getting
  <2> QED
    BY <1>0, <1>8, <2>1, <2>2 DEF TypeOK, Byte
<1>9. ASSUME NEW r \in Request, GetChar(r)
      PROVE  TypeOK'
  <2>. DEFINE s == IF Got(r) = Garbled THEN Garbled ELSE Append(Got(r), Head(Filled(r)))
  <2>1. Reads(r) /\ phase[r] \in {"reading", "copying"} /\ Get(r, s)
        /\ htbuf' = Tail(Filled(r))
    BY <1>9 DEF GetChar, Reads
  <2>2. Head(Filled(r)) \in Byte /\ Tail(Filled(r)) \in Seq(Byte)
    BY <2>1, Reading
  <2>3. Got(r) \in Seq(Byte) \cup {Garbled}
    BY <2>1, GotType
  <2>4. s \in Seq(Byte) \cup {Garbled}
    BY <2>2, <2>3
  <2>. HIDE DEF s
  <2> QED
    BY <1>8, <2>1, <2>2, <2>4
<1>10. ASSUME NEW r \in Request, GetCharRaced(r)
       PROVE  TypeOK'
  <2>1. Reads(r) /\ Get(r, Garbled) /\ htbuf' \in {Tail(Filled(r)), <<>>}
    BY <1>10 DEF GetCharRaced
  <2>2. Tail(Filled(r)) \in Seq(Byte) /\ <<>> \in Seq(Byte)
    BY <2>1, Reading
  <2> QED
    BY <1>8, <2>1, <2>2
<1>11. ASSUME NEW r \in Request, ReadAll(r)
       PROVE  TypeOK'
  BY <1>0, <1>11 DEF ReadAll, pool, TypeOK
<1>12. ASSUME NEW r \in Request, Delete(r)
       PROVE  TypeOK'
  BY <1>0, <1>12 DEF Delete, End, TypeOK
<1>13. ASSUME Kill
       PROVE  TypeOK'
  BY <1>0, <1>13 DEF Kill, Zero, TypeOK
<1> QED
  BY <1>1, <1>2, <1>3, <1>4, <1>5, <1>6, <1>7, <1>9, <1>10, <1>11, <1>12, <1>13
  DEF Next, Step

LEMMA OnceStep ==
  ASSUME Inv, Next
  PROVE  ReaderOnce' /\ CalledBefore'
<1>. USE DEF Opening
<1>0. /\ ReaderOnce /\ CalledBefore
      /\ phase \in [Request -> Phases] /\ called \in [Request -> Nat]
  BY DEF Inv, TypeOK, Phases
<1>1. ASSUME NEW r \in Request, phase[r] \in {"idle", "started", "asked"},
             NEW p \in {"reading", "opening", "ending"},
             called' = [called EXCEPT ![r] = @ + 1], phase' = [phase EXCEPT ![r] = p]
      PROVE  ReaderOnce' /\ CalledBefore'
  <2>1. called[r] = 0 /\ called'[r] = 1
    BY <1>0, <1>1 DEF ReaderOnce
  <2> QED
    BY <1>0, <1>1, <2>1 DEF ReaderOnce, CalledBefore
<1>2. ASSUME NEW r \in Request, phase[r] \in {"idle", "started"},
             NEW p \in {"started", "lost", "asked"},
             called' = called, phase' = [phase EXCEPT ![r] = p]
      PROVE  ReaderOnce' /\ CalledBefore'
  BY <1>0, <1>2 DEF ReaderOnce, CalledBefore
<1>3. ASSUME NEW r \in Request, phase[r] \in {"reading"} \cup Opening,
             NEW p \in {"creating", "copying", "ending"},
             called' = called, phase' = [phase EXCEPT ![r] = p]
      PROVE  ReaderOnce' /\ CalledBefore'
  BY <1>0, <1>3 DEF ReaderOnce, CalledBefore
<1>4. ASSUME UNCHANGED <<phase, called>>
      PROVE  ReaderOnce' /\ CalledBefore'
  BY <1>0, <1>4 DEF ReaderOnce, CalledBefore
<1>5. ASSUME NEW r \in Request, OpenCached(r) \/ OpenInline(r) \/ OpenThread(r)
      PROVE  ReaderOnce' /\ CalledBefore'
  <2>1. PICK p \in {"reading", "ending", "started", "lost"} : Opened(r, p)
    BY <1>5, Opens
  <2>2. CASE p \in {"reading", "ending"}
    BY <1>1, <2>1, <2>2 DEF Opened
  <2>3. CASE p \in {"started", "lost"}
    BY <1>2, <2>1, <2>3 DEF Opened
  <2> QED
    BY <2>2, <2>3
<1>6. ASSUME NEW r \in Request, Fail(r) PROVE ReaderOnce' /\ CalledBefore'
  BY <1>1, <1>6 DEF Fail, Begun
<1>7. ASSUME NEW r \in Request, Ask(r) PROVE ReaderOnce' /\ CalledBefore'
  BY <1>2, <1>7 DEF Ask, Begun
<1>8. ASSUME NEW r \in Request, NEW n \in Arriving, Answer(r, n)
      PROVE  ReaderOnce' /\ CalledBefore'
  <2>1. phase[r] \in {"started", "asked"}
    BY <1>8 DEF Answer, Begun
  <2> QED
    BY <1>1, <1>8, <2>1 DEF Answer, Called
<1>9. ASSUME NEW r \in Request, FindFile(r) \/ FindNone(r)
      PROVE  ReaderOnce' /\ CalledBefore'
  BY <1>3, <1>9 DEF FindFile, FindNone
<1>10. ASSUME NEW r \in Request, MakeFile(r) PROVE ReaderOnce' /\ CalledBefore'
  BY <1>3, <1>10 DEF MakeFile
<1>11. ASSUME NEW r \in Request, GetChar(r) \/ GetCharRaced(r)
       PROVE  ReaderOnce' /\ CalledBefore'
  BY <1>4, <1>11 DEF GetChar, GetCharRaced, Reads
<1>12. ASSUME NEW r \in Request, ReadAll(r) PROVE ReaderOnce' /\ CalledBefore'
  BY <1>3, <1>12 DEF ReadAll
<1>13. ASSUME NEW r \in Request, Delete(r) PROVE ReaderOnce' /\ CalledBefore'
  BY <1>0, <1>13 DEF Delete, ReaderOnce, CalledBefore
<1>14. ASSUME Kill PROVE ReaderOnce' /\ CalledBefore'
  BY <1>0, <1>14 DEF Kill, Zero, ReaderOnce, CalledBefore
<1> QED
  BY <1>5, <1>6, <1>7, <1>8, <1>9, <1>10, <1>11, <1>12, <1>13, <1>14 DEF Next, Step

(***************************************************************************)
(* The count of connections.  Only images are counted, once each.          *)
(***************************************************************************)
LEMMA CountStep ==
  ASSUME Inv, Next
  PROVE  Counted' /\ PlacesFreed'
<1>0. /\ Counted /\ PlacesFreed /\ counted \subseteq Request /\ IsFiniteSet(counted)
      /\ nbsimcon \in Nat /\ Cardinality(counted) \in Nat
      /\ phase \in [Request -> Phases]
  BY DownloadsAssumption, FS_Subset, FS_CardinalityType DEF Inv, TypeOK, Phases
<1>1. ASSUME NEW r \in Request, UNCHANGED pool, NEW p \in Phases \ {"idle"},
             phase' = [phase EXCEPT ![r] = p]
      PROVE  Counted' /\ PlacesFreed'
  BY <1>0, <1>1 DEF Counted, PlacesFreed, pool
<1>. USE DEF Phases, Opening
<1>2. ASSUME NEW r \in Request, OpenCached(r) \/ OpenInline(r)
      PROVE  Counted' /\ PlacesFreed'
  BY <1>1, <1>2 DEF OpenCached, OpenInline
<1>3. ASSUME NEW r \in Request, OpenThread(r) PROVE Counted' /\ PlacesFreed'
  <2>1. phase[r] = "idle" /\ KindOf[r] = "gif"
    BY <1>3 DEF OpenThread, Open
  <2>2. PICK p \in {"started", "lost"} : phase' = [phase EXCEPT ![r] = p]
    BY <1>3 DEF OpenThread
  <2>3. CASE UNCHANGED <<nbsimcon, counted>>
    BY <1>0, <2>2, <2>3 DEF Counted, PlacesFreed
  <2>4. CASE nbsimcon' = nbsimcon + 1 /\ counted' = counted \cup {r}
    <3>1. r \notin counted
      BY <1>0, <2>1 DEF Counted
    <3>2. Cardinality(counted') = Cardinality(counted) + 1
      BY <1>0, <2>4, <3>1, FS_AddElement
    <3>3. PlacesFreed'
      BY <1>0, <2>4, <3>2 DEF PlacesFreed
    <3>4. phase'[r] = p /\ \A t \in Request \ {r} : phase'[t] = phase[t]
      BY <1>0, <2>2
    <3>5. ASSUME NEW t \in counted' PROVE KindOf[t] = "gif" /\ phase'[t] # "idle"
      <4>1. CASE t = r
        BY <2>1, <3>4, <4>1
      <4>2. CASE t # r
        <5>1. t \in counted /\ t \in Request \ {r}
          BY <1>0, <2>4, <4>2
        <5>2. phase'[t] = phase[t]
          BY <3>4, <5>1
        <5> QED
          BY <1>0, <5>1, <5>2 DEF Counted
      <4> QED
        BY <4>1, <4>2
    <3> QED
      BY <3>3, <3>5 DEF Counted
  <2> QED
    BY <1>3, <2>3, <2>4 DEF OpenThread
<1>4. ASSUME NEW r \in Request, Fail(r) PROVE Counted' /\ PlacesFreed'
  <2>1. PICK p \in {"opening", "ending"} : phase' = [phase EXCEPT ![r] = p] /\ UNCHANGED pool
    <3>. DEFINE p == IF KindOf[r] = "model" THEN "opening" ELSE "ending"
    <3>1. p \in {"opening", "ending"} /\ phase' = [phase EXCEPT ![r] = p] /\ UNCHANGED pool
      BY <1>4 DEF Fail
    <3> QED
      BY <3>1
  <2> QED
    BY <1>1, <2>1
<1>5. ASSUME NEW r \in Request, Ask(r) PROVE Counted' /\ PlacesFreed'
  BY <1>1, <1>5 DEF Ask
<1>6. ASSUME NEW r \in Request, NEW n \in Arriving, Answer(r, n)
      PROVE  Counted' /\ PlacesFreed'
  <2>1. PICK p \in {"reading", "opening"} : phase' = [phase EXCEPT ![r] = p] /\ UNCHANGED pool
    <3>. DEFINE p == IF KindOf[r] = "list" THEN "reading" ELSE "opening"
    <3>1. p \in {"reading", "opening"} /\ phase' = [phase EXCEPT ![r] = p] /\ UNCHANGED pool
      BY <1>6 DEF Answer
    <3> QED
      BY <3>1
  <2> QED
    BY <1>1, <2>1
<1>7. ASSUME NEW r \in Request, FindFile(r) \/ FindNone(r)
      PROVE  Counted' /\ PlacesFreed'
  BY <1>1, <1>7 DEF FindFile, FindNone
<1>8. ASSUME NEW r \in Request, MakeFile(r) PROVE Counted' /\ PlacesFreed'
  BY <1>1, <1>8 DEF MakeFile
<1>9. ASSUME NEW r \in Request, GetChar(r) \/ GetCharRaced(r)
      PROVE  Counted' /\ PlacesFreed'
  <2>1. UNCHANGED <<phase, pool>>
    BY <1>9 DEF GetChar, GetCharRaced, Reads
  <2> QED
    BY <1>0, <2>1 DEF Counted, PlacesFreed, pool
<1>10. ASSUME NEW r \in Request, ReadAll(r) PROVE Counted' /\ PlacesFreed'
  BY <1>1, <1>10 DEF ReadAll
<1>11. ASSUME NEW r \in Request, Delete(r) PROVE Counted' /\ PlacesFreed'
  <2>1. /\ counted' = counted \ {r} /\ nbsimcon' = End(r)
        /\ phase' = [phase EXCEPT ![r] = "over"]
    BY <1>11 DEF Delete
  <2>2. Counted'
    BY <1>0, <2>1 DEF Counted
  <2>3. CASE r \in counted
    <3>1. KindOf[r] = "gif" /\ Cardinality(counted') = Cardinality(counted) - 1
      BY <1>0, <2>1, <2>3, FS_RemoveElement DEF Counted
    <3>2. PlacesFreed'
      <4>1. Cardinality(counted') \in Nat
        BY <1>0, <2>1, FS_RemoveElement, FS_CardinalityType
      <4> QED
        BY <1>0, <2>1, <3>1, <4>1 DEF PlacesFreed, End
    <3> QED
      BY <2>2, <3>2
  <2>4. CASE r \notin counted
    <3>1. counted' = counted /\ nbsimcon' <= nbsimcon
      BY <1>0, <2>1, <2>4 DEF End
    <3>2. nbsimcon' \in Nat
      BY <1>0, <2>1 DEF End
    <3> QED
      BY <1>0, <2>2, <3>1, <3>2 DEF PlacesFreed
  <2> QED
    BY <2>3, <2>4
<1>12. ASSUME Kill PROVE Counted' /\ PlacesFreed'
  BY <1>12, FS_EmptySet DEF Kill, Counted, PlacesFreed
<1> QED
  BY <1>2, <1>3, <1>4, <1>5, <1>6, <1>7, <1>8, <1>9, <1>10, <1>11, <1>12
  DEF Next, Step

(***************************************************************************)
(* What goes through the buffer.                                           *)
(***************************************************************************)
LEMMA FreshStep ==
  ASSUME Inv, Next
  PROVE  Fresh'
<1>. DEFINE New == {"idle", "started", "asked", "opening", "creating"}
<1>0. /\ Fresh /\ phase \in [Request -> Phases]
      /\ sent \in [Request -> 0..Size] /\ last \in [Request -> 0..Size]
  BY DEF Inv, TypeOK, Phases
<1>1. ASSUME NEW r \in Request, NEW p \in Phases, UNCHANGED <<sent, last, read>>,
             phase' = [phase EXCEPT ![r] = p], p \in New => phase[r] \in New
      PROVE  Fresh'
  BY <1>0, <1>1 DEF Fresh
<1>2. ASSUME NEW r \in Request, OpenCached(r) \/ OpenInline(r) \/ OpenThread(r)
      PROVE  Fresh'
  <2>1. PICK p \in {"reading", "ending", "started", "lost"} : Opened(r, p)
    BY <1>2, Opens
  <2> QED
    BY <1>1, <2>1 DEF Opened, Phases
<1>3. ASSUME NEW r \in Request, Fail(r) \/ Ask(r) PROVE Fresh'
  BY <1>1, <1>3 DEF Fail, Ask, Begun, Phases, Opening
<1>4. ASSUME NEW r \in Request, NEW n \in Arriving, Answer(r, n) PROVE Fresh'
  <2>1. /\ phase[r] \in {"started", "asked"} /\ UNCHANGED <<sent, read>>
        /\ last' = [last EXCEPT ![r] = n] /\ n \in Nat
        /\ phase' = [phase EXCEPT ![r] = IF KindOf[r] = "list" THEN "reading" ELSE "opening"]
    BY <1>4, DownloadsAssumption DEF Answer, Begun
  <2>2. /\ sent'[r] = 0 /\ read'[r] = <<>> /\ sent'[r] <= last'[r]
        /\ \A t \in Request \ {r} : phase'[t] = phase[t] /\ last'[t] = last[t]
    BY <1>0, <2>1 DEF Fresh
  <2> QED
    BY <1>0, <2>1, <2>2 DEF Fresh
<1>5. ASSUME NEW r \in Request, FindFile(r) \/ FindNone(r) \/ MakeFile(r) PROVE Fresh'
  BY <1>1, <1>5 DEF FindFile, FindNone, MakeFile, Phases, Opening
<1>6. ASSUME NEW r \in Request, GetChar(r) \/ GetCharRaced(r) PROVE Fresh'
  <2>1. Reads(r) /\ \E s : Get(r, s)
    BY <1>6 DEF GetChar, GetCharRaced
  <2>2. UNCHANGED <<phase, last>> /\ phase[r] \in {"reading", "copying"}
    BY <2>1 DEF Reads
  <2>3. \A t \in Request \ {r} : sent'[t] = sent[t] /\ read'[t] = read[t]
    <3>1. \A t \in Request \ {r} : sent'[t] = sent[t]
      BY <2>1, Reading
    <3>2. \A t \in Request \ {r} : read'[t] = read[t]
      BY <2>1 DEF Get, Inv, TypeOK
    <3> QED
      BY <3>1, <3>2
  <2>4. sent'[r] <= last[r]
    BY <2>1, Reading
  <2> QED
    BY <1>0, <2>2, <2>3, <2>4 DEF Fresh
<1>7. ASSUME NEW r \in Request, ReadAll(r) PROVE Fresh'
  BY <1>1, <1>7 DEF ReadAll, Phases
<1>8. ASSUME NEW r \in Request, Delete(r) PROVE Fresh'
  BY <1>0, <1>8 DEF Delete, Fresh
<1>9. ASSUME Kill PROVE Fresh'
  BY <1>9 DEF Kill, Fresh, Zero
<1> QED
  BY <1>2, <1>3, <1>4, <1>5, <1>6, <1>7, <1>8, <1>9 DEF Next, Step

LEMMA FiledStep ==
  ASSUME Inv, Next
  PROVE  Filed'
<1>0. Filed /\ phase \in [Request -> Phases] /\ file \in [File -> Seq(Byte) \cup {Absent, Garbled}]
  BY DEF Inv, TypeOK, Phases, Byte
<1>1. ASSUME NEW r \in Request, NEW p \in Phases \ {"copying"}, file' = file,
             phase' = [phase EXCEPT ![r] = p]
      PROVE  Filed'
  BY <1>0, <1>1 DEF Filed
<1>. USE DEF Phases, Opening
<1>2. ASSUME NEW r \in Request, OpenCached(r) \/ OpenInline(r) \/ OpenThread(r)
      PROVE  Filed'
  <2>1. PICK p \in {"reading", "ending", "started", "lost"} : Opened(r, p)
    BY <1>2, Opens
  <2> QED
    BY <1>1, <2>1 DEF Opened
<1>3. ASSUME NEW r \in Request, Fail(r) \/ Ask(r) PROVE Filed'
  <2>1. CASE Fail(r)
    <3>1. /\ phase' = [phase EXCEPT ![r] = IF KindOf[r] = "model" THEN "opening" ELSE "ending"]
          /\ file' = file
      BY <2>1 DEF Fail
    <3> QED
      BY <1>0, <3>1 DEF Filed
  <2>2. CASE Ask(r)
    BY <1>1, <2>2 DEF Ask
  <2> QED
    BY <1>3, <2>1, <2>2
<1>4. ASSUME NEW r \in Request, NEW n \in Arriving, Answer(r, n) PROVE Filed'
  <2>1. /\ phase' = [phase EXCEPT ![r] = IF KindOf[r] = "list" THEN "reading" ELSE "opening"]
        /\ file' = file
    BY <1>4 DEF Answer
  <2> QED
    BY <1>0, <2>1 DEF Filed
<1>5. ASSUME NEW r \in Request, FindFile(r) \/ FindNone(r) PROVE Filed'
  BY <1>1, <1>5 DEF FindFile, FindNone
<1>6. ASSUME NEW r \in Request, MakeFile(r) PROVE Filed'
  <2>. DEFINE s == IF \E t \in Request : phase[t] = "copying" /\ Cache(t) = Cache(r)
                   THEN Garbled ELSE <<>>
  <2>1. /\ s # Absent /\ file' = [file EXCEPT ![Cache(r)] = s]
        /\ \A t \in Request : phase'[t] = "copying" => t = r \/ phase[t] = "copying"
    <3>1. <<>> \in Seq(Url \X Nat)
      OBVIOUS
    <3> QED
      BY <1>0, <1>6, <3>1, DownloadsAssumption DEF MakeFile
  <2>. HIDE DEF s
  <2>2. Cache(r) \in File
    BY Cached
  <2> QED
    BY <1>0, <2>1, <2>2 DEF Filed
<1>7. ASSUME NEW r \in Request, GetChar(r) \/ GetCharRaced(r) PROVE Filed'
  <2>1. Reads(r)
    BY <1>7 DEF GetChar, GetCharRaced
  <2>2. PICK s \in Seq(Byte) \cup {Garbled} : Get(r, s)
    <3>1. CASE GetChar(r)
      <4>. DEFINE s == IF Got(r) = Garbled THEN Garbled ELSE Append(Got(r), Head(Filled(r)))
      <4>1. Head(Filled(r)) \in Byte
        BY <2>1, Reading
      <4>2. Got(r) \in Seq(Byte) \cup {Garbled}
        BY <2>1, GotType DEF Reads
      <4>3. s \in Seq(Byte) \cup {Garbled} /\ Get(r, s)
        BY <3>1, <4>1, <4>2 DEF GetChar
      <4> QED
        BY <4>3
    <3>2. CASE GetCharRaced(r)
      BY <3>2 DEF GetCharRaced
    <3> QED
      BY <1>7, <3>1, <3>2
  <2>3. \A f \in File : file[f] # Absent => file'[f] # Absent
    BY <2>2, Getting
  <2>4. phase' = phase
    BY <2>1 DEF Reads
  <2> QED
    BY <1>0, <2>3, <2>4, Cached DEF Filed
<1>8. ASSUME NEW r \in Request, ReadAll(r) PROVE Filed'
  BY <1>1, <1>8 DEF ReadAll
<1>9. ASSUME NEW r \in Request, Delete(r) PROVE Filed'
  BY <1>1, <1>9 DEF Delete
<1>10. ASSUME Kill PROVE Filed'
  BY <1>10 DEF Kill, Filed
<1> QED
  BY <1>2, <1>3, <1>4, <1>5, <1>6, <1>7, <1>8, <1>9, <1>10 DEF Next, Step

\* A thread that was created is not forgotten, and no one joins who is on his way
LEMMA AloneStep ==
  ASSUME Inv, Next
  PROVE  /\ Alone' /\ (threaded => threaded')
         /\ ~threaded' => \A r \in Request :
               (OpenCached(r) \/ OpenInline(r) \/ OpenThread(r)) => Active' \subseteq {r}
<1>. USE DEF Opening
<1>0. Alone /\ phase \in [Request -> Phases]
  BY DEF Inv, TypeOK, Phases
<1>1. ASSUME NEW r \in Request, OpenCached(r) \/ OpenInline(r) \/ OpenThread(r)
      PROVE  /\ Alone' /\ (threaded => threaded')
             /\ ~threaded' => Active' \subseteq {r}
  <2>1. PICK p \in {"reading", "ending", "started", "lost"} : Opened(r, p)
    BY <1>1, Opens
  <2>2. ASSUME ~threaded' PROVE Active' \subseteq {r} /\ Active' \subseteq {t \in Request : KindOf[t] # "gif"}
    <3>1. ~threaded
      BY <2>1, <2>2 DEF Opened
    <3>2. Active = {}
      BY <1>0, <2>1, <3>1 DEF Alone, Active, Opened, Busy
    <3>3. \A t \in Request : t # r => phase'[t] = phase[t]
      BY <1>0, <2>1 DEF Opened
    <3>4. \A t \in Active' : t = r
      BY <3>2, <3>3 DEF Active
    <3>5. r \in Active' => p \in {"started", "reading"}
      BY <1>0, <2>1 DEF Opened, Active
    <3>6. r \in Active' => KindOf[r] # "gif"
      BY <2>1, <2>2, <3>5 DEF Opened
    <3> QED
      BY <3>4, <3>6 DEF Active
  <2> QED
    BY <2>1, <2>2 DEF Alone, Opened
<1>2. ASSUME NEW r \in Request, Step(r)
      PROVE  threaded' = threaded /\ Active' \subseteq Active
  <2>1. CASE Fail(r) \/ Ask(r)
    BY <1>0, <2>1 DEF Fail, Ask, Begun, Active
  <2>2. ASSUME NEW n \in Arriving, Answer(r, n) PROVE threaded' = threaded /\ Active' \subseteq Active
    <3>1. r \in Active
      BY <2>2 DEF Answer, Begun, Active
    <3>2. threaded' = threaded /\ \A t \in Request : t # r => phase'[t] = phase[t]
      BY <1>0, <2>2 DEF Answer
    <3> QED
      BY <3>1, <3>2 DEF Active
  <2>3. CASE FindFile(r) \/ FindNone(r)
    BY <1>0, <2>3 DEF FindFile, FindNone, Active
  <2>4. CASE MakeFile(r)
    BY <1>0, <2>4 DEF MakeFile, Active
  <2>5. CASE GetChar(r) \/ GetCharRaced(r)
    BY <2>5 DEF GetChar, GetCharRaced, Reads, Active
  <2>6. CASE ReadAll(r) \/ Delete(r)
    BY <1>0, <2>6 DEF ReadAll, Delete, Active
  <2> QED
    BY <1>2, <2>1, <2>2, <2>3, <2>4, <2>5, <2>6 DEF Step
<1>3. ASSUME Kill PROVE threaded' = threaded /\ Active' \subseteq Active
  BY <1>3 DEF Kill, Active
<1>4. ASSUME threaded' = threaded, Active' \subseteq Active
      PROVE  Alone'
  BY <1>0, <1>4 DEF Alone
<1>5. ASSUME NEW r \in Request, OpenCached(r) \/ OpenInline(r) \/ OpenThread(r), ~threaded'
      PROVE  Active' \subseteq {r}
  BY <1>1, <1>5
<1>6. Alone' /\ (threaded => threaded')
  BY <1>1, <1>2, <1>3, <1>4 DEF Next
<1> QED
  BY <1>5, <1>6

\* A reader's stream begins with an empty buffer
LEMMA Begins ==
  ASSUME NEW t \in Request, htbuf' = <<>>, sent'[t] = 0, Got(t)' = <<>>
  PROVE  Stream(t)'
<1>1. Piece(UrlOf[t], 0, 0) = <<>>
  BY Cached, DownloadsAssumption, PieceBytes
<1>2. 0 \in 0..sent'[t]
  BY SMT
<1> QED
  BY <1>1, <1>2 DEF Stream

LEMMA StreamStep ==
  ASSUME Inv, Next
  PROVE  Undisturbed'
<1>. USE DEF Opening
<1>. SUFFICES ASSUME ~threaded', NEW t \in Active'
              PROVE  Stream(t)'
  BY DEF Undisturbed
<1>0. /\ phase \in [Request -> Phases] /\ t \in Request /\ ~threaded /\ Fresh
      /\ \A r, s \in Active : r = s
      /\ \A r \in Active : Stream(r)
      /\ read \in [Request -> Seq(Byte) \cup {Garbled}]
      /\ sent \in [Request -> 0..Size]
      /\ file \in [File -> Seq(Byte) \cup {Absent, Garbled}]
  <2>1. ~threaded
    BY AloneStep
  <2> QED
    BY <2>1 DEF Inv, TypeOK, Phases, Byte, Active, Alone, Undisturbed
<1>1. ASSUME NEW r \in Request, OpenCached(r) \/ OpenInline(r) \/ OpenThread(r)
      PROVE  Stream(t)'
  <2>1. t = r
    BY <1>1, AloneStep
  <2>2. PICK p \in {"reading", "ending", "started", "lost"} : Opened(r, p)
    BY <1>1, Opens
  <2>3. /\ htbuf' = <<>> /\ sent'[r] = 0 /\ read'[r] = <<>> /\ phase'[r] = p
    BY <1>0, <2>2 DEF Opened, Fresh
  <2>4. CASE p = "reading"
    <3>1. Got(r)' = <<>>
      BY <2>3, <2>4 DEF Got
    <3> QED
      BY <2>1, <2>3, <3>1, Begins
  <2>5. CASE p # "reading"
    BY <2>1, <2>2, <2>3, <2>5 DEF Stream
  <2> QED
    BY <2>4, <2>5
<1>2. ASSUME NEW r \in Request, Fail(r) \/ Ask(r) PROVE Stream(t)'
  <2>1. r \in Active /\ phase[r] = "started"
    BY <1>2 DEF Fail, Ask, Begun, Active
  <2>2. \A s \in Request : s # r => s \notin Active /\ phase'[s] = phase[s]
    BY <1>0, <1>2, <2>1 DEF Fail, Ask
  <2>3. t = r
    BY <1>0, <2>2 DEF Active
  <2>4. htbuf = <<>>
    BY <1>0, <2>1 DEF Stream
  <2>5. htbuf' = <<>> /\ phase'[r] \notin {"reading", "copying"}
    BY <1>0, <1>2, <2>4 DEF Fail, Ask, Reset
  <2> QED
    BY <2>3, <2>5 DEF Stream
<1>3. ASSUME NEW r \in Request, NEW n \in Arriving, Answer(r, n) PROVE Stream(t)'
  <2>1. r \in Active /\ phase[r] \in {"started", "asked"}
    BY <1>3 DEF Answer, Begun, Active
  <2>2. \A s \in Request : s # r => s \notin Active /\ phase'[s] = phase[s]
    BY <1>0, <1>3, <2>1 DEF Answer
  <2>3. t = r
    BY <1>0, <2>2 DEF Active
  <2>4. htbuf = <<>> /\ htbuf' = htbuf
    BY <1>0, <1>3, <2>1 DEF Stream, Answer
  <2>5. phase'[r] \in {"reading", "opening"} /\ sent'[r] = 0 /\ read'[r] = <<>>
    BY <1>0, <1>3, <2>1 DEF Answer, Fresh
  <2>6. CASE phase'[r] = "reading"
    <3>1. Got(r)' = <<>>
      BY <2>5, <2>6 DEF Got
    <3> QED
      BY <2>3, <2>4, <2>5, <3>1, Begins
  <2>7. CASE phase'[r] = "opening"
    BY <2>3, <2>4, <2>7 DEF Stream
  <2> QED
    BY <2>5, <2>6, <2>7
<1>4. ASSUME NEW r \in Request, FindFile(r) \/ FindNone(r) PROVE Stream(t)'
  <2>1. r \in Active /\ phase[r] = "opening"
    BY <1>4 DEF FindFile, FindNone, Active
  <2>2. \A s \in Request : s # r => s \notin Active /\ phase'[s] = phase[s]
    BY <1>0, <1>4, <2>1 DEF FindFile, FindNone
  <2>3. t = r
    BY <1>0, <2>2 DEF Active
  <2>4. htbuf = <<>> /\ htbuf' = htbuf
    BY <1>0, <1>4, <2>1 DEF Stream, FindFile, FindNone
  <2>5. phase'[r] \notin {"reading", "copying"}
    BY <1>0, <1>4 DEF FindFile, FindNone
  <2> QED
    BY <2>3, <2>4, <2>5 DEF Stream
<1>5. ASSUME NEW r \in Request, MakeFile(r) PROVE Stream(t)'
  <2>1. r \in Active /\ phase[r] = "creating"
    BY <1>5 DEF MakeFile, Active
  <2>2. \A s \in Request : s # r => s \notin Active /\ phase'[s] = phase[s]
    BY <1>0, <1>5, <2>1 DEF MakeFile
  <2>3. t = r
    BY <1>0, <2>2 DEF Active
  <2>4. htbuf = <<>> /\ htbuf' = htbuf /\ sent'[r] = 0
    BY <1>0, <1>5, <2>1 DEF Stream, MakeFile, Fresh
  <2>5. phase'[r] \in {"ending", "copying"}
    BY <1>0, <1>5 DEF MakeFile
  <2>6. \A s \in Request : phase[s] # "copying"
    BY <2>1, <2>2 DEF Active
  <2>7. file'[Cache(r)] = <<>>
    BY <1>0, <1>5, <2>6, Cached DEF MakeFile
  <2>8. CASE phase'[r] = "copying"
    <3>1. Got(r)' = <<>>
      BY <2>7, <2>8 DEF Got, Cache
    <3> QED
      BY <2>3, <2>4, <3>1, Begins
  <2>9. CASE phase'[r] = "ending"
    BY <2>3, <2>9 DEF Active
  <2> QED
    BY <2>5, <2>8, <2>9
<1>6. ASSUME NEW r \in Request, GetChar(r) PROVE Stream(t)'
  <2>1. r \in Active /\ phase' = phase /\ phase[r] \in {"reading", "copying"}
    BY <1>6 DEF GetChar, Reads, Active
  <2>2. t = r
    BY <1>0, <2>1 DEF Active
  <2>3. PICK a \in 1..Size : /\ a <= sent'[r] /\ Get(r, Piece(UrlOf[r], 0, a))
                             /\ htbuf' = Piece(UrlOf[r], a, sent'[r])
    BY <1>0, <1>6, NextByte
  <2>4. Got(r)' = Piece(UrlOf[r], 0, a)
    BY <1>0, <2>1, <2>3, Cached DEF Get, Got, Cache
  <2>5. a \in 0..sent'[r]
    <3>1. Reads(r)
      BY <1>6 DEF GetChar
    <3>2. sent'[r] \in 0..Size
      BY <3>1, Reading
    <3> QED
      BY <2>3, <3>2, DownloadsAssumption
  <2> QED
    BY <2>1, <2>2, <2>3, <2>4, <2>5 DEF Stream
<1>7. ASSUME NEW r \in Request, GetCharRaced(r) PROVE Stream(t)'
  <2>1. PICK s \in Request \ {r} : phase[s] \in {"reading", "copying"}
    BY <1>7 DEF GetCharRaced
  <2>2. s \in Active /\ r \in Active
    BY <1>7, <2>1 DEF GetCharRaced, Reads, Active
  <2> QED
    BY <1>0, <2>1, <2>2
<1>8. ASSUME NEW r \in Request, ReadAll(r) PROVE Stream(t)'
  <2>1. r \in Active /\ phase' = [phase EXCEPT ![r] = "ending"]
    BY <1>8 DEF ReadAll, Active
  <2>2. t # r /\ t \in Active
    BY <1>0, <2>1 DEF Active
  <2> QED
    BY <1>0, <2>1, <2>2
<1>9. ASSUME NEW r \in Request, Delete(r) PROVE Stream(t)'
  <2>1. /\ phase[r] = "ending" /\ phase' = [phase EXCEPT ![r] = "over"]
        /\ sent' = [sent EXCEPT ![r] = 0] /\ UNCHANGED <<read, file, htbuf>>
    BY <1>9 DEF Delete
  <2>2. t # r /\ t \in Active /\ phase'[t] = phase[t] /\ sent'[t] = sent[t]
    BY <1>0, <2>1 DEF Active
  <2>3. Stream(t)
    BY <1>0, <2>2
  <2>4. Got(t)' = Got(t)
    BY <2>1, <2>2 DEF Got, Cache
  <2> QED
    BY <2>1, <2>2, <2>3, <2>4 DEF Stream
<1>10. ASSUME Kill PROVE Stream(t)'
  BY <1>10 DEF Kill, Active
<1> QED
  BY <1>1, <1>2, <1>3, <1>4, <1>5, <1>6, <1>7, <1>8, <1>9, <1>10 DEF Next, Step

LEMMA ReadStep ==
  ASSUME Inv, Next
  PROVE  BeginningRead'
<1>. USE DEF Opening
<1>. SUFFICES ASSUME ~threaded' PROVE BeginningRead'
  BY DEF BeginningRead
<1>0. /\ ~threaded
      /\ phase \in [Request -> Phases]
      /\ read \in [Request -> Seq(Byte) \cup {Garbled}]
      /\ file \in [File -> Seq(Byte) \cup {Absent, Garbled}]
      /\ \A r, s \in Active : r = s
  <2>1. ~threaded
    BY AloneStep
  <2> QED
    BY <2>1 DEF Inv, TypeOK, Phases, Byte, Alone
<1>. DEFINE Good(s, f) == s # Garbled /\ \E u \in Url : NameOf[u] = f /\ IsPrefix(s, Document(u))
<1>1. /\ \A r \in Request : IsPrefix(read[r], Document(UrlOf[r]))
      /\ \A f \in File : file[f] # Absent => Good(file[f], f)
  BY <1>0 DEF Inv, BeginningRead
<1>2. ASSUME /\ \A r \in Request : IsPrefix(read'[r], Document(UrlOf[r]))
             /\ \A f \in File : file'[f] # Absent => Good(file'[f], f)
      PROVE  BeginningRead'
  BY <1>2 DEF BeginningRead, Document
<1>3. ASSUME NEW u \in Url, NEW a \in Nat, a <= Size
      PROVE  IsPrefix(Piece(u, 0, a), Document(u)) /\ Piece(u, 0, a) # Garbled
  <2>1. Piece(u, 0, a) \in Seq(Byte)
    BY <1>3, DownloadsAssumption, PieceBytes
  <2>2. \A x \in Seq(Byte) : x \in Seq(Url \X Nat)
    BY DEF Byte
  <2> QED
    BY <1>3, <2>1, <2>2, PiecePrefix, DownloadsAssumption
<1>4. \A u \in Url : IsPrefix(<<>>, Document(u)) /\ <<>> # Garbled
  <2>1. \A u \in Url : Piece(u, 0, 0) = <<>>
    BY DownloadsAssumption, PieceBytes
  <2> QED
    BY <1>3, <2>1, DownloadsAssumption
<1>5. ASSUME UNCHANGED <<read, file>> PROVE BeginningRead'
  BY <1>1, <1>2, <1>5
<1>6. ASSUME NEW r \in Request, OpenCached(r) \/ OpenInline(r) \/ OpenThread(r)
      PROVE  BeginningRead'
  BY <1>5, <1>6 DEF OpenCached, OpenInline, OpenThread, Open
<1>7. ASSUME NEW r \in Request, Fail(r) \/ Ask(r) \/ FindFile(r) \/ FindNone(r)
                                  \/ ReadAll(r) \/ Delete(r)
      PROVE  BeginningRead'
  BY <1>5, <1>7 DEF Fail, Ask, FindFile, FindNone, ReadAll, Delete
<1>8. ASSUME NEW r \in Request, NEW n \in Arriving, Answer(r, n) PROVE BeginningRead'
  BY <1>5, <1>8 DEF Answer
<1>9. ASSUME NEW r \in Request, MakeFile(r) PROVE BeginningRead'
  <2>1. r \in Active /\ phase[r] = "creating"
    BY <1>9 DEF MakeFile, Active
  <2>2. \A s \in Request : phase[s] # "copying"
    BY <1>0, <2>1 DEF Active
  <2>3. file' = [file EXCEPT ![Cache(r)] = <<>>] /\ read' = read
    BY <1>9, <2>2 DEF MakeFile
  <2>4. Good(<<>>, Cache(r))
    BY <1>4, Cached
  <2>. HIDE DEF Good
  <2>5. \A f \in File : file'[f] # Absent => Good(file'[f], f)
    BY <1>0, <1>1, <2>3, <2>4, Cached
  <2> QED
    BY <1>1, <1>2, <2>3, <2>5
<1>10. ASSUME NEW r \in Request, GetChar(r) PROVE BeginningRead'
  <2>1. PICK a \in 1..Size : Get(r, Piece(UrlOf[r], 0, a))
    BY <1>0, <1>10, NextByte
  <2>. DEFINE s == Piece(UrlOf[r], 0, a)
  <2>2. UrlOf[r] \in Url /\ Cache(r) \in File /\ NameOf[UrlOf[r]] = Cache(r)
    BY Cached
  <2>3. IsPrefix(s, Document(UrlOf[r])) /\ s # Garbled
    BY <1>3, <2>2, DownloadsAssumption
  <2>4. Good(s, Cache(r))
    BY <2>2, <2>3
  <2>. HIDE DEF Good, s
  <2>5. \/ read' = [read EXCEPT ![r] = s] /\ file' = file
        \/ file' = [file EXCEPT ![Cache(r)] = s] /\ read' = read
    BY <2>1 DEF Get, s
  <2>6. CASE read' = [read EXCEPT ![r] = s] /\ file' = file
    <3>1. \A t \in Request : IsPrefix(read'[t], Document(UrlOf[t]))
      BY <1>0, <1>1, <2>3, <2>6
    <3> QED
      BY <1>1, <1>2, <2>6, <3>1
  <2>7. CASE file' = [file EXCEPT ![Cache(r)] = s] /\ read' = read
    <3>1. \A f \in File : file'[f] # Absent => Good(file'[f], f)
      BY <1>0, <1>1, <2>2, <2>4, <2>7
    <3> QED
      BY <1>1, <1>2, <2>7, <3>1
  <2> QED
    BY <2>5, <2>6, <2>7
<1>11. ASSUME NEW r \in Request, GetCharRaced(r) PROVE BeginningRead'
  <2>1. PICK s \in Request \ {r} : phase[s] \in {"reading", "copying"}
    BY <1>11 DEF GetCharRaced
  <2>2. s \in Active /\ r \in Active
    BY <1>11, <2>1 DEF GetCharRaced, Reads, Active
  <2> QED
    BY <1>0, <2>1, <2>2
<1>12. ASSUME Kill PROVE BeginningRead'
  <2>1. file' = file /\ \A r \in Request : read'[r] = <<>>
    BY <1>12 DEF Kill
  <2>2. \A r \in Request : IsPrefix(read'[r], Document(UrlOf[r]))
    BY <1>4, <2>1, Cached
  <2> QED
    BY <1>1, <1>2, <2>1, <2>2
<1> QED
  BY <1>6, <1>7, <1>8, <1>9, <1>10, <1>11, <1>12 DEF Next, Step
-----------------------------------------------------------------------------
LEMMA InvNext == Inv /\ [Next]_vars => Inv'
<1>1. ASSUME Inv, Next PROVE Inv'
  BY <1>1, TypeStep, OnceStep, CountStep, FreshStep, FiledStep, AloneStep, StreamStep, ReadStep
  DEF Inv
<1>2. ASSUME Inv, UNCHANGED vars PROVE Inv'
  <2>1. UNCHANGED <<phase, refused, sent, last, called, read, file, htbuf, nbsimcon, waiting,
                    counted, threaded, kills>>
    BY <1>2 DEF vars, pool
  <2>2. TypeOK' /\ ReaderOnce' /\ CalledBefore' /\ Counted' /\ PlacesFreed' /\ Fresh'
    BY <1>2, <2>1 DEF Inv, TypeOK, ReaderOnce, CalledBefore, Counted, PlacesFreed, Fresh
  <2>3. Filed' /\ BeginningRead'
    BY <1>2, <2>1 DEF Inv, Filed, BeginningRead, Cache, Document
  <2>4. Active' = Active
    BY <2>1 DEF Active
  <2>5. Alone'
    BY <1>2, <2>1, <2>4 DEF Inv, Alone
  <2>6. \A r : Stream(r) => Stream(r)'
    BY <2>1 DEF Stream, Got, Cache
  <2>7. Undisturbed'
    BY <1>2, <2>1, <2>4, <2>6 DEF Inv, Undisturbed
  <2> QED
    BY <2>2, <2>3, <2>5, <2>7 DEF Inv
<1> QED
  BY <1>1, <1>2

(***************************************************************************)
(* The invariant holds however requests, threads, answers, failures and    *)
(* kills follow one another (Http::httpOpen, HttpThread, Cache::openCache). *)
(***************************************************************************)
THEOREM DownloadsInvariant == Spec => []Inv
  BY InvInit, InvNext, PTL DEF Spec

(***************************************************************************)
(* Variables keep their types; nbsimcon stays between 0 and maxsimcon      *)
(* (HttpThread::fifo, HttpThread::end).                                    *)
(***************************************************************************)
THEOREM DownloadsTyped == Spec => []TypeOK
<1>1. Inv => TypeOK
  BY DEF Inv
<1> QED
  BY <1>1, DownloadsInvariant, PTL

(***************************************************************************)
(* The reader of a request is called once, on every path of httpOpen and   *)
(* of HttpThread::connection.                                              *)
(***************************************************************************)
THEOREM ReaderOnceTheorem == Spec => []ReaderOnce
<1>1. Inv => ReaderOnce
  BY DEF Inv
<1> QED
  BY <1>1, DownloadsInvariant, PTL

(***************************************************************************)
(* No place among the simultaneous connections is lost, for any number of  *)
(* requests and any maxsimcon (HttpThread::fifo, HttpThread::end).         *)
(***************************************************************************)
THEOREM PlacesFreedTheorem == Spec => []PlacesFreed
<1>1. Inv => PlacesFreed
  BY DEF Inv
<1> QED
  BY <1>1, DownloadsInvariant, PTL

(***************************************************************************)
(* As long as no thread was created readers read the beginning of what     *)
(* they asked for, over connections that fail, files, lists found in the   *)
(* cache, bytes left in the buffer and kills (Http::Http, Http::reset,     *)
(* Http::getChar, Cache::openCache).                                       *)
(***************************************************************************)
THEOREM BeginningTheorem == Spec => []BeginningRead
<1>1. Inv => BeginningRead
  BY DEF Inv
<1> QED
  BY <1>1, DownloadsInvariant, PTL
=============================================================================
