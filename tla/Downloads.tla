------------------------------ MODULE Downloads ------------------------------
(***************************************************************************)
(* HTTP downloads (src/src/vreng/http.cpp) and the cache of files they     *)
(* fill (src/src/vreng/cache.cpp).  The client's main thread opens one     *)
(* connection after the other and waits for each; GIF images come in       *)
(* threads of their own, beside it.  What a reader reads goes through one  *)
(* static buffer that all connections share (htbuf).                       *)
(*                                                                         *)
(* The client may be killed at any point and started again: the cache is   *)
(* kept.  A server answers or fails; that one never does is left out, as   *)
(* the code has no time-out for it.  The preference to reload is off.      *)
(***************************************************************************)
EXTENDS Integers, FiniteSets, SequencesExt

CONSTANTS
    Request,        \* calls of httpOpen
    UrlOf, KindOf,  \* their arguments
    Url, File,      \* urls; names of files in the cache
    Local,          \* urls of scheme file
    NameOf,         \* setCacheName: the last component of the url
    Size,           \* bytes of a document
    Arriving,       \* bound: how many of them a server sends
    BufSize,        \* sizeof(htbuf)
    MaxSimCon,      \* g.pref.maxsimcon
    Absent,         \* no such file
    Garbled,        \* what is read in a race, or in a file cut while it is filled
    MaxKills        \* bound: how often the client is killed

\* Images in threads (httpOpen's _threaded is 1); models and other files, and
\* lists of urls, which are not cached (0).  A world's source, which is not read
\* through the buffer, is left out.
Kind == {"gif", "model", "list"}

ASSUME DownloadsAssumption ==
    /\ NameOf \in [Url -> File] /\ Local \subseteq Url /\ IsFiniteSet(Request)
    /\ UrlOf \in [Request -> Url] /\ KindOf \in [Request -> Kind]
    /\ Size \in Nat /\ Arriving \subseteq 0..Size /\ BufSize \in Nat \ {0}
    /\ MaxSimCon \in Nat /\ MaxKills \in Nat
    /\ Absent \notin Seq(Url \X Nat) /\ Garbled \notin Seq(Url \X Nat)
    /\ Absent # Garbled

VARIABLES
    phase,                  \* where httpOpen or the thread of a request is
    refused,                \* requests whose httpReader got NULL
    sent, last,             \* bytes of its stream read, and how many there are
    called,                 \* how often its httpReader was called
    read,                   \* what the reader of a list got
    file,                   \* the cache
    htbuf,                  \* unread bytes, from htbuf_pos to htbuf_len
    nbsimcon,
    waiting,                \* length of the list fifofirst .. fifolast
    counted,                \* requests nbsimcon was incremented for
    threaded,               \* history: a thread was created, by this client or one before
    kills

pool == <<nbsimcon, waiting, counted>>
vars == <<phase, refused, sent, last, called, read, file, htbuf, pool, threaded, kills>>

Cache(r) == NameOf[UrlOf[r]]

Document(u) == [i \in 1..Size |-> <<u, i>>]

\* The steps of openCache
Opening == {"opening", "creating", "copying"}

\* The main thread waits for a connection of its own
Busy == \E r \in Request :
           KindOf[r] # "gif" /\ phase[r] \in {"started", "asked", "reading", "ending"} \cup Opening

Zero == [r \in Request |-> 0]

Init ==
    /\ phase = [r \in Request |-> "idle"] /\ refused = {}
    /\ sent = Zero /\ last = Zero /\ called = Zero
    /\ read = [r \in Request |-> <<>>]
    /\ file = [f \in File |-> Absent]
    /\ htbuf = <<>>
    /\ nbsimcon = 0 /\ waiting = 0 /\ counted = {}
    /\ threaded = FALSE /\ kills = 0
-----------------------------------------------------------------------------
(* The buffer. *)

\* Mutant: the buffer is left as the last reader left it
Kept == UNCHANGED htbuf

\* Http::reset
Reset == htbuf' = <<>>

\* httpRead into an empty buffer
Filled(r) ==
    IF htbuf # <<>> THEN htbuf
    ELSE [i \in 1..Min({BufSize, last[r] - sent[r]}) |-> <<UrlOf[r], sent[r] + i>>]
-----------------------------------------------------------------------------
(* Http::httpOpen, by the main thread; Http::Http resets the buffer. *)

Open(r) ==
    /\ ~Busy /\ phase[r] = "idle"
    /\ Reset
    /\ UNCHANGED <<refused, sent, last, read, file, kills>>

\* inCache: the reader finds the file; that of a list reads a stream without any
OpenCached(r) ==
    /\ Open(r)
    /\ file[Cache(r)] # Absent
    /\ called' = [called EXCEPT ![r] = @ + 1]
    /\ phase' = [phase EXCEPT ![r] = IF KindOf[r] = "list" THEN "reading" ELSE "ending"]
    /\ UNCHANGED <<pool, threaded>>

OpenInline(r) ==
    /\ Open(r) /\ KindOf[r] # "gif"
    /\ file[Cache(r)] = Absent
    /\ phase' = [phase EXCEPT ![r] = "started"]
    /\ UNCHANGED <<called, pool, threaded>>

\* fifo: the thread is created at once, or cannot be created
OpenThread(r) ==
    /\ Open(r) /\ KindOf[r] = "gif"
    /\ file[Cache(r)] = Absent
    /\ IF nbsimcon >= MaxSimCon
       THEN waiting' = waiting + 1 /\ UNCHANGED <<nbsimcon, counted>>
       ELSE nbsimcon' = nbsimcon + 1 /\ counted' = counted \cup {r} /\ UNCHANGED waiting
    /\ \/ phase' = [phase EXCEPT ![r] = "started"] /\ threaded' = TRUE
       \/ phase' = [phase EXCEPT ![r] = "lost"] /\ UNCHANGED threaded
    /\ UNCHANGED called
-----------------------------------------------------------------------------
(* HttpThread::connection, by a thread or inline. *)

\* Mutant: the threads of the waiting list wait to be signalled, by nobody
BegunInTurn(r) == phase[r] = "started" /\ (KindOf[r] = "gif" => r \in counted)

\* begin: nobody waits, waitfifo is NULL when the constructor looks at it
Begun(r) == phase[r] = "started"

\* No connection, or no file: the reader is called with NULL.  That of an image
\* or of a list returns; one of a model calls openCache, and goes on without a
\* file (or follows the null pointer: Kill).
Fail(r) ==
    /\ Begun(r)
    /\ called' = [called EXCEPT ![r] = @ + 1]
    /\ refused' = refused \cup {r}
    /\ phase' = [phase EXCEPT ![r] = IF KindOf[r] = "model" THEN "opening" ELSE "ending"]
    /\ UNCHANGED <<sent, last, read, file, htbuf, pool, threaded, kills>>

\* The request is sent: the buffer is reset, before the headers come
Ask(r) ==
    /\ Begun(r) /\ UrlOf[r] \notin Local
    /\ phase' = [phase EXCEPT ![r] = "asked"]
    /\ Reset
    /\ UNCHANGED <<refused, sent, last, called, read, file, pool, threaded, kills>>

\* Mutant: hterr stays set after the headers
CalledTwice(r) == [called EXCEPT ![r] = @ + 2]

Called(r) == [called EXCEPT ![r] = @ + 1]

\* The headers have come, with n bytes to follow (none: an error code, or the
\* server closed), or a local file is open: the reader is called
Answer(r, n) ==
    /\ IF UrlOf[r] \in Local THEN Begun(r) ELSE phase[r] = "asked"
    /\ called' = Called(r)
    /\ phase' = [phase EXCEPT ![r] = IF KindOf[r] = "list" THEN "reading" ELSE "opening"]
    /\ last' = [last EXCEPT ![r] = n]
    /\ UNCHANGED <<refused, sent, read, file, htbuf, pool, threaded, kills>>

\* openCache: another request has made the file in the meantime
FindFile(r) ==
    /\ phase[r] = "opening" /\ file[Cache(r)] # Absent
    /\ phase' = [phase EXCEPT ![r] = "ending"]
    /\ UNCHANGED <<refused, sent, last, called, read, file, htbuf, pool, threaded, kills>>

FindNone(r) ==
    /\ phase[r] = "opening" /\ file[Cache(r)] = Absent
    /\ phase' = [phase EXCEPT ![r] = "creating"]
    /\ UNCHANGED <<refused, sent, last, called, read, file, htbuf, pool, threaded, kills>>

\* openCache creates the file, or cuts the one another request has made since;
\* without a stream it then returns NULL
MakeFile(r) ==
    /\ phase[r] = "creating"
    /\ file' = [file EXCEPT ![Cache(r)] =
                   IF \E t \in Request : phase[t] = "copying" /\ Cache(t) = Cache(r)
                   THEN Garbled ELSE <<>>]
    /\ phase' = [phase EXCEPT ![r] = IF r \in refused THEN "ending" ELSE "copying"]
    /\ UNCHANGED <<refused, sent, last, called, read, htbuf, pool, threaded, kills>>

\* What a reader has got, and gets
Got(r) == IF phase[r] = "reading" THEN read[r] ELSE file[Cache(r)]

Get(r, s) ==
    IF phase[r] = "reading"
    THEN read' = [read EXCEPT ![r] = s] /\ UNCHANGED file
    ELSE file' = [file EXCEPT ![Cache(r)] = s] /\ UNCHANGED read

Reads(r) ==
    /\ phase[r] \in {"reading", "copying"} /\ Filled(r) # <<>>
    /\ sent' = [sent EXCEPT ![r] = IF htbuf = <<>> THEN @ + Len(Filled(r)) ELSE @]
    /\ UNCHANGED <<phase, refused, last, called, pool, threaded, kills>>

\* getChar, and what the reader does with the byte
GetChar(r) ==
    /\ Reads(r)
    /\ htbuf' = Tail(Filled(r))
    /\ Get(r, IF Got(r) = Garbled THEN Garbled ELSE Append(Got(r), Head(Filled(r))))

\* getChar of two readers at once, a data race: any byte, and more may be gone
GetCharRaced(r) ==
    /\ \E t \in Request \ {r} : phase[t] \in {"reading", "copying"}
    /\ Reads(r)
    /\ htbuf' \in {Tail(Filled(r)), <<>>}
    /\ Get(r, Garbled)

\* The end of the stream; the reader of a list may have enough before
ReadAll(r) ==
    /\ \/ phase[r] = "copying" /\ Filled(r) = <<>>
       \/ phase[r] = "reading"
    /\ phase' = [phase EXCEPT ![r] = "ending"]
    /\ UNCHANGED <<refused, sent, last, called, read, file, htbuf, pool, threaded, kills>>

\* Mutants: no lower bound; no decrement when other threads wait
EndUnbounded(r) == IF KindOf[r] = "gif" THEN nbsimcon - 1 ELSE nbsimcon
EndOrSignal(r) ==
    IF KindOf[r] = "gif" /\ waiting = 0 /\ nbsimcon > 0 THEN nbsimcon - 1 ELSE nbsimcon

\* end, of threads and of images found in the cache
End(r) == IF KindOf[r] = "gif" /\ nbsimcon > 0 THEN nbsimcon - 1 ELSE nbsimcon

\* ~HttpThread
Delete(r) ==
    /\ phase[r] = "ending"
    /\ phase' = [phase EXCEPT ![r] = "over"]
    /\ nbsimcon' = End(r)
    /\ counted' = counted \ {r}
    /\ refused' = refused \ {r}
    /\ sent' = [sent EXCEPT ![r] = 0] /\ last' = [last EXCEPT ![r] = 0]
    /\ UNCHANGED <<called, read, file, htbuf, waiting, threaded, kills>>

\* The client is killed, and started again: the cache is all that is left
Kill ==
    /\ kills < MaxKills /\ kills' = kills + 1
    /\ phase' = [r \in Request |-> IF phase[r] = "idle" THEN "idle" ELSE "killed"]
    /\ refused' = {} /\ sent' = Zero /\ last' = Zero /\ called' = Zero
    /\ read' = [r \in Request |-> <<>>] /\ htbuf' = <<>>
    /\ nbsimcon' = 0 /\ waiting' = 0 /\ counted' = {}
    /\ UNCHANGED <<file, threaded>>

Step(r) ==
    \/ Fail(r) \/ Ask(r)
    \/ \E n \in Arriving : Answer(r, n)
    \/ FindFile(r) \/ FindNone(r) \/ MakeFile(r)
    \/ GetChar(r) \/ GetCharRaced(r) \/ ReadAll(r) \/ Delete(r)

Next ==
    \/ \E r \in Request : OpenCached(r) \/ OpenInline(r) \/ OpenThread(r) \/ Step(r)
    \/ Kill

Spec == Init /\ [][Next]_vars

\* Servers answer or fail, and threads go on
FairSpec == Spec /\ \A r \in Request : WF_vars(Step(r))
-----------------------------------------------------------------------------
TypeOK ==
    /\ phase \in [Request -> {"idle", "started", "lost", "asked", "reading", "ending",
                              "over", "killed"} \cup Opening]
    /\ refused \subseteq Request
    /\ sent \in [Request -> 0..Size] /\ last \in [Request -> 0..Size]
    /\ called \in [Request -> Nat]
    /\ read \in [Request -> Seq(Url \X (1..Size)) \cup {Garbled}]
    /\ file \in [File -> Seq(Url \X (1..Size)) \cup {Absent, Garbled}]
    /\ htbuf \in Seq(Url \X (1..Size))
    /\ nbsimcon \in 0..MaxSimCon /\ waiting \in Nat
    /\ counted \subseteq Request
    /\ threaded \in BOOLEAN /\ kills \in 0..MaxKills

(***************************************************************************)
(* Whatever fails on the way, the reader of a request is called once and   *)
(* never again, before its HttpThread is deleted (HttpThread::connection,  *)
(* httpOpen).                                                              *)
(***************************************************************************)
ReaderOnce ==
    \A r \in Request :
        /\ called[r] <= 1
        /\ phase[r] \in {"idle", "started", "lost", "asked"} => called[r] = 0
        /\ phase[r] \in {"ending", "over"} => called[r] = 1

(***************************************************************************)
(* No place among the simultaneous connections is lost: nbsimcon counts no *)
(* more than the threads it was incremented for and that still run, or     *)
(* could not be created (fifo, end), though threads it was not incremented *)
(* for decrement it too.                                                   *)
(***************************************************************************)
PlacesFreed == nbsimcon <= Cardinality(counted)

(***************************************************************************)
(* As long as no thread was created what comes through the shared buffer   *)
(* is the beginning of the document asked for, though readers leave bytes  *)
(* in it, local files and lists found in the cache are read without asking *)
(* anybody, connections fail, and the client is killed and started again   *)
(* on the cache it left; in the cache, of a document of that name          *)
(* (Http::Http, Http::getChar, Cache::openCache).                          *)
(***************************************************************************)
BeginningRead ==
    ~threaded =>
        /\ \A r \in Request : IsPrefix(read[r], Document(UrlOf[r]))
        /\ \A f \in File : file[f] # Absent =>
              /\ file[f] # Garbled
              /\ \E u \in Url : NameOf[u] = f /\ IsPrefix(file[f], Document(u))

(***************************************************************************)
(* cache.hpp:49, of openCache, "Saves file into cache and opens it": with  *)
(* threads too, a file that nobody cut begins a document of its name.      *)
(***************************************************************************)
FileSaved ==
    \A f \in File : file[f] \notin {Absent, Garbled} =>
        \E u \in Url : NameOf[u] = f /\ IsPrefix(file[f], Document(u))

(***************************************************************************)
(* No request waits for ever, however many there are: its reader is called *)
(* and its HttpThread deleted, unless the client is killed.                *)
(***************************************************************************)
RequestsServed ==
    \A r \in Request : (phase[r] = "started") ~> (phase[r] \in {"over", "killed"})
=============================================================================
