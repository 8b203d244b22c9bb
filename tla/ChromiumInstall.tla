-------------------------- MODULE ChromiumInstall --------------------------
(***************************************************************************)
(* The download of the program's own Chromium (app_chromium.py,            *)
(* installer/fetch_chromium.py).  The panel and the desktop shell start it *)
(* in a thread of its own; opening a profile runs it in the caller's       *)
(* thread.  All of them share one folder: the zip, the .part file with the *)
(* name of its source beside it, the extracted program, INSTALLED.json.    *)
(*                                                                         *)
(* A zip is MaxChunks chunks long.  What hosts answer is open.             *)
(***************************************************************************)
EXTENDS Integers, FiniteSets

CONSTANTS
    Installers,     \* threads that may run ensure_installed
    Requests,       \* request threads that press 'download'
    Sources,        \* sources(), numbered in the order they are tried
    Genuine,        \* those whose zip holds a Chromium
    None, Mixed,
    MaxChunks,      \* chunks of a whole zip
    MinChunks,      \* MIN_ZIP_BYTES
    ResumeTries,    \* RESUME_TRIES
    MaxCrash        \* bound: process deaths

InstallAssumption ==
    /\ Sources \subseteq Nat \ {0} /\ IsFiniteSet(Sources) /\ Sources # {}
    /\ Genuine \subseteq Sources
    /\ MaxChunks \in Nat \ {0} /\ MinChunks \in 1..MaxChunks
    /\ ResumeTries \in Nat \ {0} /\ MaxCrash \in Nat
    /\ None \notin Sources \cup Requests \cup {Mixed} /\ Mixed \notin Sources

\* What a file's bytes are: of one source, or pieces put together wrongly.
Origins == Sources \cup {Mixed}
Zips == {"none", "good", "foreign", "broken"}
Pieces == {"exe", "rest"}

VARIABLES
    lock,           \* the request that holds _LOCK for ever, or None
    running,        \* _STATUS["running"]
    pc,             \* "off", "begin", "look", "probe", "name", "connect",
                    \* "read", "placed", "extract", "register" or "end"
    src, n, tries,  \* source tried, bytes counted, attempts of an installer
    left,           \* files it has still to extract
    part, meta,     \* the .part file, and .part.url: None is no name in it
    zip,            \* the downloaded zip
    folder, marker, \* what is extracted, and INSTALLED.json
    \* history, read by the properties only
    overlapped,     \* two threads have been in ensure_installed together
    torn,           \* a death hit .part.url while it was rewritten
    crashes

fileVars == <<part, meta, zip, folder, marker>>
workVars == <<pc, src, n, tries, left>>
vars == <<lock, running, workVars, fileVars, overlapped, torn, crashes>>

NoPart == [n |-> 0, from |-> None]
Whole == folder = Pieces
\* is_ready: an executable is found, and the marker names the product and a
\* path that exists.
Ready == "exe" \in folder /\ marker
\* verify_zip, then assert_chromium_zip
Verified == zip \in {"good", "foreign"}
Accepted == zip = "good"
First == CHOOSE s \in Sources : \A t \in Sources : s <= t
Busy == {w \in Installers : pc[w] # "off"}

Init ==
    /\ lock = None /\ running = FALSE
    /\ pc = [w \in Installers |-> "off"]
    /\ src = [w \in Installers |-> First]
    /\ n = [w \in Installers |-> 0]
    /\ tries = [w \in Installers |-> 0]
    /\ left = [w \in Installers |-> {}]
    /\ part = NoPart /\ meta = None /\ zip = "none"
    \* Nothing is installed, or an earlier run of the program has done it.
    /\ marker \in BOOLEAN /\ folder = IF marker THEN Pieces ELSE {}
    /\ overlapped = FALSE /\ torn = FALSE /\ crashes = 0

-----------------------------------------------------------------------------
(* Start and end.  Every step of an installer logs a line, and the log     *)
(* takes _LOCK.                                                            *)

Enter(w) ==
    /\ pc' = [pc EXCEPT ![w] = "begin"]
    /\ overlapped' = (overlapped \/ Busy # {})
    /\ UNCHANGED <<lock, src, n, tries, left, fileVars, torn, crashes>>

\* start_install_async while no download runs.
Press ==
    /\ lock = None /\ ~running
    /\ running' = TRUE
    /\ \E w \in Installers : pc[w] = "off" /\ Enter(w)

\* start_install_async while one runs: status() asks for the lock the request
\* holds already.
PressAgain(r) ==
    /\ lock = None /\ running
    /\ lock' = r
    /\ UNCHANGED <<running, workVars, fileVars, overlapped, torn, crashes>>

\* open_profile does not look whether a download runs.
OpenProfile ==
    /\ ~Ready
    /\ \E w \in Installers : pc[w] = "off" /\ Enter(w)
    /\ UNCHANGED running

\* The rest of a step of w that only moves on.
Move(w, to) ==
    /\ lock = None
    /\ pc[w] # "off"
    /\ pc' = [pc EXCEPT ![w] = to]
    /\ left' = [left EXCEPT ![w] = IF to = "extract" THEN Pieces ELSE {}]
    /\ UNCHANGED <<lock, running, overlapped, torn, crashes>>

Begin(w) ==
    /\ pc[w] = "begin" /\ lock = None
    /\ running' = TRUE
    /\ pc' = [pc EXCEPT ![w] = "look"]
    /\ UNCHANGED <<lock, src, n, tries, left, fileVars, overlapped, torn, crashes>>

\* Nothing to do, or a zip of an earlier download, or the first source.
Look(w) ==
    /\ pc[w] = "look"
    /\ Move(w, IF Ready THEN "end" ELSE IF Accepted THEN "placed" ELSE "probe")
    /\ src' = [src EXCEPT ![w] = IF Accepted THEN 0 ELSE First]
    /\ UNCHANGED <<n, tries, fileVars>>

\* Mutant of NextSource: after the last source the first again.
AnySource(w) ==
    /\ Move(w, "probe")
    /\ \E s \in Sources : src' = [src EXCEPT ![w] = s]
    /\ n' = [n EXCEPT ![w] = 0]
    /\ tries' = [tries EXCEPT ![w] = 0]

\* SOURCE_FAIL: the next source, or the end.
NextSource(w) ==
    /\ LET later == {s \in Sources : s > src[w]}
       IN IF later = {} THEN Move(w, "end") /\ UNCHANGED src
          ELSE /\ Move(w, "probe")
               /\ src' = [src EXCEPT ![w] =
                             CHOOSE s \in later : \A t \in later : s <= t]
    /\ n' = [n EXCEPT ![w] = 0]
    /\ tries' = [tries EXCEPT ![w] = 0]

End(w) ==
    /\ pc[w] = "end" /\ lock = None
    /\ running' = FALSE
    /\ pc' = [pc EXCEPT ![w] = "off"]
    /\ src' = [src EXCEPT ![w] = First]
    /\ n' = [n EXCEPT ![w] = 0]
    /\ tries' = [tries EXCEPT ![w] = 0]
    /\ UNCHANGED <<lock, left, fileVars, overlapped, torn, crashes>>

-----------------------------------------------------------------------------
(* DownloadManager.fetch                                                   *)

ProbeFails(w) == pc[w] = "probe" /\ NextSource(w) /\ UNCHANGED fileVars

\* A zip that is already there is used if it is sound, whatever is in it.
Reuse(w) ==
    /\ pc[w] = "probe" /\ Verified
    /\ Move(w, "placed")
    /\ UNCHANGED <<src, n, tries, fileVars>>

\* Mutant of Stale: the name of the source is not compared.
NeverStale(s) == FALSE

Stale(s) == meta # None /\ meta # s

\* A .part of another source is thrown away, with the zip; .part.url is
\* opened, which empties it.
Resume(w) ==
    /\ pc[w] = "probe" /\ ~Verified
    /\ Move(w, "name")
    /\ LET stale == part.n > 0 /\ Stale(src[w])
       IN /\ part' = IF stale THEN NoPart ELSE part
          /\ zip' = IF stale THEN "none" ELSE zip
          /\ n' = [n EXCEPT ![w] = part'.n]
    /\ meta' = None
    /\ UNCHANGED <<src, tries, folder, marker>>

Name(w) ==
    /\ pc[w] = "name"
    /\ Move(w, "connect")
    /\ meta' = src[w]
    /\ UNCHANGED <<src, n, tries, part, zip, folder, marker>>

\* Another attempt at the same source, up to RESUME_TRIES of them.
Retry(w) ==
    /\ tries[w] + 1 < ResumeTries
    /\ Move(w, "connect")
    /\ tries' = [tries EXCEPT ![w] = @ + 1]
    /\ UNCHANGED src

Again(w) == (Retry(w) /\ UNCHANGED n) \/ (tries[w] + 1 >= ResumeTries /\ NextSource(w))

ConnectFails(w) == pc[w] = "connect" /\ Again(w) /\ UNCHANGED fileVars
Refused(w) == pc[w] = "connect" /\ NextSource(w) /\ UNCHANGED fileVars

\* Status 206: the file is opened to append.  A request from byte 0 empties it.
Connect(w) ==
    /\ pc[w] = "connect"
    /\ Move(w, "read")
    /\ part' = IF n[w] = 0 THEN NoPart ELSE part
    /\ UNCHANGED <<src, n, tries, meta, zip, folder, marker>>

\* Status 200 to a request for a rest: the file is truncated.
ConnectFromZero(w) ==
    /\ pc[w] = "connect" /\ n[w] > 0
    /\ Move(w, "read")
    /\ n' = [n EXCEPT ![w] = 0]
    /\ part' = NoPart
    /\ UNCHANGED <<src, tries, meta, zip, folder, marker>>

\* The host has chunks up to MaxChunks; they go to the end of the file.
Chunk(w) ==
    /\ pc[w] = "read" /\ n[w] < MaxChunks
    /\ Move(w, "read")
    /\ n' = [n EXCEPT ![w] = @ + 1]
    /\ part' = [n |-> IF part.n < MaxChunks THEN part.n + 1 ELSE part.n,
                from |-> IF part.n = 0 /\ n[w] = 0 THEN src[w]
                         ELSE IF part.n = n[w] /\ part.from = src[w] THEN src[w]
                         ELSE Mixed]
    /\ UNCHANGED <<src, tries, meta, zip, folder, marker>>

\* What the .part file is as a zip.
AsZip == IF part.n < MaxChunks \/ part.from = Mixed THEN "broken"
         ELSE IF part.from \in Genuine THEN "good" ELSE "foreign"

\* A stream ends, stalls or breaks.  With its length known the file must have
\* it, without it any length above the least will do; HTTP 416 ends as well.
\* On Windows a file another thread has open is not replaced: SOURCE_FAIL.
StreamDone(w) ==
    /\ pc[w] \in {"read", "connect"} /\ part.n >= MinChunks
    /\ Move(w, "placed")
    /\ zip' = AsZip /\ part' = NoPart /\ meta' = None
    /\ n' = [n EXCEPT ![w] = 0]
    /\ tries' = [tries EXCEPT ![w] = 0]
    /\ UNCHANGED <<src, folder, marker>>

NotReplaced(w) ==
    /\ pc[w] = "read" /\ part.n >= MinChunks
    /\ \E v \in Installers \ {w} : pc[v] = "read"
    /\ NextSource(w)
    /\ UNCHANGED fileVars

StreamCut(w) ==
    /\ pc[w] = "read" /\ part.n < MaxChunks
    /\ \/ /\ Retry(w)
          /\ n' = [n EXCEPT ![w] = part.n]
       \/ tries[w] + 1 >= ResumeTries /\ NextSource(w)
    /\ UNCHANGED fileVars

\* An answer without a byte: _cleanup of all three files, the next source.
StreamEmpty(w) ==
    /\ pc[w] = "read" /\ part.n = 0
    /\ NextSource(w)
    /\ part' = NoPart /\ meta' = None /\ zip' = "none"
    /\ UNCHANGED <<folder, marker>>

-----------------------------------------------------------------------------
(* Verify, extract, register.                                              *)

Rejected(w) ==
    /\ pc[w] = "placed" /\ ~Accepted
    /\ NextSource(w)
    /\ UNCHANGED fileVars

\* rmtree of the old folder, then the files of the zip one by one
Unpack(w) ==
    /\ pc[w] = "placed" /\ Accepted
    /\ Move(w, "extract")
    /\ folder' = {}
    /\ UNCHANGED <<src, n, tries, part, meta, zip, marker>>

ExtractFile(w) ==
    /\ pc[w] = "extract" /\ lock = None
    /\ \E p \in left[w] :
         /\ folder' = folder \cup {p}
         /\ left' = [left EXCEPT ![w] = @ \ {p}]
    /\ pc' = [pc EXCEPT ![w] = IF left'[w] = {} THEN "register" ELSE "extract"]
    /\ UNCHANGED <<lock, running, src, n, tries, part, meta, zip, marker,
                   overlapped, torn, crashes>>

\* write_marker; a folder without an executable does not register.
Register(w) ==
    /\ pc[w] = "register"
    /\ IF "exe" \in folder
       THEN marker' = TRUE /\ Move(w, "end") /\ UNCHANGED <<src, n, tries>>
       ELSE NextSource(w) /\ UNCHANGED marker
    /\ UNCHANGED <<part, meta, zip, folder>>

\* The disk is full, the zip was replaced meanwhile.
ExtractFails(w) ==
    /\ pc[w] = "extract"
    /\ NextSource(w)
    /\ UNCHANGED fileVars

\* The process dies; everything on disk stays as it is.
Crash ==
    /\ crashes < MaxCrash
    /\ crashes' = crashes + 1
    /\ torn' = (torn \/ \E w \in Installers : pc[w] = "name")
    /\ lock' = None /\ running' = FALSE
    /\ pc' = [w \in Installers |-> "off"]
    /\ src' = [w \in Installers |-> First]
    /\ n' = [w \in Installers |-> 0]
    /\ tries' = [w \in Installers |-> 0]
    /\ left' = [w \in Installers |-> {}]
    /\ UNCHANGED <<fileVars, overlapped>>

InstallStep(w) ==
    \/ Begin(w) \/ Look(w) \/ End(w)
    \/ ProbeFails(w) \/ Reuse(w) \/ Resume(w) \/ Name(w)
    \/ ConnectFails(w) \/ Refused(w) \/ Connect(w) \/ ConnectFromZero(w)
    \/ Chunk(w) \/ StreamDone(w) \/ NotReplaced(w) \/ StreamCut(w) \/ StreamEmpty(w)
    \/ Rejected(w) \/ Unpack(w) \/ ExtractFile(w)
    \/ Register(w) \/ ExtractFails(w)

Next ==
    \/ Press \/ OpenProfile \/ Crash
    \/ \E r \in Requests : PressAgain(r)
    \/ \E w \in Installers : InstallStep(w)

Spec == Init /\ [][Next]_vars

-----------------------------------------------------------------------------
\* Types.  An installer that reads a stream has a source.
TypeOK ==
    /\ lock \in Requests \cup {None} /\ running \in BOOLEAN
    /\ pc \in [Installers -> {"off", "begin", "look", "probe", "name", "connect",
                              "read", "placed", "extract", "register", "end"}]
    /\ src \in [Installers -> Sources \cup {0}]
    /\ n \in [Installers -> 0..MaxChunks]
    /\ left \in [Installers -> SUBSET Pieces]
    /\ tries \in [Installers -> 0..(ResumeTries - 1)]
    /\ part \in [n : 0..MaxChunks, from : Origins \cup {None}]
    /\ (part.n = 0) = (part.from = None)
    /\ meta \in Sources \cup {None} /\ zip \in Zips
    /\ folder \subseteq Pieces /\ {marker, overlapped, torn} \subseteq BOOLEAN
    /\ crashes \in 0..MaxCrash
    /\ \A w \in Installers : pc[w] \in {"name", "connect", "read"} => src[w] # 0

\* A Chromium that counts as installed is there with all its files, deaths in
\* the middle of an extraction included, unless two downloads ran together:
\* INSTALLED.json is written after the files (installer/fetch_chromium.py:626).
RegisteredIsWhole == Ready => Whole \/ overlapped

\* A download that was cut off is continued from the source it began with,
\* over deaths and changes of source: the file is put together from two sources
\* only if two downloads ran together or the name beside it was lost.
ResumedFromItsSource == part.from = Mixed => overlapped \/ torn

\* How far an installer is with its source, and what brings it on there: another
\* attempt at the host, of ResumeTries, another chunk, another file of the zip.
Stage(w) == CASE pc[w] = "probe" -> 0 [] pc[w] = "name" -> 1
              [] pc[w] \in {"connect", "read"} -> 2
              [] pc[w] = "placed" -> 3 [] pc[w] = "extract" -> 4 [] OTHER -> 5
Further(w) ==
    \/ Stage(w)' > Stage(w)
    \/ Stage(w) = 2 /\ Stage(w)' = 2 /\ tries'[w] > tries[w]
    \/ /\ pc'[w] = "read" /\ tries'[w] = tries[w]
       /\ pc[w] = "connect" \/ (pc[w] = "read" /\ n'[w] > n[w])
    \/ /\ pc[w] = "extract" /\ pc'[w] = "extract"
       /\ left'[w] \subseteq left[w] /\ left'[w] # left[w]

\* From one source to the next the sources only get later, and a step that stays
\* with a source brings it further: there is no way back in a download, and since
\* sources, attempts, chunks and files are finitely many, no endless way forward.
AtWork == {"probe", "name", "connect", "read", "placed", "extract", "register"}
Forward(w) ==
    \/ pc[w] = "begin" /\ pc'[w] = "look"
    \/ pc[w] = "look" /\ pc'[w] \in {"probe", "placed", "end"}
    \/ /\ pc[w] \in AtWork /\ pc'[w] \in AtWork
       /\ src'[w] > src[w] \/ (src'[w] = src[w] /\ Further(w))
    \/ pc[w] \in AtWork /\ pc'[w] = "end"

\* A step, of whomever, brings an installer forward, starts or ends it, or leaves
\* it where it is (ensure_installed, DownloadManager.fetch, _extract_zip).
NoWayBack ==
    [][\A w \in Installers :
          \/ Forward(w) \/ pc[w] = "off" \/ pc'[w] = "off"
          \/ UNCHANGED <<pc[w], src[w], n[w], tries[w], left[w]>>]_vars

\* Every download comes to an end, whatever the hosts do, unless a request
\* holds the lock for ever.
DownloadEnds == \A w \in Installers : pc[w] # "off" ~> (pc[w] = "off" \/ lock # None)

\* What the code does not keep: no request waits for a lock it holds itself
\* (status() under _LOCK in start_install_async, app_chromium.py:218).
NoSelfDeadlock == lock = None
=============================================================================
