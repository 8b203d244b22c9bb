--------------------------- MODULE BrowserProfile ---------------------------
(***************************************************************************)
(* The Chromium profile of one account (chromium_profile.py): request      *)
(* threads open, create, save and delete it; workers chat, read threads    *)
(* and reveal numbers through its window (chat_browser.py, contact.py);    *)
(* a login with a code and the collection of the site's session write the  *)
(* same session.json (client.py, session_view.py).                         *)
(*                                                                         *)
(* Window processes outlive the program.  account.json and session.json   *)
(* are read, changed and written without a lock; the file is truncated     *)
(* before it is filled.                                                    *)
(***************************************************************************)
EXTENDS Integers, FiniteSets

CONSTANTS
    Threads,        \* request threads and workers
    None,
    Sites,          \* platforms of a profile, "divar" among them
    Proofs,         \* what makes a session complete, "token" among it
    MaxProcs,       \* bound: window processes at a time, running or known
    Requests,       \* what request threads do in this instance
    MaxCrash        \* bound: deaths of the program

Panel == {"open", "create", "save", "delete", "login", "collect"}

ASSUME ProfileAssumption ==
    /\ None \notin Threads \cup Panel \cup {"chat"} /\ "divar" \in Sites /\ "token" \in Proofs
    /\ Requests \subseteq Panel \cup {"chat"}
    /\ MaxProcs \in Nat \ {0} /\ MaxCrash \in Nat

Complete(s) == Proofs \subseteq s           \* session_is_complete
\* The cookies that look like a login at divar, whatever their value is; those
\* of another platform count as one, its name.
Hints == Proofs \cup {"front"}
CookiesOf(site) == IF site = "divar" THEN Hints ELSE {site}
SitesOf(cookies) == {s \in Sites : cookies \cap CookiesOf(s) # {}}    \* cookies_per_platform
Cookies == UNION {CookiesOf(s) : s \in Sites}
Procs == 1..MaxProcs
\* Of account.json: profile_ready and platforms.  Its other fields are shown
\* to the user only.
NoMeta == [ready |-> FALSE, sites |-> {}]

VARIABLES
    running,        \* window processes of the profile
    live,           \* _LIVE[name]["proc"], 0 for no entry
    cdp,            \* the process DevToolsActivePort names, 0 for no file
    page,           \* for whom the page of a process shows an address
    meta,           \* account.json
    session,        \* the proofs of a login in session.json
    chatLock,       \* _LOCKS[name]
    op, pc,         \* what a thread does, and where it is in it
    proc, upd,      \* the process, and the change of meta, it is at
    got, per,       \* the proofs and the sites it has found in cookies
    metaCopy, sessionCopy,
    \* history, read by the properties only
    overlapped,     \* a request ran together with another thread
    strays,         \* windows that a death left, or that did not end when told to
    displaced,      \* windows whose entry another one took
    harvest,        \* the proofs that the save account.json tells of has found
    torn,           \* a death hit a file while it was written
    crashes

files == <<meta, session, harvest>>
astray == <<strays, displaced>>
windows == <<running, live, cdp, page, astray>>
local == <<op, pc, proc, upd, got, per, metaCopy, sessionCopy>>
history == <<overlapped, torn, crashes>>
vars == <<windows, files, chatLock, local, history>>

Init ==
    /\ running = {} /\ live = 0 /\ cdp = 0
    /\ page = [p \in Procs |-> None]
    /\ meta = NoMeta /\ session = {} /\ chatLock = None
    /\ op = [t \in Threads |-> None] /\ pc = [t \in Threads |-> "off"]
    /\ proc = [t \in Threads |-> 0] /\ upd = [t \in Threads |-> None]
    /\ got = [t \in Threads |-> {}] /\ per = [t \in Threads |-> {}]
    /\ metaCopy = [t \in Threads |-> NoMeta]
    /\ sessionCopy = [t \in Threads |-> {}]
    /\ overlapped = FALSE /\ strays = {} /\ displaced = {} /\ harvest = {}
    /\ torn = FALSE /\ crashes = 0

-----------------------------------------------------------------------------
Inside(t) == pc[t] \notin {"off", "wait"}
\* t enters what it does; two chats in the window are not an excuse.
Entering(t) ==
    overlapped' = (overlapped \/ \E u \in Threads \ {t} :
                      Inside(u) /\ {op'[t], op[u]} \cap Panel # {})

Goto(t, to) == pc' = [pc EXCEPT ![t] = to]
\* On to the next change of meta.
Update(t, change) == /\ Goto(t, "load")
                     /\ upd' = [upd EXCEPT ![t] = change]
Keep(t) == UNCHANGED <<op, got, per, metaCopy, sessionCopy, chatLock, history>>

Done(t) ==
    /\ op' = [op EXCEPT ![t] = None]
    /\ Goto(t, "off")
    /\ proc' = [proc EXCEPT ![t] = 0]
    /\ upd' = [upd EXCEPT ![t] = None]
    /\ got' = [got EXCEPT ![t] = {}] /\ per' = [per EXCEPT ![t] = {}]
    /\ metaCopy' = [metaCopy EXCEPT ![t] = NoMeta]
    /\ sessionCopy' = [sessionCopy EXCEPT ![t] = {}]
    /\ UNCHANGED history

\* Of the windows that were lost sight of, those that have ended are forgotten.
Ends(p) ==
    /\ running' = running \ {p}
    /\ strays' = strays \ {p} /\ displaced' = displaced \ {p}

\* is_open, for the process and port of the entry
IsOpen == live # 0 /\ (live \in running \/ cdp \in running)

-----------------------------------------------------------------------------
(* Requests and workers begin.                                             *)

Start(t, what, to) ==
    /\ pc[t] = "off"
    /\ op' = [op EXCEPT ![t] = what]
    /\ Goto(t, to)
    /\ Entering(t)
    /\ UNCHANGED <<windows, files, chatLock, proc, upd, got, per, metaCopy,
                   sessionCopy, torn, crashes>>

Open(t) == Start(t, "open", "close")
\* save_meta first, with profile_ready off
Create(t) ==
    /\ pc[t] = "off"
    /\ op' = [op EXCEPT ![t] = "create"]
    /\ Update(t, "created")
    /\ Entering(t)
    /\ UNCHANGED <<windows, files, chatLock, proc, got, per, metaCopy, sessionCopy,
                   torn, crashes>>
Save(t) == Start(t, "save", "look")
Delete(t) == Start(t, "delete", "close")
\* confirm_otp was answered with a token
Login(t) ==
    /\ pc[t] = "off"
    /\ op' = [op EXCEPT ![t] = "login"]
    /\ \E s \in SUBSET Proofs : "token" \in s /\ got' = [got EXCEPT ![t] = s]
    /\ Goto(t, "readSession")
    /\ Entering(t)
    /\ UNCHANGED <<windows, files, chatLock, proc, upd, per, metaCopy, sessionCopy,
                   torn, crashes>>
Collect(t) ==
    /\ "token" \in session
    /\ \A u \in Threads : op[u] # "collect"
    /\ Start(t, "collect", "browse")
Chat(t) == Start(t, "chat", "wait")

-----------------------------------------------------------------------------
(* open_profile                                                            *)

\* Mutant of Pop: the window that is open stays open.
PopNothing(t) ==
    /\ pc[t] = "close"
    /\ proc' = [proc EXCEPT ![t] = 0]
    /\ live' = 0
    /\ Goto(t, "kill")
    /\ UNCHANGED <<running, cdp, page, astray, files, upd>> /\ Keep(t)

\* close_live: the entry is removed under the lock, the process ended after.
Pop(t) ==
    /\ pc[t] = "close"
    /\ proc' = [proc EXCEPT ![t] = live]
    /\ live' = 0
    /\ Goto(t, "kill")
    /\ UNCHANGED <<running, cdp, page, astray, files, upd>> /\ Keep(t)

\* Chromium is not there and cannot be fetched: open_profile raises before it
\* touches the window that is open.
NoProgram(t) ==
    /\ pc[t] = "close"
    /\ \/ op[t] = "open" /\ Done(t)
       \/ op[t] = "chat" /\ Goto(t, "release")
          /\ UNCHANGED <<op, proc, upd, got, per, metaCopy, sessionCopy, history>>
    /\ UNCHANGED <<windows, files, chatLock>>

\* The process is asked to end; that it goes on, and a failure to ask it, are
\* ignored (taskkill without /F).
Kill(t) ==
    /\ pc[t] = "kill"
    /\ \/ Ends(proc[t])
       \/ proc[t] \in running /\ strays' = strays \cup {proc[t]}
          /\ UNCHANGED <<running, displaced>>
    /\ proc' = [proc EXCEPT ![t] = 0]
    /\ CASE op[t] = "delete" -> Goto(t, "remove") /\ UNCHANGED upd
         [] op[t] = "save"   -> Update(t, "closed")
         [] OTHER            -> Update(t, "opening")
    /\ UNCHANGED <<live, cdp, page, files>> /\ Keep(t)

\* save_meta reads account.json; a file that was just truncated reads as {}.
LoadMeta(t) ==
    /\ pc[t] = "load"
    /\ \E m \in {meta} \cup {NoMeta : u \in {u \in Threads : pc[u] = "write"}} :
         metaCopy' = [metaCopy EXCEPT ![t] = m]
    /\ Goto(t, "write")
    /\ UNCHANGED <<windows, files, chatLock, op, proc, upd, got, per, sessionCopy,
                   history>>

Updated(m, change, sites) ==
    CASE change \in {"created", "refused"} -> [m EXCEPT !.ready = FALSE]
      [] change = "saved"   -> [ready |-> sites # {}, sites |-> sites]
      [] change = "closed"  -> [m EXCEPT !.sites = sites]
      [] OTHER              -> m

\* What follows a write; what was read for it is forgotten.
After(t, to) ==
    /\ Goto(t, to)
    /\ upd' = [upd EXCEPT ![t] = None]
    /\ metaCopy' = [metaCopy EXCEPT ![t] = NoMeta]
    /\ sessionCopy' = [sessionCopy EXCEPT ![t] = {}]
    /\ proc' = [proc EXCEPT ![t] = 0]
    /\ UNCHANGED <<got, per, history>>

WriteMeta(t) ==
    /\ pc[t] = "write"
    /\ meta' = Updated(metaCopy[t], upd[t], per[t])
    /\ harvest' = IF upd[t] = "saved" THEN got[t] ELSE harvest
    /\ CASE upd[t] = "created" -> /\ After(t, "close")
                                  /\ op' = [op EXCEPT ![t] = "open"]
         [] upd[t] = "opening" -> After(t, "spawn") /\ UNCHANGED op
         [] upd[t] = "saved" /\ per[t] # {} -> After(t, "close") /\ UNCHANGED op
         [] upd[t] = "open" /\ op[t] = "chat" -> After(t, "connect") /\ UNCHANGED op
         [] upd[t] = "error" /\ op[t] = "chat" -> After(t, "release") /\ UNCHANGED op
         [] OTHER -> Done(t)
    /\ UNCHANGED <<windows, session, chatLock>>

\* Processes nothing knows of: a new window is the first of them.
Free == Procs \ (running \cup {live, cdp} \cup {proc[u] : u \in Threads})

\* _clear_locks and Popen.  Starting the program may fail.
Spawn(t) ==
    /\ pc[t] = "spawn"
    /\ cdp' = 0
    /\ \E p \in Free :
          /\ \A q \in Free : p <= q
          /\ running' = running \cup {p}
          /\ proc' = [proc EXCEPT ![t] = p]
          /\ page' = [page EXCEPT ![p] = None]
    /\ Goto(t, "bind")
    /\ UNCHANGED <<live, astray, files, upd>> /\ Keep(t)

SpawnFails(t) ==
    /\ pc[t] = "spawn"
    /\ cdp' = 0
    /\ Update(t, "error")
    /\ UNCHANGED <<running, live, page, astray, files, proc>> /\ Keep(t)

\* The loop of 28 looks: the process ended, or it is up, with its debug port
\* or without.
Bind(t) ==
    /\ pc[t] = "bind"
    /\ IF proc[t] \in running
       THEN /\ cdp' \in {cdp, proc[t]}
            /\ Goto(t, "publish") /\ UNCHANGED upd
       ELSE UNCHANGED cdp /\ Update(t, "error")
    /\ UNCHANGED <<running, live, page, astray, files, proc>> /\ Keep(t)

Publish(t) ==
    /\ pc[t] = "publish"
    /\ live' = proc[t]
    /\ displaced' = displaced \cup ({live} \cap running)
    /\ proc' = [proc EXCEPT ![t] = 0]
    /\ Update(t, "open")
    /\ UNCHANGED <<running, cdp, page, strays, files>> /\ Keep(t)

-----------------------------------------------------------------------------
(* save_profile, delete_profile, session.json                              *)

\* What a save takes from cookies, which are the user's: the platforms it finds
\* logged in, in those of the window or else in those of the disk, and the proofs
\* it finds in the former, which are all that it stores.
Found(t) ==
    \E window \in SUBSET Cookies, disk \in SUBSET Sites :
        /\ got' = [got EXCEPT ![t] = window \cap Proofs]
        /\ per' = [per EXCEPT ![t] = IF SitesOf(window) # {} THEN SitesOf(window) ELSE disk]

\* Mutant of Look: account.json is written before session.json.
LookMarkFirst(t) ==
    /\ pc[t] = "look"
    /\ Found(t)
    /\ meta' = Updated(meta, "saved", per'[t]) /\ harvest' = got'[t]
    /\ live' = IF IsOpen THEN live ELSE 0
    /\ Goto(t, "readSession")
    /\ UNCHANGED <<running, cdp, page, astray, session, chatLock, op, proc, upd, metaCopy,
                   sessionCopy, history>>

\* Cookies of the window or of the disk; without either the save is refused.
Look(t) ==
    /\ pc[t] = "look"
    /\ Found(t)
    /\ live' = IF IsOpen THEN live ELSE 0
    /\ \/ Goto(t, "readSession") /\ UNCHANGED upd
       \/ per'[t] = {} /\ ~IsOpen /\ cdp \notin running /\ Update(t, "refused")
    /\ UNCHANGED <<running, cdp, page, astray, files, chatLock, op, proc, metaCopy,
                   sessionCopy, history>>

ReadSession(t) ==
    /\ pc[t] = "readSession"
    /\ \E s \in {session} \cup {{} : u \in {u \in Threads : pc[u] = "writeSession"}} :
         sessionCopy' = [sessionCopy EXCEPT ![t] = s]
    /\ Goto(t, "writeSession")
    /\ UNCHANGED <<windows, files, chatLock, op, proc, upd, got, per, metaCopy, history>>

WriteSession(t) ==
    /\ pc[t] = "writeSession"
    /\ session' = sessionCopy[t] \cup got[t]
    /\ CASE op[t] = "save" ->
                /\ Update(t, "saved")
                /\ sessionCopy' = [sessionCopy EXCEPT ![t] = {}]
                /\ UNCHANGED <<op, proc, got, per, metaCopy, history>>
         [] op[t] = "collect" /\ upd[t] = None /\ Complete(session') ->
                After(t, "leave") /\ UNCHANGED op
         [] op[t] = "collect" /\ upd[t] = None /\ ~Complete(session') ->
                After(t, "browse") /\ UNCHANGED op
         [] OTHER -> Done(t)
    /\ UNCHANGED <<windows, meta, harvest, chatLock>>

\* collect_site_login: the cookies of its own window every two seconds, and
\* once more at the end
Browse(t) ==
    /\ pc[t] \in {"browse", "leave"}
    /\ \E s \in SUBSET Proofs : got' = [got EXCEPT ![t] = s]
    /\ upd' = [upd EXCEPT ![t] = IF pc[t] = "leave" THEN "last" ELSE None]
    /\ Goto(t, "readSession")
    /\ UNCHANGED <<windows, files, chatLock, op, proc, per, metaCopy, sessionCopy, history>>

CollectTimeout(t) ==
    /\ pc[t] = "browse"
    /\ Goto(t, "leave")
    /\ UNCHANGED <<windows, files, proc, upd>> /\ Keep(t)

Remove(t) ==
    /\ pc[t] = "remove"
    /\ meta' = NoMeta /\ session' = {} /\ harvest' = {} /\ cdp' = 0
    /\ Done(t)
    /\ UNCHANGED <<running, live, page, astray, chatLock>>

-----------------------------------------------------------------------------
(* send_on_url, read_thread, reveal_via_browser: one at a time on a        *)
(* profile, whose address the page shows from Navigate to Evaluate.        *)

\* Mutant of Acquire: the lock is not waited for.
AcquireAnyway(t) ==
    /\ pc[t] = "wait"
    /\ chatLock' = t
    /\ Goto(t, "enter")
    /\ overlapped' = (overlapped \/ \E u \in Threads \ {t} : Inside(u) /\ op[u] \in Panel)
    /\ UNCHANGED <<windows, files, op, proc, upd, got, per, metaCopy, sessionCopy,
                   torn, crashes>>

Acquire(t) ==
    /\ pc[t] = "wait" /\ chatLock = None
    /\ chatLock' = t
    /\ Goto(t, "enter")
    /\ overlapped' = (overlapped \/ \E u \in Threads \ {t} : Inside(u) /\ op[u] \in Panel)
    /\ UNCHANGED <<windows, files, op, proc, upd, got, per, metaCopy, sessionCopy,
                   torn, crashes>>

\* 60 or 90 seconds are over
Busy(t) ==
    /\ pc[t] = "wait" /\ chatLock # None
    /\ Done(t)
    /\ UNCHANGED <<windows, files, chatLock>>

\* _connect_profile: is_open, or open_profile
Enter(t) ==
    /\ pc[t] = "enter"
    /\ live' = IF IsOpen THEN live ELSE 0
    /\ Goto(t, IF IsOpen THEN "connect" ELSE "close")
    /\ UNCHANGED <<running, cdp, page, astray, files, proc, upd>> /\ Keep(t)

Connect(t) ==
    /\ pc[t] = "connect"
    /\ proc' = [proc EXCEPT ![t] = cdp]
    /\ Goto(t, IF cdp \in running THEN "navigate" ELSE "release")
    /\ UNCHANGED <<windows, files, upd>> /\ Keep(t)

Navigate(t) ==
    /\ pc[t] = "navigate"
    /\ IF proc[t] \in running
       THEN page' = [page EXCEPT ![proc[t]] = t] /\ Goto(t, "evaluate")
       ELSE UNCHANGED page /\ Goto(t, "release")
    /\ UNCHANGED <<running, live, cdp, astray, files, proc, upd>> /\ Keep(t)

\* Writes and sends the message, or reads the thread or the number.
Evaluate(t) ==
    /\ pc[t] = "evaluate"
    /\ Goto(t, "release")
    /\ UNCHANGED <<windows, files, proc, upd>> /\ Keep(t)

Release(t) ==
    /\ pc[t] = "release"
    /\ chatLock' = None
    /\ page' = [p \in Procs |-> IF page[p] = t THEN None ELSE page[p]]
    /\ Done(t)
    /\ UNCHANGED <<running, live, cdp, astray, files>>

-----------------------------------------------------------------------------
(* The user closes a window, and the death of the program.                   *)

UserCloses ==
    /\ \E p \in running : Ends(p)
    /\ UNCHANGED <<live, cdp, page, files, chatLock, local, history>>

Crash ==
    /\ crashes < MaxCrash
    /\ crashes' = crashes + 1
    /\ live' = 0 /\ chatLock' = None
    /\ strays' = strays \cup running
    /\ meta' \in {meta} \cup {NoMeta : t \in {t \in Threads : pc[t] = "write"}}
    /\ session' \in {session} \cup {{} : t \in {t \in Threads : pc[t] = "writeSession"}}
    /\ torn' = (torn \/ <<meta', session'>> # <<meta, session>>)
    /\ op' = [t \in Threads |-> None] /\ pc' = [t \in Threads |-> "off"]
    /\ proc' = [t \in Threads |-> 0] /\ upd' = [t \in Threads |-> None]
    /\ got' = [t \in Threads |-> {}] /\ per' = [t \in Threads |-> {}]
    /\ metaCopy' = [t \in Threads |-> NoMeta]
    /\ sessionCopy' = [t \in Threads |-> {}]
    /\ page' = [p \in Procs |-> None]
    /\ UNCHANGED <<running, cdp, displaced, harvest, overlapped>>

Request(t) == /\ Open(t) \/ Create(t) \/ Save(t) \/ Delete(t)
                 \/ Login(t) \/ Collect(t) \/ Chat(t)
              /\ op'[t] \in Requests
Step(t) ==
    \/ Pop(t) \/ NoProgram(t) \/ Kill(t) \/ LoadMeta(t) \/ WriteMeta(t)
    \/ Spawn(t) \/ SpawnFails(t) \/ Bind(t) \/ Publish(t)
    \/ Look(t) \/ ReadSession(t) \/ WriteSession(t)
    \/ Browse(t) \/ CollectTimeout(t) \/ Remove(t)
    \/ Acquire(t) \/ Busy(t) \/ Enter(t)
    \/ Connect(t) \/ Navigate(t) \/ Evaluate(t) \/ Release(t)

Next == UserCloses \/ Crash \/ \E t \in Threads : Request(t) \/ Step(t)

Spec == Init /\ [][Next]_vars

-----------------------------------------------------------------------------
TypeOK ==
    /\ running \subseteq Procs /\ live \in 0..MaxProcs /\ cdp \in 0..MaxProcs
    /\ page \in [Procs -> Threads \cup {None}]
    /\ session \subseteq Proofs
    /\ meta.ready \in BOOLEAN /\ meta.sites \subseteq Sites
    /\ chatLock \in Threads \cup {None}
    /\ proc \in [Threads -> 0..MaxProcs]
    /\ \A t \in Threads : pc[t] = "off" <=> op[t] = None
    /\ \A t \in Threads : pc[t] \in {"bind", "publish"} => proc[t] # 0

\* No window of the profile is lost sight of: it is the one in _LIVE, or a thread
\* is about to enter it there or to end it, whichever requests overlap.  The
\* windows nobody can close from the panel are those a death of the program left,
\* those that did not end when they were told to, and those whose entry was taken
\* by another window; and the last needs requests that overlapped.
EveryWindowKnown ==
    \A p \in running :
        \/ p = live
        \/ \E t \in Threads : proc[t] = p /\ pc[t] \in {"kill", "bind", "publish"}
        \/ p \in strays
        \/ p \in displaced /\ overlapped

\* A message is sent, a thread or a number read, on the page its own thread has
\* opened: the lock of the profile keeps chats of one account apart
\* (chat_browser.py:6), whatever the panel does with the window meanwhile.
OwnPage ==
    \A t \in Threads : pc[t] = "evaluate" /\ proc[t] \in running => page[proc[t]] = t

\* The login a save found is in session.json from the moment account.json counts
\* the profile as logged in, and stays there: deaths between the two files, later
\* logins, collections and saves included.
CountedLoginIsKept == meta.ready => harvest \subseteq session \/ overlapped \/ torn

\* What the code does not keep: a profile that counts as logged in at divar has
\* a complete login in session.json (auth_session.py:341).  One cookie that looks
\* like a login is enough for the first (chromium_profile.py:138), in the window
\* or, unlike what is stored, on the disk.
SavedLoginIsUsable ==
    meta.ready /\ "divar" \in meta.sites => Complete(session) \/ overlapped \/ torn
=============================================================================
