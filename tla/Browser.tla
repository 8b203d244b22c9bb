------------------------------- MODULE Browser -------------------------------
(***************************************************************************)
(* The profile of an account and the Chromium it runs: open_profile        *)
(* (chromium_profile.py) asks for the program, has it downloaded in its    *)
(* own thread when it is missing, asks again, and only then closes the old *)
(* window and starts a new one.  Other threads download into the same      *)
(* folder meanwhile, and the program may die.                              *)
(***************************************************************************)
EXTENDS BrowserProfile

CONSTANTS
    Installers,     \* threads that may run ensure_installed
    Pressers, Sources, Genuine, Mixed, MaxChunks, MinChunks, ResumeTries

VARIABLES
    lock, downloading, at, src, counted, tries, left,
    part, named, zip, folder, marker, together, lost,
    asked           \* what became of the download a thread's open_profile ran

Install == INSTANCE ChromiumInstall
               WITH Requests <- Pressers, running <- downloading, pc <- at,
                    n <- counted, meta <- named, overlapped <- together, torn <- lost

\* A thread that opens a profile downloads in its own name.
ASSUME BrowserAssumption ==
    Install!InstallAssumption /\ Threads \subseteq Installers

profileVars == <<windows, files, chatLock, local, overlapped, torn>>
installVars == <<lock, downloading, at, src, counted, tries, left,
                 part, named, zip, folder, marker, together, lost>>
browserVars == <<profileVars, installVars, crashes, asked>>

BrowserInit == Init /\ Install!Init /\ asked = [t \in Threads |-> "no"]

-----------------------------------------------------------------------------
\* t is where open_profile looks for the program.
Opens(t) == pc[t] = "close" /\ op[t] \in {"open", "chat"}

\* open_profile: is_ready is false, ensure_installed begins.
Fetch(t) ==
    /\ Opens(t) /\ asked[t] = "no"
    /\ Install!OpenProfile /\ at'[t] # "off"
    /\ asked' = [asked EXCEPT ![t] = "done"]
    /\ UNCHANGED profileVars

\* Mutant of GoOn: an error of the download is swallowed.
GoOnAnyway(t) == asked[t] # "no" \/ Install!Ready

\* open_profile goes on to the windows if no download raised an error and the
\* program is there.
GoOn(t) == asked[t] # "failed" /\ Install!Ready
GivesUp(t) == asked[t] = "failed" \/ (asked[t] = "done" /\ ~Install!Ready)

ProfileStep(t) ==
    /\ Request(t) \/ Step(t)
    /\ at[t] = "off"
    /\ Opens(t) => IF pc'[t] = "kill" THEN GoOn(t) ELSE GivesUp(t)
    /\ asked' = [asked EXCEPT ![t] = "no"]
    /\ UNCHANGED installVars

User == UserCloses /\ UNCHANGED <<installVars, asked>>

\* start_install_async runs ensure_installed in a thread of its own.
Press ==
    /\ Install!Press /\ \A t \in Threads : at'[t] = at[t]
    /\ UNCHANGED <<profileVars, asked>>
PressAgain(r) == Install!PressAgain(r) /\ UNCHANGED <<profileVars, asked>>

\* ensure_installed of w returns once the program is registered, or raises.
Raises(w) == at[w] # "end" /\ at'[w] = "end" /\ ~(at[w] \in {"look", "register"} /\ Install!Ready')
InstallerStep(w) ==
    /\ Install!InstallStep(w)
    /\ asked' = [t \in Threads |-> IF t = w /\ Raises(w) THEN "failed" ELSE asked[t]]
    /\ UNCHANGED profileVars

Death == Crash /\ Install!Crash /\ asked' = [t \in Threads |-> "no"]

BrowserNext ==
    \/ User \/ Press \/ Death
    \/ \E t \in Threads : Fetch(t) \/ ProfileStep(t)
    \/ \E r \in Pressers : PressAgain(r)
    \/ \E w \in Installers : InstallerStep(w)

BrowserSpec == BrowserInit /\ [][BrowserNext]_browserVars
\* A thread that downloads goes on: every wait for a host has a timeout.
BrowserFair == BrowserSpec /\ \A w \in Installers : WF_browserVars(InstallerStep(w))

-----------------------------------------------------------------------------
\* A Chromium that counts as installed is there with all its files, and as long
\* as a window of a profile runs from it nobody takes one away: deaths in the
\* middle of an extraction included, unless two downloads ran together.
\* INSTALLED.json is written after the files (installer/fetch_chromium.py:626),
\* and open_profile looks for it before it starts a window.
RegisteredIsWhole == Install!Ready \/ running # {} => Install!Whole \/ together

\* A download that was cut off is continued from the source it began with,
\* over deaths and changes of source: the file is put together from two sources
\* only if two downloads ran together or the name beside it was lost.
ResumedFromItsSource == Install!ResumedFromItsSource

\* Every download comes to an end, whatever the hosts do, unless a request
\* holds the lock for ever.
DownloadEnds == Install!DownloadEnds

\* What the code does not keep: no request waits for a lock it holds itself
\* (status() under _LOCK in start_install_async, app_chromium.py:218).
NoSelfDeadlock == Install!NoSelfDeadlock
=============================================================================
