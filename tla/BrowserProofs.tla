---------------------------- MODULE BrowserProofs ----------------------------
(***************************************************************************)
(* Theorems about the browser: the profiles (BrowserProfile), for every    *)
(* number of threads, platforms, window processes and deaths of the        *)
(* program, and the Chromium they run (ChromiumInstall), for every number  *)
(* of downloads, sources and chunks.                                       *)
(***************************************************************************)
EXTENDS Browser, WellFoundedInduction, TLAPS

USE DEF files, windows, astray, local, history

-----------------------------------------------------------------------------
(* The invariant *)

Ops == Panel \cup {"chat"}
Chatting == {"wait", "enter", "connect", "navigate", "evaluate", "release"}
Merging == {"readSession", "writeSession"}
Updating == {"load", "write"}
Places == Chatting \cup Merging \cup Updating \cup
          {"off", "close", "kill", "spawn", "bind", "publish", "look", "browse", "leave", "remove"}
Changes == {"created", "refused", "saved", "closed", "opening", "open", "error", "last"}
Metas == [ready : BOOLEAN, sites : SUBSET Sites]

Types ==
    /\ running \subseteq Procs /\ live \in 0 .. MaxProcs /\ cdp \in 0 .. MaxProcs
    /\ page \in [Procs -> Threads \cup {None}]
    /\ strays \subseteq Procs /\ displaced \subseteq Procs
    /\ meta \in Metas /\ session \subseteq Proofs /\ harvest \subseteq Proofs
    /\ chatLock \in Threads \cup {None}
    /\ op \in [Threads -> Ops \cup {None}] /\ pc \in [Threads -> Places]
    /\ proc \in [Threads -> 0 .. MaxProcs] /\ upd \in [Threads -> Changes \cup {None}]
    /\ got \in [Threads -> SUBSET Proofs] /\ per \in [Threads -> SUBSET Sites]
    /\ metaCopy \in [Threads -> Metas] /\ sessionCopy \in [Threads -> SUBSET Proofs]
    /\ overlapped \in BOOLEAN /\ torn \in BOOLEAN

\* Where a thread can be in what it does, and what it has read by then.
At(t) ==
    /\ pc[t] = "off" <=> op[t] = None
    /\ pc[t] = "off" => got[t] = {}
    /\ pc[t] \in Chatting => op[t] = "chat"
    /\ pc[t] \in Merging => op[t] \in {"save", "login", "collect"}
    /\ pc[t] \in Updating => upd[t] \in Changes
    /\ pc[t] \in Updating /\ upd[t] = "created" => op[t] = "create"
    /\ pc[t] \in Updating => (upd[t] \in {"saved", "closed", "refused"} <=> op[t] = "save")
    /\ pc[t] \in {"spawn", "bind", "publish"} => op[t] # "save"
    /\ pc[t] = "look" => op[t] = "save"
    /\ pc[t] \in {"browse", "leave"} => op[t] = "collect"
    /\ pc[t] \in {"bind", "publish", "evaluate"} => proc[t] # 0

\* Requests that do not overlap are alone in the profile, and a chat holds
\* its lock until it is done, whatever overlaps.
Apart == \A t, u \in Threads : Inside(t) /\ Inside(u) => t = u
Locked == \A t \in Threads : Inside(t) /\ op[t] = "chat" => chatLock = t

\* The page of an evaluation was opened by its thread, if nobody has closed it.
Own == \A t \in Threads : pc[t] = "evaluate" => page[proc[t]] = t

\* From the end of the old window to the entry of the new one there is none.
Opening(t) == \/ pc[t] \in {"kill", "spawn", "bind", "publish"}
              \/ pc[t] \in Updating /\ upd[t] = "opening"
Closed == \A t \in Threads : Opening(t) => live = 0

\* A window whose entry was taken needs two threads in the profile.
Holds(t, p) == proc[t] = p /\ pc[t] \in {"kill", "bind", "publish"}
Known ==
    \A p \in running :
        p = live \/ (\E t \in Threads : Holds(t, p)) \/ p \in strays \/ p \in displaced

\* A writer has read what it overwrites, and what a save has found is in
\* session.json before it writes account.json.
Fresh(t) ==
    /\ pc[t] = "write" => metaCopy[t] = meta
    /\ pc[t] = "writeSession" => sessionCopy[t] = session
    /\ pc[t] \in Updating /\ upd[t] = "saved" => got[t] \subseteq session
Kept == harvest \subseteq session

ProfileInv ==
    /\ Types /\ \A t \in Threads : At(t)
    /\ Locked /\ Own
    /\ Known
    /\ ~overlapped => Apart /\ Closed /\ displaced = {}
    /\ ~overlapped /\ ~torn => Kept /\ \A t \in Threads : Fresh(t)

-----------------------------------------------------------------------------
(* A step changes the place of one thread. *)

Alone(t) ==
    \A u \in Threads \ {t} :
        /\ op'[u] = op[u] /\ pc'[u] = pc[u] /\ proc'[u] = proc[u] /\ upd'[u] = upd[u]
        /\ got'[u] = got[u] /\ metaCopy'[u] = metaCopy[u]
        /\ sessionCopy'[u] = sessionCopy[u]

LEMMA OthersStay ==
    ASSUME Types, NEW t \in Threads, Request(t) \/ Step(t)
    PROVE  Alone(t)
  <1> USE DEF Alone, Goto, Update, Keep, Done, After
  <1>1. CASE Request(t)
    BY <1>1 DEF Types, Request, Start, Open, Create, Save, Delete, Login, Collect, Chat
  <1>2. CASE Pop(t) \/ NoProgram(t) \/ Kill(t) \/ LoadMeta(t)
    BY <1>2 DEF Types, Pop, NoProgram, Kill, Ends, LoadMeta
  <1>3. CASE WriteMeta(t)
    BY <1>3 DEF Types, WriteMeta
  <1>4. CASE Spawn(t) \/ SpawnFails(t) \/ Bind(t) \/ Publish(t)
    BY <1>4 DEF Types, Spawn, SpawnFails, Bind, Publish
  <1>5. CASE Look(t) \/ ReadSession(t)
    BY <1>5 DEF Types, Look, Found, ReadSession
  <1>6. CASE WriteSession(t)
    BY <1>6 DEF Types, WriteSession
  <1>7. CASE Browse(t) \/ CollectTimeout(t) \/ Remove(t)
    BY <1>7 DEF Types, Browse, CollectTimeout, Remove
  <1>8. CASE Acquire(t) \/ Busy(t) \/ Enter(t)
    BY <1>8 DEF Types, Acquire, Busy, Enter
  <1>9. CASE Connect(t) \/ Navigate(t) \/ Evaluate(t) \/ Release(t)
    BY <1>9 DEF Types, Connect, Navigate, Evaluate, Release
  <1> QED
    BY <1>1, <1>2, <1>3, <1>4, <1>5, <1>6, <1>7, <1>8, <1>9 DEF Step

-----------------------------------------------------------------------------
(* Types and places *)

LEMMA TypesStep ==
    ASSUME Types, NEW t \in Threads, At(t), Request(t) \/ Step(t)
    PROVE  Types'
  <1> USE ProfileAssumption DEF Types, Goto, Update, Keep, Done, After, Start, Entering
  <1> USE DEF Ops, Panel, Places, Chatting, Merging, Updating, Changes
  <1>1. CASE Open(t)
    BY <1>1 DEF Open
  <1>2. CASE Create(t)
    BY <1>2 DEF Create
  <1>3. CASE Save(t)
    BY <1>3 DEF Save
  <1>4. CASE Delete(t)
    BY <1>4 DEF Delete
  <1>5. CASE Login(t)
    BY <1>5 DEF Login
  <1>6. CASE Collect(t)
    BY <1>6 DEF Collect
  <1>7. CASE Chat(t)
    BY <1>7 DEF Chat
  <1>8. CASE Pop(t)
    BY <1>8 DEF Pop
  <1>9. CASE Kill(t)
    BY <1>9 DEF Kill, Ends, At
  <1>10. CASE LoadMeta(t)
    <2>1. meta \in Metas /\ NoMeta \in Metas
      BY DEF NoMeta, Metas
    <2>2. PICK m \in Metas : metaCopy' = [metaCopy EXCEPT ![t] = m]
      BY <1>10, <2>1 DEF LoadMeta
    <2> QED
      BY <1>10, <2>2 DEF LoadMeta
  <1>11. CASE WriteMeta(t)
    <2>1. metaCopy[t] \in Metas /\ NoMeta \in Metas
      BY DEF NoMeta, Metas
    <2>2. per[t] \subseteq Sites /\ got[t] \subseteq Proofs
      OBVIOUS
    <2>3. Updated(metaCopy[t], upd[t], per[t]) \in Metas
      BY <2>1, <2>2 DEF Updated, Metas
    <2>4. meta' \in Metas /\ harvest' \subseteq Proofs
      BY <1>11, <2>2, <2>3 DEF WriteMeta
    <2>5. \A to \in Places : After(t, to) =>
             /\ pc' \in [Threads -> Places] /\ upd' \in [Threads -> Changes \cup {None}]
             /\ metaCopy' \in [Threads -> Metas] /\ sessionCopy' \in [Threads -> SUBSET Proofs]
             /\ proc' \in [Threads -> 0 .. MaxProcs] /\ got' = got /\ per' = per
             /\ UNCHANGED <<overlapped, torn>>
      BY <2>1, ProfileAssumption
    <2>6. Done(t) =>
             /\ op' \in [Threads -> Ops \cup {None}] /\ pc' \in [Threads -> Places]
             /\ upd' \in [Threads -> Changes \cup {None}]
             /\ metaCopy' \in [Threads -> Metas] /\ sessionCopy' \in [Threads -> SUBSET Proofs]
             /\ proc' \in [Threads -> 0 .. MaxProcs]
             /\ got' \in [Threads -> SUBSET Proofs] /\ per' \in [Threads -> SUBSET Sites]
             /\ UNCHANGED <<overlapped, torn>>
      BY <2>1, ProfileAssumption
    <2>7. \/ Done(t)
          \/ \E to \in Places : After(t, to) /\ op' \in [Threads -> Ops \cup {None}]
      <3> HIDE DEF After, Done
      <3> QED
        BY <1>11 DEF WriteMeta
    <2> HIDE DEF After, Done
    <2> QED
      BY <1>11, <2>4, <2>5, <2>6, <2>7 DEF WriteMeta
  <1>12. CASE Spawn(t)
    <2>1. PICK p \in Procs : /\ running' = running \cup {p}
                             /\ proc' = [proc EXCEPT ![t] = p]
                             /\ page' = [page EXCEPT ![p] = None]
      BY <1>12 DEF Spawn, Free
    <2>2. running' \subseteq Procs /\ page' \in [Procs -> Threads \cup {None}]
      BY <2>1
    <2>3. proc' \in [Threads -> 0 .. MaxProcs]
      BY <2>1 DEF Procs
    <2> QED
      BY <1>12, <2>2, <2>3 DEF Spawn
  <1>13. CASE SpawnFails(t)
    BY <1>13 DEF SpawnFails
  <1>14. CASE Bind(t)
    <2>1. proc[t] \in 0 .. MaxProcs
      OBVIOUS
    <2>2. cdp' \in 0 .. MaxProcs
      BY <1>14, <2>1 DEF Bind
    <2>3. pc' \in [Threads -> Places] /\ upd' \in [Threads -> Changes \cup {None}]
      BY <1>14 DEF Bind
    <2> QED
      BY <1>14, <2>2, <2>3 DEF Bind
  <1>15. CASE Publish(t)
    <2>1. displaced' \subseteq Procs /\ live' \in 0 .. MaxProcs
      BY <1>15 DEF Publish
    <2>2. proc' \in [Threads -> 0 .. MaxProcs] /\ pc' \in [Threads -> Places]
          /\ upd' \in [Threads -> Changes \cup {None}]
      BY <1>15 DEF Publish
    <2> QED
      BY <1>15, <2>1, <2>2 DEF Publish
  <1>16. CASE Look(t)
    <2>1. got' \in [Threads -> SUBSET Proofs] /\ per' \in [Threads -> SUBSET Sites]
      BY <1>16 DEF Look, Found, SitesOf
    <2>2. pc' \in [Threads -> Places] /\ upd' \in [Threads -> Changes \cup {None}]
      <3>1. CASE Goto(t, "readSession") /\ UNCHANGED upd
        BY <3>1
      <3>2. CASE Update(t, "refused")
        BY <3>2
      <3> QED
        BY <1>16, <3>1, <3>2 DEF Look
    <2>3. live' \in 0 .. MaxProcs
      BY <1>16 DEF Look
    <2> QED
      BY <1>16, <2>1, <2>2, <2>3 DEF Look
  <1>17. CASE ReadSession(t)
    BY <1>17 DEF ReadSession
  <1>18. CASE WriteSession(t)
    <2>1. session' \subseteq Proofs
      BY <1>18 DEF WriteSession, At, Merging
    <2>2. CASE op[t] = "save"
      BY <1>18, <2>1, <2>2 DEF WriteSession
    <2>3. CASE op[t] # "save" /\ Done(t)
      BY <1>18, <2>1, <2>3 DEF WriteSession, NoMeta, Metas
    <2>4. CASE op[t] # "save" /\ After(t, "browse") /\ op' = op
      BY <1>18, <2>1, <2>4 DEF WriteSession, NoMeta, Metas
    <2>5. CASE op[t] # "save" /\ After(t, "leave") /\ op' = op
      BY <1>18, <2>1, <2>5 DEF WriteSession, NoMeta, Metas
    <2>6. \/ op[t] = "save"
          \/ op[t] # "save" /\ Done(t)
          \/ op[t] # "save" /\ After(t, "browse") /\ op' = op
          \/ op[t] # "save" /\ After(t, "leave") /\ op' = op
      <3> HIDE DEF After, Done
      <3>1. ASSUME op[t] # "save", ~Done(t)
            PROVE  (After(t, "browse") \/ After(t, "leave")) /\ op' = op
        BY <1>18, <3>1, Zenon DEF WriteSession
      <3> QED
        BY <3>1, Zenon
    <2> QED
      BY <2>2, <2>3, <2>4, <2>5, <2>6
  <1>19. CASE Browse(t)
    BY <1>19 DEF Browse
  <1>20. CASE CollectTimeout(t)
    BY <1>20 DEF CollectTimeout, NoMeta, Metas
  <1>21. CASE Remove(t)
    BY <1>21 DEF Remove, NoMeta, Metas
  <1>22. CASE Acquire(t)
    BY <1>22 DEF Acquire
  <1>23. CASE Busy(t)
    BY <1>23 DEF Busy, NoMeta, Metas
  <1>24. CASE Enter(t)
    BY <1>24 DEF Enter, IsOpen
  <1>25. CASE Connect(t)
    BY <1>25 DEF Connect
  <1>26. CASE Navigate(t)
    <2>1. CASE proc[t] \in running
      BY <1>26, <2>1 DEF Navigate
    <2>2. CASE proc[t] \notin running
      BY <1>26, <2>2 DEF Navigate
    <2> QED
      BY <2>1, <2>2
  <1>27. CASE Evaluate(t)
    BY <1>27 DEF Evaluate
  <1>28. CASE Release(t)
    BY <1>28 DEF Release, NoMeta, Metas
  <1>29. CASE NoProgram(t)
    <2>1. CASE op[t] = "open" /\ Done(t)
      BY <1>29, <2>1 DEF NoProgram, NoMeta, Metas
    <2>2. CASE op[t] = "chat" /\ Goto(t, "release")
      BY <1>29, <2>2 DEF NoProgram
    <2> QED
      BY <1>29, <2>1, <2>2 DEF NoProgram
  <1> QED
    BY <1>1, <1>2, <1>3, <1>4, <1>5, <1>6, <1>7, <1>8, <1>9, <1>10, <1>11, <1>12, <1>13,
       <1>14, <1>15, <1>16, <1>17, <1>18, <1>19, <1>20, <1>21, <1>22, <1>23, <1>24, <1>25,
       <1>26, <1>27, <1>28, <1>29 DEF Request, Step

LEMMA AtStep ==
    ASSUME Types, \A u \in Threads : At(u), NEW t \in Threads, Request(t) \/ Step(t)
    PROVE  \A u \in Threads : At(u)'
  <1>1. ASSUME NEW u \in Threads \ {t}
        PROVE  At(u)'
    BY OthersStay DEF Alone, At
  <1>2. At(t)'
    <2> At(t)
      OBVIOUS
    <2> USE ProfileAssumption DEF Types, At, Goto, Update, Keep, Done, After, Start
    <2> USE DEF Ops, Panel, Places, Chatting, Merging, Updating, Changes
    <2>1. CASE Open(t)
      BY <2>1 DEF Open
    <2>2. CASE Create(t)
      BY <2>2 DEF Create
    <2>3. CASE Save(t)
      BY <2>3 DEF Save
    <2>4. CASE Delete(t)
      BY <2>4 DEF Delete
    <2>5. CASE Login(t)
      BY <2>5 DEF Login
    <2>6. CASE Collect(t)
      BY <2>6 DEF Collect
    <2>7. CASE Chat(t)
      BY <2>7 DEF Chat
    <2>8. CASE Pop(t)
      BY <2>8 DEF Pop
    <2>9. CASE Kill(t)
      BY <2>9 DEF Kill, Ends
    <2>10. CASE LoadMeta(t)
      BY <2>10 DEF LoadMeta
    <2>11. CASE WriteMeta(t)
      BY <2>11 DEF WriteMeta
    <2>12. CASE Spawn(t)
      BY <2>12 DEF Spawn, Free, Procs
    <2>13. CASE SpawnFails(t)
      BY <2>13 DEF SpawnFails
    <2>14. CASE Bind(t)
      BY <2>14 DEF Bind
    <2>15. CASE Publish(t)
      BY <2>15 DEF Publish
    <2>16. CASE Look(t)
      BY <2>16 DEF Look, Found
    <2>17. CASE ReadSession(t)
      BY <2>17 DEF ReadSession
    <2>18. CASE WriteSession(t)
      BY <2>18 DEF WriteSession
    <2>19. CASE Browse(t)
      BY <2>19 DEF Browse
    <2>20. CASE CollectTimeout(t)
      BY <2>20 DEF CollectTimeout
    <2>21. CASE Remove(t)
      BY <2>21 DEF Remove
    <2>22. CASE Acquire(t)
      BY <2>22 DEF Acquire
    <2>23. CASE Busy(t)
      BY <2>23 DEF Busy
    <2>24. CASE Enter(t)
      BY <2>24 DEF Enter
    <2>25. CASE Connect(t)
      BY <2>25 DEF Connect, Procs
    <2>26. CASE Navigate(t)
      <3>1. \/ pc' = [pc EXCEPT ![t] = "evaluate"] /\ proc[t] \in Procs
            \/ pc' = [pc EXCEPT ![t] = "release"]
        BY <2>26 DEF Navigate
      <3> QED
        BY <2>26, <3>1 DEF Navigate, Procs
    <2>27. CASE Evaluate(t)
      BY <2>27 DEF Evaluate
    <2>28. CASE Release(t)
      BY <2>28 DEF Release
    <2>29. CASE NoProgram(t)
      BY <2>29 DEF NoProgram
    <2> QED
      BY <2>1, <2>2, <2>3, <2>4, <2>5, <2>6, <2>7, <2>8, <2>9, <2>10, <2>11, <2>12, <2>13,
         <2>14, <2>15, <2>16, <2>17, <2>18, <2>19, <2>20, <2>21, <2>22, <2>23, <2>24, <2>25,
         <2>26, <2>27, <2>28, <2>29 DEF Request, Step
  <1> QED
    BY <1>1, <1>2

-----------------------------------------------------------------------------
(* Who is in the profile, and in its window *)

LEMMA LockedStep ==
    ASSUME Types, \A u \in Threads : At(u), Locked,
           NEW t \in Threads, Request(t) \/ Step(t)
    PROVE  Locked'
  <1>0. /\ Inside(t)' /\ op'[t] = "chat" => chatLock' = t
        /\ \A u \in Threads \ {t} : chatLock = u => chatLock' = u
    <2> At(t) /\ (Inside(t) /\ op[t] = "chat" => chatLock = t)
      BY DEF Locked
    <2> USE ProfileAssumption DEF Types, At, Goto, Update, Keep, Done, After, Start, Inside
    <2> USE DEF Ops, Panel, Places, Chatting, Merging, Updating, Changes
    <2>1. CASE Open(t)
      BY <2>1 DEF Open
    <2>2. CASE Create(t)
      BY <2>2 DEF Create
    <2>3. CASE Save(t)
      BY <2>3 DEF Save
    <2>4. CASE Delete(t)
      BY <2>4 DEF Delete
    <2>5. CASE Login(t)
      BY <2>5 DEF Login
    <2>6. CASE Collect(t)
      BY <2>6 DEF Collect
    <2>7. CASE Chat(t)
      BY <2>7 DEF Chat
    <2>8. CASE Pop(t)
      BY <2>8 DEF Pop
    <2>9. CASE Kill(t)
      BY <2>9 DEF Kill, Ends
    <2>10. CASE LoadMeta(t)
      BY <2>10 DEF LoadMeta
    <2>11. CASE WriteMeta(t)
      BY <2>11 DEF WriteMeta
    <2>12. CASE Spawn(t)
      BY <2>12 DEF Spawn
    <2>13. CASE SpawnFails(t)
      BY <2>13 DEF SpawnFails
    <2>14. CASE Bind(t)
      BY <2>14 DEF Bind
    <2>15. CASE Publish(t)
      BY <2>15 DEF Publish
    <2>16. CASE Look(t)
      BY <2>16 DEF Look, Found
    <2>17. CASE ReadSession(t)
      BY <2>17 DEF ReadSession
    <2>18. CASE WriteSession(t)
      BY <2>18 DEF WriteSession
    <2>19. CASE Browse(t)
      BY <2>19 DEF Browse
    <2>20. CASE CollectTimeout(t)
      BY <2>20 DEF CollectTimeout
    <2>21. CASE Remove(t)
      BY <2>21 DEF Remove
    <2>22. CASE Acquire(t)
      BY <2>22 DEF Acquire
    <2>23. CASE Busy(t)
      BY <2>23 DEF Busy
    <2>24. CASE Enter(t)
      BY <2>24 DEF Enter
    <2>25. CASE Connect(t)
      BY <2>25 DEF Connect
    <2>26. CASE Navigate(t)
      BY <2>26 DEF Navigate
    <2>27. CASE Evaluate(t)
      BY <2>27 DEF Evaluate
    <2>28. CASE Release(t)
      BY <2>28 DEF Release
    <2>29. CASE NoProgram(t)
      BY <2>29 DEF NoProgram
    <2> QED
      BY <2>1, <2>2, <2>3, <2>4, <2>5, <2>6, <2>7, <2>8, <2>9, <2>10, <2>11, <2>12, <2>13,
         <2>14, <2>15, <2>16, <2>17, <2>18, <2>19, <2>20, <2>21, <2>22, <2>23, <2>24, <2>25,
         <2>26, <2>27, <2>28, <2>29 DEF Request, Step
  <1> QED
    BY <1>0, OthersStay DEF Locked, Alone, Inside

LEMMA ApartStep ==
    ASSUME Types, \A u \in Threads : At(u), Locked, ~overlapped => Apart,
           NEW t \in Threads, Request(t) \/ Step(t), ~overlapped'
    PROVE  /\ ~overlapped /\ Apart'
           /\ \A u \in Threads \ {t} : Inside(t) \/ Inside(t)' => ~Inside(u) /\ ~Inside(u)'
  <1>1. /\ ~overlapped
        /\ \/ Inside(t) \/ ~Inside(t)'
           \/ \A u \in Threads \ {t} : ~Inside(u)
    <2> At(t)
      OBVIOUS
    <2> USE ProfileAssumption DEF Types, At, Goto, Update, Keep, Done, After, Start, Inside
    <2> USE DEF Entering, Ops, Panel, Places, Chatting, Merging, Updating, Changes
    <2>1. CASE Open(t)
      BY <2>1 DEF Open
    <2>2. CASE Create(t)
      BY <2>2 DEF Create
    <2>3. CASE Save(t)
      BY <2>3 DEF Save
    <2>4. CASE Delete(t)
      BY <2>4 DEF Delete
    <2>5. CASE Login(t)
      BY <2>5 DEF Login
    <2>6. CASE Collect(t)
      BY <2>6 DEF Collect
    <2>7. CASE Chat(t)
      BY <2>7 DEF Chat
    <2>8. CASE Pop(t)
      BY <2>8 DEF Pop
    <2>9. CASE Kill(t)
      BY <2>9 DEF Kill, Ends
    <2>10. CASE LoadMeta(t)
      BY <2>10 DEF LoadMeta
    <2>11. CASE WriteMeta(t)
      BY <2>11 DEF WriteMeta
    <2>12. CASE Spawn(t)
      BY <2>12 DEF Spawn
    <2>13. CASE SpawnFails(t)
      BY <2>13 DEF SpawnFails
    <2>14. CASE Bind(t)
      BY <2>14 DEF Bind
    <2>15. CASE Publish(t)
      BY <2>15 DEF Publish
    <2>16. CASE Look(t)
      BY <2>16 DEF Look, Found
    <2>17. CASE ReadSession(t)
      BY <2>17 DEF ReadSession
    <2>18. CASE WriteSession(t)
      BY <2>18 DEF WriteSession
    <2>19. CASE Browse(t)
      BY <2>19 DEF Browse
    <2>20. CASE CollectTimeout(t)
      BY <2>20 DEF CollectTimeout
    <2>21. CASE Remove(t)
      BY <2>21 DEF Remove
    <2>22. CASE Acquire(t)
      BY <2>22 DEF Acquire, Locked
    <2>23. CASE Busy(t)
      BY <2>23 DEF Busy
    <2>24. CASE Enter(t)
      BY <2>24 DEF Enter
    <2>25. CASE Connect(t)
      BY <2>25 DEF Connect
    <2>26. CASE Navigate(t)
      BY <2>26 DEF Navigate
    <2>27. CASE Evaluate(t)
      BY <2>27 DEF Evaluate
    <2>28. CASE Release(t)
      BY <2>28 DEF Release
    <2>29. CASE NoProgram(t)
      BY <2>29 DEF NoProgram
    <2> QED
      BY <2>1, <2>2, <2>3, <2>4, <2>5, <2>6, <2>7, <2>8, <2>9, <2>10, <2>11, <2>12, <2>13,
         <2>14, <2>15, <2>16, <2>17, <2>18, <2>19, <2>20, <2>21, <2>22, <2>23, <2>24, <2>25,
         <2>26, <2>27, <2>28, <2>29 DEF Request, Step
  <1>2. \A u \in Threads \ {t} : Inside(u)' <=> Inside(u)
    BY OthersStay DEF Alone, Inside
  <1> QED
    BY <1>1, <1>2 DEF Apart

LEMMA PageStep ==
    ASSUME Types, \A u \in Threads : At(u), Locked, Own,
           NEW t \in Threads, Request(t) \/ Step(t)
    PROVE  Own'
  <1> USE DEF Goto, Update, Keep, Done, After
  <1>1. ASSUME NEW u \in Threads, pc[u] = "evaluate"
        PROVE  /\ proc[u] \in Procs /\ page[proc[u]] = u
               /\ op[u] = "chat" /\ chatLock = u
    BY <1>1 DEF Types, At, Own, Locked, Inside, Chatting, Procs
  <1>2. CASE UNCHANGED page /\ ~(Navigate(t) /\ proc[t] \in running)
    <2>1. pc'[t] # "evaluate"
      <3> USE DEF Types
      <3>1. CASE Request(t)
        BY <3>1 DEF Request, Start, Open, Create, Save, Delete, Login, Collect, Chat
      <3>2. CASE Pop(t) \/ NoProgram(t) \/ Kill(t) \/ LoadMeta(t)
        BY <3>2 DEF Pop, NoProgram, Kill, Ends, LoadMeta
      <3>3. CASE WriteMeta(t)
        BY <3>3 DEF WriteMeta
      <3>4. CASE Spawn(t) \/ SpawnFails(t) \/ Bind(t) \/ Publish(t)
        BY <3>4 DEF Spawn, SpawnFails, Bind, Publish
      <3>5. CASE Look(t) \/ ReadSession(t)
        BY <3>5 DEF Look, Found, ReadSession
      <3>6. CASE WriteSession(t)
        BY <3>6 DEF WriteSession
      <3>7. CASE Browse(t) \/ CollectTimeout(t) \/ Remove(t)
        BY <3>7 DEF Browse, CollectTimeout, Remove
      <3>8. CASE Acquire(t) \/ Busy(t) \/ Enter(t) \/ Connect(t) \/ Evaluate(t) \/ Release(t)
        BY <3>8 DEF Acquire, Busy, Enter, Connect, Evaluate, Release
      <3>9. CASE Navigate(t)
        BY <3>9, <1>2 DEF Navigate
      <3> QED
        BY <3>1, <3>2, <3>3, <3>4, <3>5, <3>6, <3>7, <3>8, <3>9 DEF Step
    <2> QED
      BY <1>1, <1>2, <2>1, OthersStay DEF Own, Alone
  <1>3. CASE Spawn(t)
    <2>1. PICK p \in Free : page' = [page EXCEPT ![p] = None]
      BY <1>3 DEF Spawn
    <2>2. \A u \in Threads : proc[u] # p
      BY <2>1 DEF Free
    <2>3. pc'[t] = "bind"
      BY <1>3 DEF Spawn, Types
    <2> QED
      BY <1>1, <2>1, <2>2, <2>3, OthersStay DEF Own, Alone, Types
  <1>4. CASE Navigate(t) /\ proc[t] \in running
    <2>1. page' = [page EXCEPT ![proc[t]] = t] /\ proc' = proc /\ proc[t] \in Procs
      BY <1>4 DEF Navigate, Types
    <2>2. chatLock = t
      BY <1>4 DEF Navigate, At, Locked, Inside, Chatting
    <2>3. \A u \in Threads \ {t} : pc[u] # "evaluate"
      BY <1>1, <2>2
    <2> QED
      BY <2>1, <2>3, OthersStay DEF Own, Alone, Types
  <1>5. CASE Release(t)
    <2>1. page' = [p \in Procs |-> IF page[p] = t THEN None ELSE page[p]]
      BY <1>5 DEF Release
    <2>2. pc'[t] = "off"
      BY <1>5 DEF Release, Types
    <2> QED
      BY <1>1, <2>1, <2>2, OthersStay DEF Own, Alone
  <1>6. \/ UNCHANGED page
        \/ Spawn(t) \/ Release(t)
        \/ Navigate(t) /\ proc[t] \in running
    <2>1. CASE Request(t)
      BY <2>1 DEF Request, Start, Open, Create, Save, Delete, Login, Collect, Chat
    <2>2. CASE WriteMeta(t) \/ WriteSession(t) \/ Remove(t) \/ Look(t) \/ Enter(t)
      BY <2>2 DEF WriteMeta, WriteSession, Remove, Look, Found, Enter
    <2>3. CASE \/ Pop(t) \/ NoProgram(t) \/ Kill(t) \/ LoadMeta(t) \/ SpawnFails(t)
               \/ Bind(t) \/ Publish(t) \/ ReadSession(t) \/ Browse(t) \/ CollectTimeout(t)
      BY <2>3 DEF Pop, NoProgram, Kill, Ends, LoadMeta, SpawnFails, Bind, Publish, ReadSession,
         Browse, CollectTimeout
    <2>4. CASE Acquire(t) \/ Busy(t) \/ Connect(t) \/ Navigate(t) \/ Evaluate(t)
      BY <2>4 DEF Acquire, Busy, Connect, Navigate, Evaluate
    <2> QED
      BY <2>1, <2>2, <2>3, <2>4 DEF Step
  <1> QED
    BY <1>2, <1>3, <1>4, <1>5, <1>6

LEMMA NobodyDies ==
    ASSUME NEW t \in Threads, Request(t) \/ Step(t)
    PROVE  UNCHANGED <<torn, crashes>>
  <1> USE DEF Goto, Update, Keep, Done, After
  <1>1. CASE Request(t)
    BY <1>1 DEF Request, Start, Open, Create, Save, Delete, Login, Collect, Chat
  <1>2. CASE Pop(t) \/ NoProgram(t) \/ Kill(t) \/ LoadMeta(t)
    BY <1>2 DEF Pop, NoProgram, Kill, Ends, LoadMeta
  <1>3. CASE WriteMeta(t)
    BY <1>3 DEF WriteMeta
  <1>4. CASE Spawn(t) \/ SpawnFails(t) \/ Bind(t) \/ Publish(t)
    BY <1>4 DEF Spawn, SpawnFails, Bind, Publish
  <1>5. CASE Look(t) \/ ReadSession(t)
    BY <1>5 DEF Look, Found, ReadSession
  <1>6. CASE WriteSession(t)
    BY <1>6 DEF WriteSession
  <1>7. CASE Browse(t) \/ CollectTimeout(t) \/ Remove(t)
    BY <1>7 DEF Browse, CollectTimeout, Remove
  <1>8. CASE Acquire(t) \/ Busy(t) \/ Enter(t)
    BY <1>8 DEF Acquire, Busy, Enter
  <1>9. CASE Connect(t) \/ Navigate(t) \/ Evaluate(t) \/ Release(t)
    BY <1>9 DEF Connect, Navigate, Evaluate, Release
  <1> QED
    BY <1>1, <1>2, <1>3, <1>4, <1>5, <1>6, <1>7, <1>8, <1>9 DEF Step

LEMMA OnlyWaiting ==
    ASSUME Types, NEW t \in Threads, At(t), Request(t) \/ Step(t), ~Inside(t), ~Inside(t)'
    PROVE  Chat(t) \/ Busy(t)
  <1> USE DEF Types, At, Goto, Update, Keep, Done, After, Start, Inside
  <1>1. CASE Open(t)
    BY <1>1 DEF Open
  <1>2. CASE Create(t)
    BY <1>2 DEF Create
  <1>3. CASE Save(t)
    BY <1>3 DEF Save
  <1>4. CASE Delete(t)
    BY <1>4 DEF Delete
  <1>5. CASE Login(t)
    BY <1>5 DEF Login
  <1>6. CASE Collect(t)
    BY <1>6 DEF Collect
  <1>7. CASE Pop(t)
    BY <1>7 DEF Pop
  <1>8. CASE Kill(t)
    BY <1>8 DEF Kill, Ends
  <1>9. CASE LoadMeta(t)
    BY <1>9 DEF LoadMeta
  <1>10. CASE WriteMeta(t)
    BY <1>10 DEF WriteMeta
  <1>11. CASE Spawn(t)
    BY <1>11 DEF Spawn
  <1>12. CASE SpawnFails(t)
    BY <1>12 DEF SpawnFails
  <1>13. CASE Bind(t)
    BY <1>13 DEF Bind
  <1>14. CASE Publish(t)
    BY <1>14 DEF Publish
  <1>15. CASE Look(t)
    BY <1>15 DEF Look, Found
  <1>16. CASE ReadSession(t)
    BY <1>16 DEF ReadSession
  <1>17. CASE WriteSession(t)
    BY <1>17 DEF WriteSession
  <1>18. CASE Browse(t)
    BY <1>18 DEF Browse
  <1>19. CASE CollectTimeout(t)
    BY <1>19 DEF CollectTimeout
  <1>20. CASE Remove(t)
    BY <1>20 DEF Remove
  <1>21. CASE Acquire(t)
    BY <1>21 DEF Acquire
  <1>22. CASE Enter(t)
    BY <1>22 DEF Enter
  <1>23. CASE Connect(t)
    BY <1>23 DEF Connect
  <1>24. CASE Navigate(t)
    BY <1>24 DEF Navigate
  <1>25. CASE Evaluate(t)
    BY <1>25 DEF Evaluate
  <1>26. CASE Release(t)
    BY <1>26 DEF Release
  <1>27. CASE NoProgram(t)
    BY <1>27 DEF NoProgram
  <1> QED
    BY <1>1, <1>2, <1>3, <1>4, <1>5, <1>6, <1>7, <1>8, <1>9, <1>10, <1>11, <1>12, <1>13,
       <1>14, <1>15, <1>16, <1>17, <1>18, <1>19, <1>20, <1>21, <1>22, <1>23, <1>24, <1>25,
       <1>26, <1>27 DEF Request, Step

\* A thread lets go of a window that has ended, that goes on although it was told
\* to end, or that it has entered in _LIVE; what was there is taken note of.
LEMMA KnownStep ==
    ASSUME Types, \A u \in Threads : At(u), Known,
           NEW t \in Threads, Request(t) \/ Step(t)
    PROVE  Known'
  <1>1. ASSUME NEW p \in Procs,
               p \in running => p = live \/ Holds(t, p) \/ p \in strays \/ p \in displaced
        PROVE  p \in running' => p = live' \/ Holds(t, p)' \/ p \in strays' \/ p \in displaced'
    <2> At(t)
      OBVIOUS
    <2> USE <1>1 DEF Types, At, Goto, Update, Keep, Done, After, Start, Updating, Holds, Procs
    <2>1. CASE Open(t)
      BY <2>1 DEF Open
    <2>2. CASE Create(t)
      BY <2>2 DEF Create
    <2>3. CASE Save(t)
      BY <2>3 DEF Save
    <2>4. CASE Delete(t)
      BY <2>4 DEF Delete
    <2>5. CASE Login(t)
      BY <2>5 DEF Login
    <2>6. CASE Collect(t)
      BY <2>6 DEF Collect
    <2>7. CASE Chat(t)
      BY <2>7 DEF Chat
    <2>8. CASE Pop(t)
      BY <2>8 DEF Pop
    <2>9. CASE Kill(t)
      BY <2>9 DEF Kill, Ends
    <2>10. CASE LoadMeta(t)
      BY <2>10 DEF LoadMeta
    <2>11. CASE WriteMeta(t)
      BY <2>11 DEF WriteMeta
    <2>12. CASE Spawn(t)
      BY <2>12 DEF Spawn
    <2>13. CASE SpawnFails(t)
      BY <2>13 DEF SpawnFails
    <2>14. CASE Bind(t)
      BY <2>14 DEF Bind
    <2>15. CASE Publish(t)
      BY <2>15 DEF Publish
    <2>16. CASE Look(t)
      BY <2>16 DEF Look, Found, IsOpen
    <2>17. CASE ReadSession(t)
      BY <2>17 DEF ReadSession
    <2>18. CASE WriteSession(t)
      BY <2>18 DEF WriteSession
    <2>19. CASE Browse(t)
      BY <2>19 DEF Browse
    <2>20. CASE CollectTimeout(t)
      BY <2>20 DEF CollectTimeout
    <2>21. CASE Remove(t)
      BY <2>21 DEF Remove
    <2>22. CASE Acquire(t)
      BY <2>22 DEF Acquire
    <2>23. CASE Busy(t)
      BY <2>23 DEF Busy
    <2>24. CASE Enter(t)
      BY <2>24 DEF Enter, IsOpen
    <2>25. CASE Connect(t)
      BY <2>25 DEF Connect
    <2>26. CASE Navigate(t)
      BY <2>26 DEF Navigate
    <2>27. CASE Evaluate(t)
      BY <2>27 DEF Evaluate
    <2>28. CASE Release(t)
      BY <2>28 DEF Release
    <2>29. CASE NoProgram(t)
      BY <2>29 DEF NoProgram
    <2> QED
      BY <2>1, <2>2, <2>3, <2>4, <2>5, <2>6, <2>7, <2>8, <2>9, <2>10, <2>11, <2>12, <2>13,
         <2>14, <2>15, <2>16, <2>17, <2>18, <2>19, <2>20, <2>21, <2>22, <2>23, <2>24, <2>25,
         <2>26, <2>27, <2>28, <2>29 DEF Request, Step
  <1>2. ASSUME NEW p \in running', p \notin running
        PROVE  Holds(t, p)'
    <2>1. Spawn(t)
      <3> USE <1>2 DEF Goto, Update, Keep, Done, After, Start
      <3>1. CASE Request(t)
        BY <3>1 DEF Request, Open, Create, Save, Delete, Login, Collect, Chat
      <3>2. CASE Kill(t)
        BY <3>2 DEF Kill, Ends
      <3>3. CASE Pop(t) \/ NoProgram(t) \/ LoadMeta(t) \/ SpawnFails(t) \/ Bind(t) \/ Publish(t)
        BY <3>3 DEF Pop, NoProgram, LoadMeta, SpawnFails, Bind, Publish
      <3>4. CASE WriteMeta(t) \/ WriteSession(t) \/ Look(t) \/ ReadSession(t) \/ Remove(t)
        BY <3>4 DEF WriteMeta, WriteSession, Look, ReadSession, Remove
      <3>5. CASE Browse(t) \/ CollectTimeout(t) \/ Acquire(t) \/ Busy(t) \/ Enter(t)
        BY <3>5 DEF Browse, CollectTimeout, Acquire, Busy, Enter
      <3>6. CASE Connect(t) \/ Navigate(t) \/ Evaluate(t) \/ Release(t)
        BY <3>6 DEF Connect, Navigate, Evaluate, Release
      <3> QED
        BY <3>1, <3>2, <3>3, <3>4, <3>5, <3>6 DEF Step
    <2> QED
      BY <1>2, <2>1 DEF Spawn, Goto, Holds, Types
  <1>3. \A u \in Threads \ {t}, p \in Procs : Holds(u, p)' <=> Holds(u, p)
    BY OthersStay DEF Alone, Holds
  <1>4. ASSUME NEW p \in running'
        PROVE  \/ p = live' \/ \E u \in Threads : Holds(u, p)'
               \/ p \in strays' \/ p \in displaced'
    <2>0. p \in Procs
      BY TypesStep DEF Types
    <2>1. CASE p \notin running
      BY <1>2, <1>4, <2>1
    <2>2. CASE \E u \in Threads \ {t} : Holds(u, p)
      BY <1>3, <2>0, <2>2
    <2>3. CASE p \in running /\ ~ \E u \in Threads \ {t} : Holds(u, p)
      <3>1. p = live \/ Holds(t, p) \/ p \in strays \/ p \in displaced
        BY <2>3 DEF Known
      <3> QED
        BY <1>1, <1>4, <2>0, <3>1
    <2> QED
      BY <2>1, <2>2, <2>3
  <1> QED
    BY <1>4 DEF Known

\* Requests that do not overlap find no window where they enter theirs.
LEMMA ClosedStep ==
    ASSUME Types, \A u \in Threads : At(u), Locked,
           ~overlapped => Apart /\ Closed /\ displaced = {},
           NEW t \in Threads, Request(t) \/ Step(t), ~overlapped'
    PROVE  Closed' /\ displaced' = {}
  <1>1. /\ ~overlapped /\ Closed /\ displaced = {}
        /\ \A u \in Threads \ {t} : Inside(t) \/ Inside(t)' => ~Inside(u) /\ ~Inside(u)'
    BY ApartStep
  <1>2. CASE ~Inside(t) /\ ~Inside(t)'
    <2>1. Chat(t) \/ Busy(t)
      BY <1>2, OnlyWaiting
    <2>2. UNCHANGED windows /\ pc[t] \in {"off", "wait"} /\ pc'[t] \in {"off", "wait"}
      BY <2>1, <1>2 DEF Chat, Start, Busy, Inside
    <2>3. Opening(t)' => live' = 0
      BY <2>2 DEF Opening, Updating
    <2> QED
      BY <1>1, <2>2, <2>3, OthersStay DEF Closed, Opening, Alone
  <1>3. CASE Inside(t) \/ Inside(t)'
    <2>1. \A u \in Threads \ {t} : pc'[u] \in {"off", "wait"}
      BY <1>1, <1>3 DEF Inside
    <2>2. (Opening(t)' => live' = 0) /\ displaced' = {}
      <3> At(t) /\ (Opening(t) => live = 0) /\ displaced = {}
        BY <1>1 DEF Closed
      <3> USE DEF Types, At, Goto, Update, Keep, Done, After, Start, Opening, Updating, Procs
      <3>1. CASE Open(t)
        BY <3>1 DEF Open
      <3>2. CASE Create(t)
        BY <3>2 DEF Create
      <3>3. CASE Save(t)
        BY <3>3 DEF Save
      <3>4. CASE Delete(t)
        BY <3>4 DEF Delete
      <3>5. CASE Login(t)
        BY <3>5 DEF Login
      <3>6. CASE Collect(t)
        BY <3>6 DEF Collect
      <3>7. CASE Chat(t)
        BY <3>7 DEF Chat
      <3>8. CASE Pop(t)
        BY <3>8 DEF Pop
      <3>9. CASE Kill(t)
        BY <3>9 DEF Kill, Ends
      <3>10. CASE LoadMeta(t)
        BY <3>10 DEF LoadMeta
      <3>11. CASE WriteMeta(t)
        BY <3>11 DEF WriteMeta
      <3>12. CASE Spawn(t)
        BY <3>12 DEF Spawn
      <3>13. CASE SpawnFails(t)
        BY <3>13 DEF SpawnFails
      <3>14. CASE Bind(t)
        BY <3>14 DEF Bind
      <3>15. CASE Publish(t)
        BY <3>15 DEF Publish
      <3>16. CASE Look(t)
        BY <3>16 DEF Look, Found, IsOpen
      <3>17. CASE ReadSession(t)
        BY <3>17 DEF ReadSession
      <3>18. CASE WriteSession(t)
        BY <3>18 DEF WriteSession
      <3>19. CASE Browse(t)
        BY <3>19 DEF Browse
      <3>20. CASE CollectTimeout(t)
        BY <3>20 DEF CollectTimeout
      <3>21. CASE Remove(t)
        BY <3>21 DEF Remove
      <3>22. CASE Acquire(t)
        BY <3>22 DEF Acquire
      <3>23. CASE Busy(t)
        BY <3>23 DEF Busy
      <3>24. CASE Enter(t)
        BY <3>24 DEF Enter, IsOpen
      <3>25. CASE Connect(t)
        BY <3>25 DEF Connect
      <3>26. CASE Navigate(t)
        BY <3>26 DEF Navigate
      <3>27. CASE Evaluate(t)
        BY <3>27 DEF Evaluate
      <3>28. CASE Release(t)
        BY <3>28 DEF Release
      <3>29. CASE NoProgram(t)
        BY <3>29 DEF NoProgram
      <3> QED
        BY <3>1, <3>2, <3>3, <3>4, <3>5, <3>6, <3>7, <3>8, <3>9, <3>10, <3>11, <3>12, <3>13,
           <3>14, <3>15, <3>16, <3>17, <3>18, <3>19, <3>20, <3>21, <3>22, <3>23, <3>24, <3>25,
           <3>26, <3>27, <3>28, <3>29 DEF Request, Step
    <2> QED
      BY <2>1, <2>2 DEF Closed, Opening, Updating
  <1> QED
    BY <1>2, <1>3

-----------------------------------------------------------------------------
(* The two files *)

LEMMA FilesStep ==
    ASSUME Types, \A u \in Threads : At(u), Locked, ~overlapped => Apart /\ Closed,
           ~overlapped /\ ~torn => Kept /\ \A u \in Threads : Fresh(u),
           NEW t \in Threads, Request(t) \/ Step(t), ~overlapped', ~torn'
    PROVE  Kept' /\ \A u \in Threads : Fresh(u)'
  <1>1. /\ ~overlapped
        /\ \A u \in Threads \ {t} : Inside(t) \/ Inside(t)' => ~Inside(u) /\ ~Inside(u)'
    BY ApartStep
  <1>2. Kept /\ \A u \in Threads : Fresh(u)
    BY <1>1, NobodyDies
  <1>3. CASE ~Inside(t) /\ ~Inside(t)'
    <2>1. UNCHANGED files /\ pc'[t] \in {"off", "wait"}
      BY <1>3, OnlyWaiting DEF Chat, Start, Busy, Inside
    <2>2. Fresh(t)'
      BY <2>1 DEF Fresh, Updating
    <2> QED
      BY <1>2, <2>1, <2>2, OthersStay DEF Kept, Fresh, Alone
  <1>4. CASE Inside(t) \/ Inside(t)'
    <2>1. \A u \in Threads \ {t} : pc[u] \in {"off", "wait"} /\ pc'[u] \in {"off", "wait"}
      BY <1>1, <1>4 DEF Inside
    <2>2. \A u \in Threads \ {t} : Fresh(u)'
      BY <2>1 DEF Fresh, Updating
    <2>3. Kept' /\ Fresh(t)'
      <3> At(t) /\ Kept /\ Fresh(t)
        BY <1>2
      <3> USE ProfileAssumption
      <3> USE DEF Types, At, Goto, Update, Keep, Done, After, Start, Kept, Fresh
      <3> USE DEF Updating, Merging, Chatting, Ops, Panel
      <3>1. CASE Open(t)
        BY <3>1 DEF Open
      <3>2. CASE Create(t)
        BY <3>2 DEF Create
      <3>3. CASE Save(t)
        BY <3>3 DEF Save
      <3>4. CASE Delete(t)
        BY <3>4 DEF Delete
      <3>5. CASE Login(t)
        BY <3>5 DEF Login
      <3>6. CASE Collect(t)
        BY <3>6 DEF Collect
      <3>7. CASE Chat(t)
        BY <3>7 DEF Chat
      <3>8. CASE Pop(t)
        BY <3>8 DEF Pop
      <3>9. CASE Kill(t)
        BY <3>9 DEF Kill, Ends
      <3>10. CASE LoadMeta(t)
        BY <3>10, <2>1 DEF LoadMeta
      <3>11. CASE WriteMeta(t)
        BY <3>11 DEF WriteMeta, Updated
      <3>12. CASE Spawn(t)
        BY <3>12 DEF Spawn
      <3>13. CASE SpawnFails(t)
        BY <3>13 DEF SpawnFails
      <3>14. CASE Bind(t)
        BY <3>14 DEF Bind
      <3>15. CASE Publish(t)
        BY <3>15 DEF Publish
      <3>16. CASE Look(t)
        BY <3>16 DEF Look, Found
      <3>17. CASE ReadSession(t)
        BY <3>17, <2>1 DEF ReadSession
      <3>18. CASE WriteSession(t)
        BY <3>18 DEF WriteSession
      <3>19. CASE Browse(t)
        BY <3>19 DEF Browse
      <3>20. CASE CollectTimeout(t)
        BY <3>20 DEF CollectTimeout
      <3>21. CASE Remove(t)
        BY <3>21 DEF Remove, NoMeta
      <3>22. CASE Acquire(t)
        BY <3>22 DEF Acquire
      <3>23. CASE Busy(t)
        BY <3>23 DEF Busy
      <3>24. CASE Enter(t)
        BY <3>24 DEF Enter
      <3>25. CASE Connect(t)
        BY <3>25 DEF Connect
      <3>26. CASE Navigate(t)
        BY <3>26 DEF Navigate
      <3>27. CASE Evaluate(t)
        BY <3>27 DEF Evaluate
      <3>28. CASE Release(t)
        BY <3>28 DEF Release
      <3>29. CASE NoProgram(t)
        BY <3>29 DEF NoProgram
      <3> QED
        BY <3>1, <3>2, <3>3, <3>4, <3>5, <3>6, <3>7, <3>8, <3>9, <3>10, <3>11, <3>12, <3>13,
           <3>14, <3>15, <3>16, <3>17, <3>18, <3>19, <3>20, <3>21, <3>22, <3>23, <3>24, <3>25,
           <3>26, <3>27, <3>28, <3>29 DEF Request, Step
    <2> QED
      BY <2>2, <2>3
  <1> QED
    BY <1>3, <1>4

-----------------------------------------------------------------------------
(* The invariant is inductive. *)

LEMMA ProfileInit == Init => ProfileInv
  <1> SUFFICES ASSUME Init PROVE ProfileInv
    OBVIOUS
  <1> USE ProfileAssumption DEF Init
  <1>1. Types
    <2>1. NoMeta \in Metas
      BY DEF NoMeta, Metas
    <2>2. /\ metaCopy \in [Threads -> Metas] /\ sessionCopy \in [Threads -> SUBSET Proofs]
          /\ op \in [Threads -> Ops \cup {None}] /\ pc \in [Threads -> Places]
          /\ proc \in [Threads -> 0 .. MaxProcs] /\ upd \in [Threads -> Changes \cup {None}]
          /\ got \in [Threads -> SUBSET Proofs]
      BY <2>1 DEF Places
    <2>3. page \in [Procs -> Threads \cup {None}] /\ live \in 0 .. MaxProcs /\ cdp \in 0 .. MaxProcs
      OBVIOUS
    <2> QED
      BY <2>1, <2>2, <2>3 DEF Types
  <1>2. \A t \in Threads : At(t)
    BY DEF At, Chatting, Merging, Updating
  <1>3. Locked /\ Own /\ Apart /\ Known /\ displaced = {}
    BY DEF Locked, Own, Apart, Inside, Known
  <1>4. Closed /\ Kept /\ \A t \in Threads : Fresh(t)
    BY DEF Closed, Opening, Kept, Fresh, Updating, NoMeta
  <1> QED
    BY <1>1, <1>2, <1>3, <1>4 DEF ProfileInv

\* The user in the window changes neither a file of the program nor a thread.
LEMMA UserStep ==
    ASSUME ProfileInv, UserCloses
    PROVE  ProfileInv'
  <1> USE DEF ProfileInv
  <1>1. UNCHANGED <<live, cdp, page, files, chatLock, local, history>>
    BY DEF UserCloses, Ends
  <1>2. PICK p \in running : /\ running' = running \ {p} /\ strays' = strays \ {p}
                             /\ displaced' = displaced \ {p}
    BY DEF UserCloses, Ends
  <1>3. Types'
    BY <1>1, <1>2 DEF Types
  <1>4. (\A t \in Threads : At(t))' /\ Locked' /\ Own'
    BY <1>1 DEF At, Locked, Own, Inside
  <1>5. (~overlapped => Apart /\ Closed /\ displaced = {})' /\ Known'
    BY <1>1, <1>2 DEF Apart, Inside, Closed, Opening, Known, Holds
  <1>6. (~overlapped /\ ~torn => Kept /\ \A t \in Threads : Fresh(t))'
    BY <1>1 DEF Kept, Fresh
  <1> QED
    BY <1>3, <1>4, <1>5, <1>6

\* After a death of the program no thread is anywhere.
LEMMA CrashStep ==
    ASSUME ProfileInv, Crash
    PROVE  ProfileInv'
  <1> USE ProfileAssumption DEF ProfileInv, Crash
  <1>1. Types'
    <2>1. NoMeta \in Metas /\ meta' \in Metas
      <3>1. NoMeta \in Metas /\ meta \in Metas
        BY DEF Types, Metas, NoMeta
      <3> QED
        BY <3>1
    <2>2. session' \subseteq Proofs
      BY DEF Types
    <2>3. page' \in [Procs -> Threads \cup {None}] /\ chatLock' \in Threads \cup {None}
      OBVIOUS
    <2>4. /\ op' \in [Threads -> Ops \cup {None}] /\ pc' \in [Threads -> Places]
          /\ proc' \in [Threads -> 0 .. MaxProcs] /\ upd' \in [Threads -> Changes \cup {None}]
          /\ got' \in [Threads -> SUBSET Proofs] /\ per' \in [Threads -> SUBSET Sites]
          /\ metaCopy' \in [Threads -> Metas] /\ sessionCopy' \in [Threads -> SUBSET Proofs]
      BY <2>1 DEF Places
    <2>5. live' \in 0 .. MaxProcs /\ strays' \subseteq Procs /\ torn' \in BOOLEAN
      BY DEF Types
    <2>6. UNCHANGED <<running, cdp, displaced, harvest, overlapped>>
      OBVIOUS
    <2> HIDE DEF Crash
    <2> QED
      BY <2>1, <2>2, <2>3, <2>4, <2>5, <2>6 DEF Types
  <1>2. \A t \in Threads : pc'[t] = "off" /\ op'[t] = None /\ got'[t] = {}
    OBVIOUS
  <1>3. (\A t \in Threads : At(t))'
    BY <1>2 DEF At, Chatting, Merging, Updating
  <1>4. Locked' /\ Own' /\ Apart'
    BY <1>2 DEF Locked, Own, Apart, Inside
  <1>5. Closed' /\ Known' /\ (~overlapped => displaced = {})'
    BY <1>2 DEF Closed, Opening, Updating, Known
  <1>6. (~overlapped /\ ~torn => Kept /\ \A t \in Threads : Fresh(t))'
    <2> SUFFICES ASSUME ~overlapped', ~torn'
                 PROVE  Kept' /\ \A t \in Threads : Fresh(t)'
      OBVIOUS
    <2>1. ~overlapped /\ ~torn /\ harvest' = harvest /\ session' = session
      OBVIOUS
    <2>2. Kept'
      BY <2>1 DEF Kept
    <2>3. \A t \in Threads : Fresh(t)'
      BY <1>2 DEF Fresh, Updating
    <2> QED
      BY <2>2, <2>3
  <1> HIDE DEF Crash
  <1> QED
    BY <1>1, <1>3, <1>4, <1>5, <1>6

LEMMA ProfileNext == ProfileInv /\ [Next]_vars => ProfileInv'
  <1> SUFFICES ASSUME ProfileInv, [Next]_vars PROVE ProfileInv'
    OBVIOUS
  <1>1. CASE UserCloses
    BY <1>1, UserStep
  <1>2. CASE Crash
    BY <1>2, CrashStep
  <1>3. ASSUME NEW t \in Threads, Request(t) \/ Step(t)
        PROVE  ProfileInv'
    <2> USE <1>3 DEF ProfileInv
    <2>1. Types' /\ (\A u \in Threads : At(u))' /\ Locked' /\ Own'
      BY TypesStep, AtStep, LockedStep, PageStep
    <2>2. Known' /\ (~overlapped' => Apart' /\ Closed' /\ displaced' = {})
      BY ApartStep, KnownStep, ClosedStep
    <2>3. ~overlapped' /\ ~torn' => Kept' /\ \A u \in Threads : Fresh(u)'
      BY FilesStep
    <2> QED
      BY <2>1, <2>2, <2>3
  <1>4. CASE UNCHANGED vars
    BY <1>4 DEF vars, ProfileInv, Types, At, Locked, Own, Apart, Inside, Closed, Opening, Known,
                Holds, Kept, Fresh
  <1> QED
    BY <1>1, <1>2, <1>3, <1>4 DEF Next

LEMMA ProfileInvHolds == Spec => []ProfileInv
  BY ProfileInit, ProfileNext, PTL DEF Spec

\* What the threads keep of a profile has its type, and a thread that waits for
\* a window or has just started one knows which (chromium_profile.py).
THEOREM TypeCorrect == Spec => []TypeOK
  <1>1. ProfileInv => TypeOK
    BY DEF ProfileInv, Types, At, TypeOK, Metas
  <1> QED
    BY <1>1, ProfileInvHolds, PTL

\* However many request threads and workers there are, and however they overlap, a
\* window leaves _LIVE only by ending, by a death of the program, by not ending
\* when it is told to, or, if requests overlapped, because another one took its
\* entry (close_live, open_profile, is_open).
THEOREM WindowsKnown == Spec => []EveryWindowKnown
  <1>1. ProfileInv => EveryWindowKnown
    BY DEF ProfileInv, Known, Holds, EveryWindowKnown
  <1> QED
    BY <1>1, ProfileInvHolds, PTL

\* The lock of the profile keeps the chats of one account apart, whatever
\* requests open, save or delete the profile meanwhile (send_on_url,
\* read_thread, reveal_via_browser).
THEOREM PageIsOwn == Spec => []OwnPage
  <1>1. ProfileInv => OwnPage
    BY DEF ProfileInv, Own, OwnPage
  <1> QED
    BY <1>1, ProfileInvHolds, PTL

\* What a save has found of a login is in session.json before account.json counts
\* the profile as logged in, and stays there (save_profile,
\* merge_into_session_file).
THEOREM LoginIsKept == Spec => []CountedLoginIsKept
  <1>1. ProfileInv => CountedLoginIsKept
    BY DEF ProfileInv, Kept, CountedLoginIsKept
  <1> QED
    BY <1>1, ProfileInvHolds, PTL

-----------------------------------------------------------------------------
(* The Chromium the profiles run: its download shares nothing with them.   *)

USE DEF Install!fileVars, Install!workVars

Fetching == {"probe", "name", "connect", "read", "placed", "extract", "register"}
Streaming == {"name", "connect", "read"}

\* Downloads that never overlapped are alone at work.
OneDownload == together \/ \A v, w \in Install!Busy : v = w

\* The marker is there only with all the files: an installer that unpacks found
\* none, and registers what it has unpacked completely.
Unpacking(w) ==
    /\ at[w] \in Fetching => ~marker
    /\ at[w] = "extract" => folder \cup left[w] = Install!Pieces
    /\ at[w] = "register" => Install!Whole
Marked == together \/ ((marker => Install!Whole) /\ \A w \in Installers : Unpacking(w))

\* A source is chosen before it is asked, and the .part file is that source's:
\* its name is in .part.url, but for the moment in which that is rewritten.
Asked(w) == at[w] \in Streaming \cup {"probe"} => src[w] # 0
Continued(w) ==
    /\ at[w] \in Streaming => counted[w] = part.n /\ (part.n > 0 => part.from = src[w])
    /\ at[w] \in {"connect", "read"} => named = src[w]
Named ==
    \/ together \/ lost
    \/ /\ part.from # Mixed
       /\ (\A w \in Installers : at[w] # "name") => (part.n > 0 => named = part.from)
       /\ \A w \in Installers : Continued(w)

LEMMA SourcesOrdered ==
    ASSUME Install!InstallAssumption
    PROVE  /\ Install!First \in Sources
           /\ \A k \in Sources \cup {0} :
                 LET later == {s \in Sources : s > k}
                 IN  later # {} => (CHOOSE s \in later : \A t \in later : s <= t) \in later
  <1>1. ASSUME NEW S \in SUBSET Nat, S # {}
        PROVE  (CHOOSE s \in S : \A t \in S : s <= t) \in S
    <2>1. \E s \in S : \A t \in S : ~(<<t, s>> \in OpToRel(<, Nat))
      BY <1>1, NatLessThanWellFounded, WFMin, Zenon
    <2>2. \A t \in S, s \in S : t < s => <<t, s>> \in OpToRel(<, Nat)
      BY DEF OpToRel
    <2>3. \E s \in S : \A t \in S : s <= t
      <3>1. PICK s \in S : \A t \in S : ~(<<t, s>> \in OpToRel(<, Nat))
        BY <2>1
      <3>2. \A t \in S : ~(t < s)
        BY <2>2, <3>1
      <3> QED
        BY <1>1, <3>2
    <2> QED
      BY <2>3, Zenon
  <1>2. Sources \subseteq Nat /\ Sources # {}
    BY DEF Install!InstallAssumption
  <1>3. Install!First \in Sources
    BY <1>1, <1>2 DEF Install!First
  <1>4. ASSUME NEW k \in Sources \cup {0}
        PROVE  LET later == {s \in Sources : s > k}
               IN  later # {} => (CHOOSE s \in later : \A t \in later : s <= t) \in later
    <2> DEFINE later == {s \in Sources : s > k}
    <2>1. later \in SUBSET Nat
      BY <1>2
    <2> HIDE DEF later
    <2>2. later # {} => (CHOOSE s \in later : \A t \in later : s <= t) \in later
      BY <2>1, <1>1
    <2> QED
      BY <2>2 DEF later
  <1> QED
    BY <1>3, <1>4

\* What NextSource does to its installer.
LEMMA SourceMoves ==
    ASSUME Install!InstallAssumption, Install!TypeOK, NEW w \in Installers, Install!NextSource(w)
    PROVE  /\ lock = None /\ at[w] # "off"
           /\ counted' = [counted EXCEPT ![w] = 0] /\ tries' = [tries EXCEPT ![w] = 0]
           /\ left' = [left EXCEPT ![w] = {}]
           /\ UNCHANGED <<lock, downloading, together, lost, crashes>>
           /\ \/ at' = [at EXCEPT ![w] = "end"] /\ UNCHANGED src
              \/ /\ at' = [at EXCEPT ![w] = "probe"]
                 /\ \E s \in Sources : s > src[w] /\ src' = [src EXCEPT ![w] = s]
  <1> DEFINE later == {s \in Sources : s > src[w]}
             next == CHOOSE s \in later : \A t \in later : s <= t
  <1>1. src[w] \in Sources \cup {0}
    BY DEF Install!TypeOK
  <1>2. later # {} => next \in Sources /\ next > src[w]
    BY <1>1, SourcesOrdered
  <1>3. \/ later = {} /\ Install!Move(w, "end") /\ UNCHANGED src
        \/ later # {} /\ Install!Move(w, "probe") /\ src' = [src EXCEPT ![w] = next]
    BY DEF Install!NextSource
  <1> HIDE DEF next, later
  <1> QED
    BY <1>2, <1>3 DEF Install!NextSource, Install!Move

\* The invariant
InstallInv == Install!TypeOK /\ (\A w \in Installers : Asked(w)) /\ OneDownload /\ Marked /\ Named

LEMMA InstallInit ==
    ASSUME Install!InstallAssumption, Install!Init
    PROVE  InstallInv
  <1>1. /\ Install!First \in Sources /\ 0 \notin Sources /\ Sources \subseteq Nat
        /\ 0 \in 0..MaxChunks /\ 0 \in 0..(ResumeTries - 1) /\ 0 \in 0..MaxCrash
        /\ Mixed # None
    BY SourcesOrdered DEF Install!InstallAssumption
  <1>2. Install!TypeOK
    BY <1>1
       DEF Install!Init, Install!TypeOK, Install!NoPart, Install!Origins, Install!Zips,
           Install!Pieces
  <1>3. \A w \in Installers : Asked(w)
    BY DEF Install!Init, Asked, Streaming
  <1>4. OneDownload
    BY DEF Install!Init, OneDownload, Install!Busy
  <1>5. Marked
    BY DEF Install!Init, Marked, Unpacking, Fetching, Install!Whole
  <1>6. Named
    BY <1>1 DEF Install!Init, Named, Continued, Streaming, Install!NoPart
  <1> QED
    BY <1>2, <1>3, <1>4, <1>5, <1>6 DEF InstallInv

\* An installer that is not at work starts, or goes to another source, or on.
LEMMA StepTypes ==
    ASSUME Install!InstallAssumption, InstallInv, [Install!Next]_Install!vars
    PROVE  Install!TypeOK' /\ \A w \in Installers : Asked(w)'
  <1> USE DEF Asked, Streaming, Install!Origins, Install!Zips, Install!Pieces, Install!NoPart
  <1>0. Install!TypeOK /\ \A w \in Installers : Asked(w)
    BY DEF InstallInv
  <1>1. CASE UNCHANGED Install!vars
    BY <1>0, <1>1 DEF Install!vars, Install!TypeOK
  <1>2. CASE Install!Press
    BY <1>0, <1>2 DEF Install!Press, Install!Enter, Install!TypeOK
  <1>3. CASE Install!OpenProfile
    BY <1>0, <1>3 DEF Install!OpenProfile, Install!Enter, Install!TypeOK
  <1>4. CASE Install!Crash
    <2>1. /\ at' \in [Installers -> {"off"}] /\ src' \in [Installers -> Sources]
          /\ counted' \in [Installers -> {0}] /\ tries' \in [Installers -> {0}]
          /\ left' \in [Installers -> {{}}]
      BY <1>4, SourcesOrdered DEF Install!Crash
    <2>2. lost' \in BOOLEAN /\ crashes' \in 0..MaxCrash
      BY <1>0, <1>4 DEF Install!Crash, Install!TypeOK, Install!InstallAssumption
    <2>3. 0 \in 0..MaxChunks /\ 0 \in 0..(ResumeTries - 1)
      BY DEF Install!InstallAssumption
    <2> QED
      BY <1>0, <1>4, <2>1, <2>2, <2>3 DEF Install!Crash, Install!TypeOK
  <1>5. CASE \E r \in Pressers : Install!PressAgain(r)
    BY <1>0, <1>5 DEF Install!PressAgain, Install!TypeOK
  <1>6. ASSUME NEW w \in Installers, Install!InstallStep(w)
        PROVE  Install!TypeOK' /\ \A v \in Installers : Asked(v)'
    <2>0. /\ Install!First \in Sources /\ Sources \cap {0, None, Mixed} = {}
          /\ None # Mixed /\ MaxChunks \in Nat \ {0} /\ ResumeTries \in Nat \ {0}
          /\ MaxCrash \in Nat /\ MinChunks \in 1..MaxChunks /\ 0 \in 0..MaxChunks
          /\ 0 \in 0..(ResumeTries - 1)
      BY SourcesOrdered DEF Install!InstallAssumption
    <2>1. CASE Install!NextSource(w) /\ UNCHANGED Install!fileVars
      BY <1>0, <2>0, <2>1, SourceMoves DEF Install!TypeOK
    <2>2. CASE Install!Begin(w)
      BY <1>0, <2>0, <2>2 DEF Install!Begin, Install!TypeOK
    <2>3. CASE Install!Look(w)
      BY <1>0, <2>0, <2>3 DEF Install!Look, Install!Move, Install!TypeOK
    <2>4. CASE Install!End(w)
      BY <1>0, <2>0, <2>4 DEF Install!End, Install!TypeOK
    <2>5. CASE Install!Reuse(w)
      BY <1>0, <2>0, <2>5 DEF Install!Reuse, Install!Move, Install!TypeOK
    <2>6. CASE Install!Resume(w)
      BY <1>0, <2>0, <2>6 DEF Install!Resume, Install!Move, Install!TypeOK
    <2>7. CASE Install!Name(w)
      BY <1>0, <2>0, <2>7 DEF Install!Name, Install!Move, Install!TypeOK
    <2>8. CASE at[w] = "connect" /\ Install!Retry(w) /\ UNCHANGED <<counted, Install!fileVars>>
      BY <1>0, <2>0, <2>8 DEF Install!Retry, Install!Move, Install!TypeOK
    <2>9. CASE Install!Connect(w)
      BY <1>0, <2>0, <2>9 DEF Install!Connect, Install!Move, Install!TypeOK
    <2>17. CASE Install!ConnectFromZero(w)
      BY <1>0, <2>0, <2>17 DEF Install!ConnectFromZero, Install!Move, Install!TypeOK
    <2>10. CASE Install!Chunk(w)
      BY <1>0, <2>0, <2>10 DEF Install!Chunk, Install!Move, Install!TypeOK
    <2>11. CASE Install!StreamDone(w)
      BY <1>0, <2>0, <2>11
         DEF Install!StreamDone, Install!AsZip, Install!Move, Install!TypeOK
    <2>12. CASE /\ at[w] = "read" /\ Install!Retry(w)
               /\ counted' = [counted EXCEPT ![w] = part.n] /\ UNCHANGED Install!fileVars
      BY <1>0, <2>0, <2>12 DEF Install!Retry, Install!Move, Install!TypeOK
    <2>13. CASE Install!StreamEmpty(w)
      BY <1>0, <2>0, <2>13, SourceMoves DEF Install!StreamEmpty, Install!TypeOK
    <2>14. CASE Install!Unpack(w)
      BY <1>0, <2>0, <2>14 DEF Install!Unpack, Install!Move, Install!TypeOK
    <2>15. CASE Install!ExtractFile(w)
      BY <1>0, <2>0, <2>15 DEF Install!ExtractFile, Install!TypeOK
    <2>16. CASE Install!Register(w)
      <3>1. CASE "exe" \in folder
        BY <1>0, <2>0, <2>16, <3>1 DEF Install!Register, Install!Move, Install!TypeOK
      <3>2. CASE Install!NextSource(w) /\ UNCHANGED Install!fileVars
        BY <2>1, <3>2
      <3> QED
        BY <2>16, <3>1, <3>2 DEF Install!Register
    <2> QED
      BY <1>6, <2>1, <2>2, <2>3, <2>4, <2>5, <2>6, <2>7, <2>8, <2>9, <2>10, <2>11, <2>12, <2>13,
         <2>14, <2>15, <2>16, <2>17
         DEF Install!InstallStep, Install!ProbeFails, Install!ConnectFails, Install!Refused,
             Install!Again, Install!NotReplaced, Install!StreamCut, Install!Rejected,
             Install!ExtractFails
  <1> QED
    BY <1>0, <1>1, <1>2, <1>3, <1>4, <1>5, <1>6 DEF Install!Next

\* An installer that takes a step is at work already.
LEMMA StepMoves ==
    ASSUME Install!InstallAssumption, Install!TypeOK, NEW w \in Installers, Install!InstallStep(w)
    PROVE  /\ at[w] # "off" /\ UNCHANGED <<together, lost>>
           /\ \E to : at' = [at EXCEPT ![w] = to]
  BY SourceMoves
     DEF Install!InstallStep, Install!Begin, Install!Look, Install!End, Install!ProbeFails,
         Install!Reuse, Install!Resume, Install!Name, Install!ConnectFails, Install!Refused,
         Install!Connect, Install!ConnectFromZero, Install!Chunk, Install!StreamDone,
         Install!NotReplaced, Install!StreamCut, Install!StreamEmpty, Install!Rejected,
         Install!Unpack, Install!ExtractFile, Install!Register, Install!ExtractFails,
         Install!Again, Install!Retry, Install!Move

\* Only Press and OpenProfile bring another installer in.
LEMMA StepAlone ==
    ASSUME Install!InstallAssumption, InstallInv, [Install!Next]_Install!vars
    PROVE  OneDownload'
  <1>0. Install!TypeOK /\ OneDownload
    BY DEF InstallInv
  <1>1. CASE UNCHANGED Install!vars
    BY <1>0, <1>1 DEF Install!vars, OneDownload, Install!Busy
  <1>2. ASSUME NEW w \in Installers, at[w] = "off", Install!Enter(w)
        PROVE  OneDownload'
    BY <1>0, <1>2 DEF Install!Enter, Install!TypeOK, OneDownload, Install!Busy
  <1>3. CASE Install!Crash
    BY <1>3 DEF Install!Crash, OneDownload, Install!Busy
  <1>4. CASE \E r \in Pressers : Install!PressAgain(r)
    BY <1>0, <1>4 DEF Install!PressAgain, OneDownload, Install!Busy
  <1>5. ASSUME NEW w \in Installers, Install!InstallStep(w)
        PROVE  OneDownload'
    <2>1. at[w] # "off" /\ UNCHANGED together /\ \E to : at' = [at EXCEPT ![w] = to]
      BY <1>0, <1>5, StepMoves
    <2> QED
      BY <1>0, <2>1 DEF Install!TypeOK, OneDownload, Install!Busy
  <1> QED
    BY <1>1, <1>2, <1>3, <1>4, <1>5 DEF Install!Next, Install!Press, Install!OpenProfile

\* A folder is emptied only where the marker is missing, and marked only when it is
\* full again; nobody else is at work.
LEMMA StepMarked ==
    ASSUME Install!InstallAssumption, InstallInv, [Install!Next]_Install!vars
    PROVE  Marked'
  <1> USE DEF Unpacking, Fetching, Install!Whole, Install!Pieces
  <1>0. Install!TypeOK /\ OneDownload /\ Marked
    BY DEF InstallInv
  <1>1. CASE together'
    BY <1>1 DEF Marked
  <1>2. CASE UNCHANGED Install!vars
    BY <1>0, <1>2 DEF Install!vars, Marked
  <1>3. ASSUME NEW w \in Installers, Install!Enter(w)
        PROVE  Marked'
    BY <1>0, <1>3 DEF Install!Enter, Install!TypeOK, Marked
  <1>4. CASE Install!Crash
    BY <1>0, <1>4 DEF Install!Crash, Marked
  <1>5. CASE \E r \in Pressers : Install!PressAgain(r)
    BY <1>0, <1>5 DEF Install!PressAgain, Marked
  <1>6. ASSUME NEW w \in Installers, Install!InstallStep(w), ~together'
        PROVE  Marked'
    <2>0. /\ ~together /\ (marker => Install!Whole)
          /\ Unpacking(w) /\ at[w] # "off"
          /\ \A v \in Installers \ {w} : at[v] = "off"
      <3>1. at[w] # "off" /\ UNCHANGED together
        BY <1>0, <1>6, StepMoves
      <3> QED
        BY <1>0, <1>6, <3>1 DEF OneDownload, Marked, Install!Busy
    <2>1. ASSUME NEW to \in {"off", "look", "probe", "name", "connect", "read", "placed", "end"},
                 at' = [at EXCEPT ![w] = to], UNCHANGED <<folder, marker>>,
                 ~marker \/ to \in {"off", "look", "end"}
          PROVE  Marked'
      BY <1>0, <2>0, <2>1 DEF Install!TypeOK, Marked
    <2>2. CASE Install!NextSource(w) /\ UNCHANGED <<folder, marker>> /\ at[w] \in Fetching
      <3>1. at' = [at EXCEPT ![w] = "end"] \/ at' = [at EXCEPT ![w] = "probe"]
        BY <1>0, <2>2, SourceMoves
      <3>2. ~marker /\ "end" \notin Fetching
        BY <2>0, <2>2
      <3>3. CASE at' = [at EXCEPT ![w] = "end"]
        BY <2>1, <2>2, <3>2, <3>3
      <3>4. CASE at' = [at EXCEPT ![w] = "probe"]
        BY <2>1, <2>2, <3>2, <3>4
      <3> QED
        BY <3>1, <3>3, <3>4
    <2>3. CASE Install!Begin(w) \/ Install!End(w)
      BY <2>1, <2>3 DEF Install!Begin, Install!End
    <2>4. CASE Install!Look(w)
      <3>1. Install!Ready \/ ~marker
        BY <2>0 DEF Install!Ready
      <3>2. PICK to \in {"end", "placed", "probe"} :
               Install!Move(w, to) /\ (to = "end" \/ ~Install!Ready)
        BY <2>4 DEF Install!Look
      <3> QED
        BY <2>1, <2>4, <3>1, <3>2 DEF Install!Look, Install!Move
    <2>5. CASE \/ Install!Reuse(w) \/ Install!Resume(w) \/ Install!Name(w)
               \/ Install!Connect(w) \/ Install!ConnectFromZero(w)
               \/ Install!Chunk(w) \/ Install!StreamDone(w)
      BY <2>0, <2>1, <2>5
         DEF Install!Reuse, Install!Resume, Install!Name, Install!Connect,
             Install!ConnectFromZero, Install!Chunk, Install!StreamDone, Install!Move
    <2>6. CASE at[w] \in {"connect", "read"} /\ Install!Retry(w) /\ UNCHANGED Install!fileVars
      <3>1. at' = [at EXCEPT ![w] = "connect"] /\ UNCHANGED <<folder, marker>> /\ ~marker
        BY <2>0, <2>6 DEF Install!Retry, Install!Move
      <3> QED
        BY <2>1, <3>1
    <2>7. CASE Install!StreamEmpty(w)
      BY <2>2, <2>7 DEF Install!StreamEmpty
    <2>8. CASE Install!Unpack(w)
      BY <1>0, <2>0, <2>8 DEF Install!Unpack, Install!Move, Install!TypeOK, Marked
    <2>9. CASE Install!ExtractFile(w)
      BY <1>0, <2>0, <2>9 DEF Install!ExtractFile, Install!TypeOK, Marked
    <2>10. CASE Install!Register(w)
      BY <1>0, <2>0, <2>10 DEF Install!Register, Install!Move, Install!TypeOK, Marked
    <2> QED
      BY <1>6, <2>2, <2>3, <2>4, <2>5, <2>6, <2>7, <2>8, <2>9, <2>10
         DEF Install!InstallStep, Install!ProbeFails, Install!ConnectFails, Install!Refused,
             Install!Again, Install!NotReplaced, Install!StreamCut, Install!Rejected,
             Install!ExtractFails
  <1> QED
    BY <1>1, <1>2, <1>3, <1>4, <1>5, <1>6
       DEF Install!Next, Install!Press, Install!OpenProfile

\* What is in the .part file stays under its name, from Resume, which takes no file of
\* another source, to the end of the stream.
LEMMA StepNamed ==
    ASSUME Install!InstallAssumption, InstallInv, [Install!Next]_Install!vars
    PROVE  Named'
  <1> USE DEF Continued, Streaming
  <1>0. Install!TypeOK /\ OneDownload /\ Named /\ \A w \in Installers : Asked(w)
    BY DEF InstallInv
  <1>1. CASE (together \/ lost)'
    BY <1>1 DEF Named
  <1>2. CASE UNCHANGED Install!vars
    BY <1>0, <1>2 DEF Install!vars, Named
  <1>3. ASSUME NEW w \in Installers, at[w] = "off", Install!Enter(w)
        PROVE  Named'
    BY <1>0, <1>3 DEF Install!Enter, Install!TypeOK, Named
  <1>4. CASE Install!Crash
    BY <1>0, <1>4 DEF Install!Crash, Named
  <1>5. CASE \E r \in Pressers : Install!PressAgain(r)
    BY <1>0, <1>5 DEF Install!PressAgain, Named
  <1>6. ASSUME NEW w \in Installers, Install!InstallStep(w), ~(together \/ lost)'
        PROVE  Named'
    <2>0. /\ ~together /\ ~lost /\ at[w] # "off"
          /\ \A v \in Installers \ {w} : at[v] = "off"
          /\ UNCHANGED <<together, lost>>
      <3>1. at[w] # "off" /\ UNCHANGED <<together, lost>>
        BY <1>0, <1>6, StepMoves
      <3> QED
        BY <1>0, <1>6, <3>1 DEF OneDownload, Install!Busy
    <2>1. /\ part.from # Mixed /\ Continued(w)
          /\ at[w] # "name" => (part.n > 0 => named = part.from)
      BY <1>0, <2>0 DEF Named
    <2>2. /\ None \notin Sources /\ Mixed \notin Sources /\ None # Mixed
          /\ part.n \in 0..MaxChunks /\ counted[w] \in 0..MaxChunks /\ MaxChunks \in Nat
          /\ part.n = 0 <=> part.from = None
          /\ at[w] \in Streaming \cup {"probe"} => src[w] \in Sources
      BY <1>0 DEF Install!TypeOK, Install!InstallAssumption, Asked
    <2>3. ASSUME NEW to \in {"off", "look", "probe", "placed", "extract", "register", "end"},
                 at' = [at EXCEPT ![w] = to], UNCHANGED <<part, named>>, at[w] # "name"
          PROVE  Named'
      BY <1>0, <2>0, <2>1, <2>3 DEF Install!TypeOK, Named
    <2>4. CASE Install!NextSource(w) /\ UNCHANGED <<part, named>> /\ at[w] # "name"
      <3>1. at' = [at EXCEPT ![w] = "end"] \/ at' = [at EXCEPT ![w] = "probe"]
        BY <1>0, <2>4, SourceMoves
      <3> QED
        BY <2>3, <2>4, <3>1
    <2>5. CASE \/ Install!Begin(w) \/ Install!Look(w) \/ Install!End(w) \/ Install!Reuse(w)
               \/ Install!Unpack(w) \/ Install!ExtractFile(w)
      BY <2>3, <2>5
         DEF Install!Begin, Install!Look, Install!End, Install!Reuse, Install!Unpack,
             Install!ExtractFile, Install!Move
    <2>6. CASE Install!Resume(w)
      <3>1. /\ at' = [at EXCEPT ![w] = "name"] /\ counted' = [counted EXCEPT ![w] = part'.n]
            /\ UNCHANGED src
        BY <2>6 DEF Install!Resume, Install!Move
      <3>2. part' = Install!NoPart \/ (part' = part /\ (part.n > 0 => part.from = src[w]))
        BY <2>1, <2>2, <2>6 DEF Install!Resume, Install!Stale
      <3> QED
        BY <1>0, <2>0, <2>1, <2>2, <3>1, <3>2 DEF Install!TypeOK, Install!NoPart, Named
    <2>7. CASE Install!Name(w)
      BY <1>0, <2>0, <2>1, <2>7 DEF Install!Name, Install!Move, Install!TypeOK, Named
    <2>8. CASE at[w] = "connect" /\ Install!Retry(w) /\ UNCHANGED <<counted, Install!fileVars>>
      BY <1>0, <2>0, <2>1, <2>8 DEF Install!Retry, Install!Move, Install!TypeOK, Named
    <2>9. CASE Install!Connect(w)
      BY <1>0, <2>0, <2>1, <2>2, <2>9
         DEF Install!Connect, Install!Move, Install!NoPart, Install!TypeOK, Named
    <2>10. CASE Install!ConnectFromZero(w)
      BY <1>0, <2>0, <2>1, <2>2, <2>10
         DEF Install!ConnectFromZero, Install!Move, Install!NoPart, Install!TypeOK, Named
    <2>11. CASE Install!Chunk(w)
      <3>1. /\ counted[w] = part.n /\ counted[w] < MaxChunks /\ named = src[w]
            /\ part.n = 0 \/ part.from = src[w]
        BY <2>1, <2>2, <2>11 DEF Install!Chunk
      <3>2. /\ at' = [at EXCEPT ![w] = "read"] /\ counted' = [counted EXCEPT ![w] = part.n + 1]
            /\ part' = [n |-> part.n + 1, from |-> src[w]]
            /\ UNCHANGED <<src, named>>
        BY <1>0, <2>2, <2>11, <3>1 DEF Install!Chunk, Install!Move, Install!TypeOK
      <3> QED
        BY <1>0, <2>0, <2>1, <2>2, <2>11, <3>1, <3>2
           DEF Install!Chunk, Install!TypeOK, Named
    <2>12. CASE /\ at[w] = "read" /\ Install!Retry(w)
               /\ counted' = [counted EXCEPT ![w] = part.n] /\ UNCHANGED Install!fileVars
      BY <1>0, <2>0, <2>1, <2>2, <2>12
         DEF Install!Retry, Install!Move, Install!TypeOK, Named
    <2>13. CASE Install!StreamDone(w)
      BY <1>0, <2>0, <2>2, <2>13
         DEF Install!StreamDone, Install!Move, Install!NoPart, Install!TypeOK, Named
    <2>14. CASE Install!StreamEmpty(w)
      <3>1. at' = [at EXCEPT ![w] = "end"] \/ at' = [at EXCEPT ![w] = "probe"]
        BY <1>0, <2>14, SourceMoves DEF Install!StreamEmpty
      <3> QED
        BY <1>0, <2>0, <2>2, <2>14, <3>1
           DEF Install!StreamEmpty, Install!NoPart, Install!TypeOK, Named
    <2>15. CASE Install!Register(w)
      <3>1. CASE "exe" \in folder
        BY <2>3, <2>15, <3>1 DEF Install!Register, Install!Move
      <3> QED
        BY <2>4, <2>15, <3>1 DEF Install!Register
    <2> QED
      BY <1>6, <2>4, <2>5, <2>6, <2>7, <2>8, <2>9, <2>10, <2>11, <2>12, <2>13, <2>14, <2>15
         DEF Install!InstallStep, Install!ProbeFails, Install!ConnectFails, Install!Refused,
             Install!Again, Install!NotReplaced, Install!StreamCut, Install!Rejected,
             Install!ExtractFails
  <1> QED
    BY <1>1, <1>2, <1>3, <1>4, <1>5, <1>6
       DEF Install!Next, Install!Press, Install!OpenProfile

LEMMA InstallInvariant == ASSUME Install!InstallAssumption PROVE Install!Spec => []InstallInv
  <1>1. Install!Init => InstallInv
    BY InstallInit
  <1>2. InstallInv /\ [Install!Next]_Install!vars => InstallInv'
    BY StepTypes, StepAlone, StepMarked, StepNamed DEF InstallInv
  <1> QED
    BY <1>1, <1>2, PTL DEF Install!Spec

-----------------------------------------------------------------------------
(* A download does not go back. *)

LEMMA StepForward ==
    ASSUME Install!InstallAssumption, Install!TypeOK, NEW w \in Installers, Install!InstallStep(w)
    PROVE  Install!Forward(w) \/ at'[w] = "off"
  <1> USE DEF Install!Forward, Install!Further, Install!AtWork
  <1>0. /\ at[w] \in {"off", "begin", "look", "probe", "name", "connect", "read", "placed",
                     "extract", "register", "end"}
        /\ w \in DOMAIN at /\ w \in DOMAIN src /\ w \in DOMAIN counted
        /\ w \in DOMAIN tries /\ w \in DOMAIN left
        /\ counted[w] \in Nat /\ tries[w] \in Nat
    BY DEF Install!TypeOK, Install!InstallAssumption
  <1>1. ASSUME Install!NextSource(w), at[w] \in Install!AtWork
        PROVE  Install!Forward(w)
    <2>1. CASE at' = [at EXCEPT ![w] = "end"]
      BY <1>0, <1>1, <2>1
    <2>2. CASE /\ at' = [at EXCEPT ![w] = "probe"]
               /\ \E s \in Sources : s > src[w] /\ src' = [src EXCEPT ![w] = s]
      BY <1>0, <1>1, <2>2
    <2> QED
      BY <1>1, <2>1, <2>2, SourceMoves
  <1>2. ASSUME at[w] \in {"connect", "read"}, Install!Retry(w)
        PROVE  Install!Forward(w)
    BY <1>0, <1>2 DEF Install!Retry, Install!Move, Install!Stage
  <1>3. CASE Install!Begin(w) \/ Install!End(w)
    BY <1>0, <1>3 DEF Install!Begin, Install!End
  <1>4. CASE Install!Look(w)
    BY <1>0, <1>4 DEF Install!Look, Install!Move
  <1>5. CASE Install!Reuse(w)
    BY <1>0, <1>5 DEF Install!Reuse, Install!Move, Install!Stage
  <1>6. CASE Install!Resume(w)
    BY <1>0, <1>6 DEF Install!Resume, Install!Move, Install!Stage
  <1>7. CASE Install!Name(w)
    BY <1>0, <1>7 DEF Install!Name, Install!Move, Install!Stage
  <1>8. CASE Install!Connect(w) \/ Install!ConnectFromZero(w)
    BY <1>0, <1>8 DEF Install!Connect, Install!ConnectFromZero, Install!Move
  <1>9. CASE Install!Chunk(w)
    BY <1>0, <1>9 DEF Install!Chunk, Install!Move
  <1>10. CASE Install!StreamDone(w)
    BY <1>0, <1>10 DEF Install!StreamDone, Install!Move, Install!Stage
  <1>11. CASE Install!Unpack(w)
    BY <1>0, <1>11 DEF Install!Unpack, Install!Move, Install!Stage
  <1>12. CASE Install!ExtractFile(w)
    <2>1. PICK p \in left[w] : left' = [left EXCEPT ![w] = @ \ {p}]
      BY <1>12 DEF Install!ExtractFile
    <2>2. left'[w] \subseteq left[w] /\ left'[w] # left[w]
      BY <1>0, <2>1
    <2>3. /\ at[w] = "extract" /\ UNCHANGED src
          /\ at'[w] = "extract" \/ at'[w] = "register"
      BY <1>0, <1>12 DEF Install!ExtractFile
    <2> QED
      BY <2>2, <2>3 DEF Install!Stage
  <1>13. CASE Install!Register(w)
    BY <1>0, <1>1, <1>13 DEF Install!Register, Install!Move
  <1> QED
    BY <1>1, <1>2, <1>3, <1>4, <1>5, <1>6, <1>7, <1>8, <1>9, <1>10, <1>11, <1>12, <1>13
       DEF Install!InstallStep, Install!ProbeFails, Install!ConnectFails, Install!Refused,
           Install!Again, Install!NotReplaced, Install!StreamCut, Install!StreamEmpty,
           Install!Rejected, Install!ExtractFails

LEMMA OtherInstallersStay ==
    ASSUME Install!InstallAssumption, Install!TypeOK, NEW w \in Installers, NEW v \in Installers,
           v # w, Install!InstallStep(w) \/ Install!Enter(w)
    PROVE  UNCHANGED <<at[v], src[v], counted[v], tries[v], left[v]>>
  <1> USE DEF Install!TypeOK
  <1>1. CASE \/ Install!Begin(w) \/ Install!End(w) \/ Install!Enter(w)
             \/ Install!Look(w) \/ Install!Reuse(w) \/ Install!Resume(w) \/ Install!Name(w)
    BY <1>1
       DEF Install!Begin, Install!End, Install!Enter, Install!Look, Install!Reuse,
           Install!Resume, Install!Name, Install!Move
  <1>2. CASE \/ Install!Connect(w) \/ Install!ConnectFromZero(w) \/ Install!Chunk(w)
             \/ Install!StreamDone(w) \/ Install!Unpack(w)
    BY <1>2
       DEF Install!Connect, Install!ConnectFromZero, Install!Chunk, Install!StreamDone,
           Install!Unpack, Install!Move
  <1>3. CASE Install!ExtractFile(w)
    BY <1>3 DEF Install!ExtractFile
  <1>4. ASSUME Install!NextSource(w)
        PROVE  UNCHANGED <<at[v], src[v], counted[v], tries[v], left[v]>>
    BY <1>4, SourceMoves
  <1>5. CASE Install!Retry(w) /\ (UNCHANGED counted \/ counted' = [counted EXCEPT ![w] = part.n])
    BY <1>5 DEF Install!Retry, Install!Move
  <1>6. CASE Install!Register(w)
    BY <1>4, <1>6 DEF Install!Register, Install!Move
  <1> QED
    BY <1>1, <1>2, <1>3, <1>4, <1>5, <1>6
       DEF Install!InstallStep, Install!ProbeFails, Install!ConnectFails, Install!Refused,
           Install!Again, Install!NotReplaced, Install!StreamCut, Install!StreamEmpty,
           Install!Rejected, Install!ExtractFails

-----------------------------------------------------------------------------
(* The profiles and the program they run, together *)

\* A download takes INSTALLED.json away from nobody, and counts no death.
LEMMA InstallerKeeps ==
    ASSUME NEW w \in Installers, Install!InstallStep(w)
    PROVE  /\ UNCHANGED crashes
           /\ marker => marker'
  <1>1. ASSUME Install!NextSource(w)
        PROVE  UNCHANGED crashes
    BY <1>1 DEF Install!NextSource, Install!Move
  <1>2. ASSUME Install!Again(w)
        PROVE  UNCHANGED crashes
    BY <1>1, <1>2 DEF Install!Again, Install!Retry, Install!Move
  <1>3. CASE \/ Install!Begin(w) \/ Install!Look(w) \/ Install!End(w) \/ Install!Reuse(w)
             \/ Install!Resume(w) \/ Install!Name(w) \/ Install!Connect(w)
             \/ Install!ConnectFromZero(w) \/ Install!Chunk(w) \/ Install!StreamDone(w)
             \/ Install!Unpack(w) \/ Install!ExtractFile(w)
    BY <1>3
       DEF Install!Begin, Install!Look, Install!End, Install!Reuse, Install!Resume, Install!Name,
           Install!Connect, Install!ConnectFromZero, Install!Chunk, Install!StreamDone,
           Install!Unpack, Install!ExtractFile, Install!Move
  <1>4. CASE \/ Install!ProbeFails(w) \/ Install!ConnectFails(w) \/ Install!Refused(w)
             \/ Install!NotReplaced(w) \/ Install!StreamEmpty(w) \/ Install!Rejected(w)
             \/ Install!ExtractFails(w)
    BY <1>1, <1>2, <1>4
       DEF Install!ProbeFails, Install!ConnectFails, Install!Refused, Install!NotReplaced,
           Install!StreamEmpty, Install!Rejected, Install!ExtractFails
  <1>5. CASE Install!StreamCut(w)
    BY <1>1, <1>5 DEF Install!StreamCut, Install!Retry, Install!Move
  <1>6. CASE Install!Register(w)
    BY <1>1, <1>6 DEF Install!Register, Install!Move
  <1> QED
    BY <1>3, <1>4, <1>5, <1>6 DEF Install!InstallStep

\* Every step of the browser is one of the profiles, one of the download, or both.
LEMMA BrowserParts == BrowserSpec => Spec /\ Install!Spec
  <1> USE DEF profileVars, installVars, browserVars, vars, Install!vars
  <1>1. BrowserInit => Init /\ Install!Init
    BY DEF BrowserInit
  <1>2. ASSUME [BrowserNext]_browserVars
        PROVE  [Next]_vars
    <2>1. ASSUME NEW t \in Threads, Fetch(t)
          PROVE  UNCHANGED vars
      BY <2>1 DEF Fetch, Install!OpenProfile, Install!Enter
    <2>2. CASE Press \/ \E r \in Pressers : PressAgain(r)
      BY <2>2 DEF Press, PressAgain, Install!Press, Install!Enter, Install!PressAgain
    <2>3. ASSUME NEW w \in Installers, InstallerStep(w)
          PROVE  UNCHANGED vars
      BY <2>3, InstallerKeeps DEF InstallerStep
    <2>4. CASE User \/ Death \/ \E t \in Threads : ProfileStep(t)
      BY <2>4 DEF User, Death, ProfileStep, Next
    <2>5. CASE UNCHANGED browserVars
      BY <2>5
    <2> QED
      BY <1>2, <2>1, <2>2, <2>3, <2>4, <2>5 DEF BrowserNext
  <1>3. ASSUME [BrowserNext]_browserVars
        PROVE  [Install!Next]_Install!vars
    <2>1. ASSUME NEW t \in Threads, ProfileStep(t)
          PROVE  UNCHANGED Install!vars
      BY <2>1, NobodyDies DEF ProfileStep
    <2>2. CASE User
      BY <2>2 DEF User, UserCloses, Ends
    <2>3. ASSUME NEW t \in Threads, Fetch(t)
          PROVE  Install!Next
      BY <2>3 DEF Fetch, Install!Next
    <2>4. CASE Press \/ Death \/ (\E r \in Pressers : PressAgain(r))
      BY <2>4 DEF Press, Death, PressAgain, Install!Next
    <2>5. ASSUME NEW w \in Installers, InstallerStep(w)
          PROVE  Install!Next
      BY <2>5 DEF InstallerStep, Install!Next
    <2>6. CASE UNCHANGED browserVars
      BY <2>6
    <2> QED
      BY <1>3, <2>1, <2>2, <2>3, <2>4, <2>5, <2>6 DEF BrowserNext
  <1> QED
    BY <1>1, <1>2, <1>3, PTL DEF BrowserSpec, Spec, Install!Spec

\* Who is between the look at INSTALLED.json and the new window has seen the file, and so
\* has every window that runs.
Launching(t) ==
    \/ pc[t] \in {"spawn", "bind", "publish"}
    \/ pc[t] \in Updating /\ upd[t] = "opening"
    \/ pc[t] = "kill" /\ op[t] \notin {"delete", "save"}
Looked(t) == /\ Launching(t) => marker
             /\ pc[t] = "close" => op[t] \in {"open", "chat", "save", "delete"}
Launched == (running # {} => marker) /\ \A t \in Threads : Looked(t)

LEMMA MarkerStays ==
    ASSUME [Install!Next]_Install!vars, marker
    PROVE  marker'
  <1>1. CASE UNCHANGED Install!vars
    BY <1>1 DEF Install!vars
  <1>2. CASE \/ Install!Press \/ Install!OpenProfile \/ Install!Crash
             \/ \E r \in Pressers : Install!PressAgain(r)
    BY <1>2 DEF Install!Press, Install!OpenProfile, Install!Enter, Install!Crash,
                Install!PressAgain
  <1> QED
    BY <1>1, <1>2, InstallerKeeps DEF Install!Next

LEMMA LookedStep ==
    ASSUME Types, NEW t \in Threads, At(t), ProfileStep(t), Launched
    PROVE  (running' # {} => marker') /\ Looked(t)'
  <1>0. /\ Request(t) \/ Step(t)
        /\ Looked(t) /\ (running # {} => marker) /\ marker' = marker
        /\ Opens(t) /\ pc'[t] = "kill" => marker
    BY DEF ProfileStep, Launched, GoOn, Install!Ready, installVars
  <1> HIDE DEF ProfileStep, Launched
  <1> USE <1>0 DEF Types, At, Goto, Update, Keep, Done, After, Start, Looked, Launching
  <1> USE DEF Ops, Panel, Places, Chatting, Merging, Updating, Changes
  <1>1. CASE Open(t)
    BY <1>1 DEF Open
  <1>2. CASE Create(t)
    BY <1>2 DEF Create
  <1>3. CASE Save(t)
    BY <1>3 DEF Save
  <1>4. CASE Delete(t)
    BY <1>4 DEF Delete
  <1>5. CASE Login(t)
    BY <1>5 DEF Login
  <1>6. CASE Collect(t)
    BY <1>6 DEF Collect
  <1>7. CASE Chat(t)
    BY <1>7 DEF Chat
  <1>8. CASE Pop(t)
    BY <1>8 DEF Pop, Opens
  <1>9. CASE NoProgram(t)
    BY <1>9 DEF NoProgram
  <1>10. CASE Kill(t)
    BY <1>10 DEF Kill, Ends
  <1>11. CASE LoadMeta(t)
    BY <1>11 DEF LoadMeta
  <1>12. CASE WriteMeta(t)
    BY <1>12 DEF WriteMeta
  <1>13. CASE Spawn(t)
    BY <1>13 DEF Spawn
  <1>14. CASE SpawnFails(t)
    BY <1>14 DEF SpawnFails
  <1>15. CASE Bind(t)
    BY <1>15 DEF Bind
  <1>16. CASE Publish(t)
    BY <1>16 DEF Publish
  <1>17. CASE Look(t)
    BY <1>17 DEF Look
  <1>18. CASE ReadSession(t)
    BY <1>18 DEF ReadSession
  <1>19. CASE WriteSession(t)
    BY <1>19 DEF WriteSession
  <1>20. CASE Browse(t)
    BY <1>20 DEF Browse
  <1>21. CASE CollectTimeout(t)
    BY <1>21 DEF CollectTimeout
  <1>22. CASE Remove(t)
    BY <1>22 DEF Remove
  <1>23. CASE Acquire(t)
    BY <1>23 DEF Acquire
  <1>24. CASE Busy(t)
    BY <1>24 DEF Busy
  <1>25. CASE Enter(t)
    BY <1>25 DEF Enter
  <1>26. CASE Connect(t)
    BY <1>26 DEF Connect
  <1>27. CASE Navigate(t)
    BY <1>27 DEF Navigate
  <1>28. CASE Evaluate(t)
    BY <1>28 DEF Evaluate
  <1>29. CASE Release(t)
    BY <1>29 DEF Release
  <1> QED
    BY <1>1, <1>2, <1>3, <1>4, <1>5, <1>6, <1>7, <1>8, <1>9, <1>10, <1>11, <1>12, <1>13,
       <1>14, <1>15, <1>16, <1>17, <1>18, <1>19, <1>20, <1>21, <1>22, <1>23, <1>24, <1>25,
       <1>26, <1>27, <1>28, <1>29 DEF Request, Step

LEMMA LaunchedStep ==
    ASSUME Types, \A u \in Threads : At(u), [BrowserNext]_browserVars, [Install!Next]_Install!vars,
           Launched
    PROVE  Launched'
  <1>1. ASSUME UNCHANGED <<op, pc, upd>>, running' \subseteq running
        PROVE  Launched'
    BY <1>1, MarkerStays DEF Launched, Looked, Launching
  <1>2. ASSUME NEW t \in Threads, ProfileStep(t)
        PROVE  Launched'
    <2>1. (running' # {} => marker') /\ Looked(t)'
      BY <1>2, LookedStep
    <2>2. ASSUME NEW u \in Threads \ {t}
          PROVE  Looked(u)'
      <3>1. op'[u] = op[u] /\ pc'[u] = pc[u] /\ upd'[u] = upd[u]
        BY <1>2, OthersStay DEF ProfileStep, Alone
      <3> QED
        BY <3>1, MarkerStays DEF Launched, Looked, Launching
    <2> QED
      BY <2>1, <2>2 DEF Launched
  <1>3. CASE User
    BY <1>1, <1>3 DEF User, UserCloses, Ends, Types
  <1>4. CASE Death
    BY <1>4, MarkerStays DEF Death, Crash, Launched, Looked, Launching, Updating
  <1>5. CASE \/ Press \/ (\E r \in Pressers : PressAgain(r)) \/ UNCHANGED browserVars
             \/ (\E t \in Threads : Fetch(t)) \/ \E w \in Installers : InstallerStep(w)
    BY <1>1, <1>5 DEF Press, PressAgain, Fetch, InstallerStep, browserVars, profileVars
  <1> QED
    BY <1>2, <1>3, <1>4, <1>5 DEF BrowserNext

\* INSTALLED.json is written after the files and a folder is emptied only where it is
\* missing (ensure_installed, installer/fetch_chromium.py); open_profile looks for it before
\* it starts a window: what counts as installed, or runs in a window, is complete, whatever
\* hosts answer and wherever the program dies, unless downloads overlapped.
THEOREM InstalledIsWhole == BrowserSpec => []RegisteredIsWhole
  <1>1. InstallInv /\ Launched => RegisteredIsWhole
    BY DEF InstallInv, Marked, Launched, RegisteredIsWhole, Install!Ready
  <1>2. BrowserInit => Launched
    BY DEF BrowserInit, Init, Launched, Looked, Launching, Updating
  <1>3. ASSUME ProfileInv, Launched, [BrowserNext]_browserVars, [Install!Next]_Install!vars
        PROVE  Launched'
    BY <1>3, LaunchedStep DEF ProfileInv
  <1>4. Install!Spec => []InstallInv
    BY InstallInvariant, BrowserAssumption
  <1> QED
    BY <1>1, <1>2, <1>3, <1>4, BrowserParts, ProfileInvHolds, PTL DEF BrowserSpec, Install!Spec

\* The name beside the .part file is compared before a download goes on
\* (DownloadManager.fetch): a file is put together from two sources only by downloads that
\* overlap or after a death that took the name.
THEOREM OneSource == BrowserSpec => []ResumedFromItsSource
  <1>1. InstallInv => ResumedFromItsSource
    BY DEF InstallInv, Named, ResumedFromItsSource, Install!ResumedFromItsSource
  <1>2. Install!Spec => []InstallInv
    BY InstallInvariant, BrowserAssumption
  <1> QED
    BY <1>1, <1>2, BrowserParts, PTL

\* The sources of a download only get later, its attempts, chunks and files more
\* (ensure_installed, DownloadManager.fetch): whatever hosts answer and other downloads do
\* to the files, none goes round in a circle.  DownloadEnds is this, and fairness.
THEOREM DownloadGoesOn == BrowserSpec => Install!NoWayBack
  <1>1. Install!InstallAssumption
    BY BrowserAssumption
  <1>2. ASSUME InstallInv, [Install!Next]_Install!vars, NEW v \in Installers
        PROVE  \/ Install!Forward(v) \/ at[v] = "off" \/ at'[v] = "off"
               \/ UNCHANGED <<at[v], src[v], counted[v], tries[v], left[v]>>
    <2>0. Install!TypeOK
      BY <1>2 DEF InstallInv
    <2>1. CASE UNCHANGED Install!vars \/ \E r \in Pressers : Install!PressAgain(r)
      BY <2>1 DEF Install!vars, Install!PressAgain
    <2>2. CASE Install!Crash
      BY <2>2 DEF Install!Crash
    <2>3. ASSUME NEW w \in Installers, at[w] = "off", Install!Enter(w)
          PROVE  at[v] = "off" \/ UNCHANGED <<at[v], src[v], counted[v], tries[v], left[v]>>
      BY <1>1, <2>0, <2>3, OtherInstallersStay
    <2>4. ASSUME NEW w \in Installers, Install!InstallStep(w)
          PROVE  \/ Install!Forward(v) \/ at'[v] = "off"
                 \/ UNCHANGED <<at[v], src[v], counted[v], tries[v], left[v]>>
      BY <1>1, <2>0, <2>4, StepForward, OtherInstallersStay
    <2> QED
      BY <1>2, <2>1, <2>2, <2>3, <2>4 DEF Install!Next, Install!Press, Install!OpenProfile
  <1>3. ASSUME InstallInv, [Install!Next]_Install!vars
        PROVE  [\A w \in Installers :
                   \/ Install!Forward(w) \/ at[w] = "off" \/ at'[w] = "off"
                   \/ UNCHANGED <<at[w], src[w], counted[w], tries[w], left[w]>>]_Install!vars
    BY <1>2, <1>3
  <1>4. Install!Spec => []InstallInv
    BY <1>1, InstallInvariant
  <1> QED
    BY <1>3, <1>4, BrowserParts, PTL DEF Install!Spec, Install!NoWayBack

\* What is proved of the profiles alone holds in the browser: the errors of a download and
\* the deaths in it add no step to the profiles (open_profile).
THEOREM ProfilesKeep == BrowserSpec => [](EveryWindowKnown /\ OwnPage /\ CountedLoginIsKept)
  BY BrowserParts, WindowsKnown, PageIsOwn, LoginIsKept, PTL
=============================================================================
