----------------------------- MODULE PhoneQueue -----------------------------
(***************************************************************************)
(* The phone queue of the lead collector: the monitor thread that claims   *)
(* the head of the queue, reveals the phone number of that ad with one of  *)
(* the accounts and stores the answer (monitor.py), the panel's "captcha   *)
(* solved" handler that does the same in another thread (unlock.py), and   *)
(* what the panel, the account watcher and a process death do meanwhile.   *)
(*                                                                         *)
(* The steps are the code's database commits and its waits: consecutive    *)
(* calls with no network call, sleep or lock wait between them are one     *)
(* step.  Reading the head of the queue and marking it are two steps (up   *)
(* to phone_delay_sec lies between), as are storing a contact and counting *)
(* it (two commits).                                                       *)
(***************************************************************************)
EXTENDS Integers, FiniteSets

CONSTANTS
    Leads,              \* row ids of the ads that may be collected
    Accounts,           \* accounts that are logged in
    Monitors,           \* monitor threads that start requests let in at once
    Operators,          \* request threads of the panel that work on leads
    None,
    IpLimit,            \* cfg ip_daily_limit
    SoftLimit,          \* cfg per_account_daily_limit
    Adaptive,           \* cfg adaptive_until_captcha
    MaxRetry,           \* bound: failed attempts per lead
    MaxCrash,           \* bound: process deaths
    MaxReset,           \* bound: resets of today's quota
    MaxRequeue          \* bound: requeue requests

Workers == Monitors \cup Operators

ASSUME ConstantsAssumption ==
    /\ Leads \subseteq Nat
    /\ IpLimit \in Nat \ {0} /\ SoftLimit \in Nat
    /\ MaxRetry \in Nat /\ MaxCrash \in Nat
    /\ MaxReset \in Nat /\ MaxRequeue \in Nat
    /\ Adaptive \in BOOLEAN

ASSUME WorkersAssumption ==
    /\ IsFiniteSet(Monitors)
    /\ Monitors \cap Operators = {}
    /\ None \notin Leads \cup Accounts \cup Workers

\* Captcha-like errors in a row after which an account is set aside.
CaptchaErrors == 3

PhoneStatus == {"absent", "pending", "processing", "legacy",
                "found", "hidden", "removed"}
Resolved == {"found", "hidden", "removed"}
\* "out" is 'relogin' and 'disabled', which the pick treats alike.
AccountStatus == {"active", "captcha", "out"}
Signals == {"run", "pause", "stop"}
Places == {"off", "idle", "scan", "fetch", "wait", "picked", "calling",
           "stored", "outreach", "sweep"}
\* The places in which a worker has a lead and an account.
Engaged == {"picked", "calling", "stored", "outreach"}

VARIABLES
    phone_status,   \* leads.phone_status, "absent" while there is no row
    retry_count,    \* leads.retry_count
    acct,           \* status of each account in state.json
    acctErrors,     \* Monitor._acct_errors
    phones,         \* today's quota row, column phones
    used,           \* today's quota_accounts rows
    pc, job, by, res, rows,     \* where a worker is, and its local variables
    current,        \* _state["monitor"]
    signal,         \* each Monitor's stop_event and paused flag
    \* history, read by the properties only
    stranded,       \* leads a dead or failed worker left in 'processing'
    monTaken,       \* contacts stored by monitors since the quota was reset
    opTaken,        \* contacts stored by operators since then
    lost,           \* monitors' contacts stored but never to be counted
    crashes, resets, requeues   \* what the bounds count

leadVars == <<phone_status, retry_count>>
acctVars == <<acct, acctErrors>>
quotaVars == <<phones, used>>
workVars == <<pc, job, by, res, rows>>
ctlVars == <<current, signal>>
takenVars == <<monTaken, opTaken, lost>>
boundVars == <<crashes, resets, requeues>>

vars == <<leadVars, acctVars, quotaVars, workVars, ctlVars, stranded,
          takenVars, boundVars>>

-----------------------------------------------------------------------------
(* Queries *)

Pending == {l \in Leads : phone_status[l] = "pending"}

\* pending_phone(newest_first=True): fewest retries first, then newest row.
IsHead(l) ==
    /\ l \in Pending
    /\ \A k \in Pending : \/ retry_count[l] < retry_count[k]
                          \/ retry_count[l] = retry_count[k] /\ l >= k

\* AccountManager.pick: accounts it considers at all, then the least used one.
Eligible == {a \in Accounts : /\ acct[a] = "active"
                              /\ used[a] < SoftLimit \/ Adaptive}
IsPick(a) == a \in Eligible /\ \A b \in Eligible : used[a] <= used[b]

\* Mutant: the limit itself still passes.
QuotaLeftAtLimit == phones <= IpLimit
QuotaLeft == phones < IpLimit

\* Rows inserted by a scan are written but not committed: until the commit
\* the scanning connection alone may write the database.
WriteLocked(w) == \E m \in Monitors \ {w} : pc[m] = "scan" /\ rows[m] # {}

Holds(w, l) == pc[w] = "calling" /\ job[w] = l

\* Monitors that passed the quota check and have stored no contact since, and
\* those that have stored one and not counted it.
Claiming == {m \in Monitors : pc[m] \in {"picked", "calling"}}
Uncounted == {m \in Monitors : pc[m] = "stored"}

(* Local control *)

Goto(w, p) == /\ pc' = [pc EXCEPT ![w] = p]
              /\ UNCHANGED <<job, by, res, rows>>

Drop(w, p) == /\ pc' = [pc EXCEPT ![w] = p]
              /\ job' = [job EXCEPT ![w] = None]
              /\ by' = [by EXCEPT ![w] = None]
              /\ res' = [res EXCEPT ![w] = None]
              /\ rows' = [rows EXCEPT ![w] = {}]

Claim(w, l, a) == /\ pc' = [pc EXCEPT ![w] = "picked"]
                  /\ job' = [job EXCEPT ![w] = l]
                  /\ by' = [by EXCEPT ![w] = a]
                  /\ UNCHANGED <<res, rows>>

EndDrain(m) == Goto(m, "sweep")

SetStatus(l, s) == phone_status' = [phone_status EXCEPT ![l] = s]
SetAccount(a, s) == acct' = [acct EXCEPT ![a] = s]

Init ==
    /\ phone_status = [l \in Leads |-> "absent"]
    /\ retry_count = [l \in Leads |-> 0]
    /\ acct = [a \in Accounts |-> "active"]
    /\ acctErrors = [m \in Monitors |-> [a \in Accounts |-> 0]]
    /\ phones = 0
    /\ used = [a \in Accounts |-> 0]
    /\ pc = [w \in Workers |-> "off"]
    /\ job = [w \in Workers |-> None]
    /\ by = [w \in Workers |-> None]
    /\ res = [w \in Workers |-> None]
    /\ rows = [w \in Workers |-> {}]
    /\ current = None
    /\ signal = [m \in Monitors |-> "run"]
    /\ stranded = {}
    /\ monTaken = 0 /\ opTaken = 0 /\ lost = 0
    /\ crashes = 0 /\ resets = 0 /\ requeues = 0

-----------------------------------------------------------------------------
(* The life of a monitor thread *)

\* POST /api/monitor/start.  The check for a running thread sees the latest
\* one only and takes no lock, so a monitor may be started beside another.
\* Rows in 'processing' return to the queue, whoever works on them; without
\* include_existing the whole queue is then retired.
MonitorStart(m, include_existing) ==
    /\ pc[m] = "off"
    /\ ~WriteLocked(m)
    /\ phone_status' = [l \in Leads |->
            IF phone_status[l] \in {"pending", "processing"}
            THEN IF include_existing THEN "pending" ELSE "legacy"
            ELSE phone_status[l]]
    /\ acctErrors' = [acctErrors EXCEPT ![m] = [a \in Accounts |-> 0]]
    /\ current' = m
    /\ signal' = [signal EXCEPT ![m] = "run"]
    /\ stranded' = {}
    /\ Goto(m, "idle")
    /\ UNCHANGED <<retry_count, acct, quotaVars, takenVars,
                   boundVars>>

\* POST /api/monitor/stop and /api/monitor/pause reach the monitor in _state;
\* a stop is final, the pause button toggles.
Signal(s) ==
    /\ current # None
    /\ signal' = [signal EXCEPT ![current] = s]
    /\ UNCHANGED <<leadVars, acctVars, quotaVars, workVars, current, stranded,
                   takenVars, boundVars>>

MonitorStop == Signal("stop")
MonitorPause ==
    /\ current # None /\ signal[current] # "stop"
    /\ Signal(IF signal[current] = "pause" THEN "run" ELSE "pause")

\* The thread ends and clears _state["monitor"], whichever monitor is there.
MonitorExit(m) ==
    /\ pc[m] = "idle" /\ signal[m] = "stop"
    /\ current' = None
    /\ Goto(m, "off")
    /\ UNCHANGED <<leadVars, acctVars, quotaVars, signal, stranded, takenVars,
                   boundVars>>

BeginRound(m) ==
    /\ pc[m] = "idle" /\ signal[m] = "run"
    /\ Goto(m, "scan")
    /\ UNCHANGED <<leadVars, acctVars, quotaVars, ctlVars, stranded,
                   takenVars, boundVars>>

\* consider_new_lead inserts the next row; it is visible after the commit.
ScanInsert(m) ==
    /\ pc[m] = "scan" /\ ~WriteLocked(m)
    /\ \E l \in Leads :
        /\ phone_status[l] = "absent" /\ l \notin rows[m]
        /\ \A k \in Leads : k < l => phone_status[k] # "absent" \/ k \in rows[m]
        /\ rows' = [rows EXCEPT ![m] = @ \cup {l}]
    /\ UNCHANGED <<leadVars, acctVars, quotaVars, pc, job, by, res, ctlVars,
                   stranded, takenVars, boundVars>>

\* The commit at the end of a page; then the next page, or the queue.
ScanCommit(m) ==
    /\ pc[m] = "scan"
    /\ phone_status' = [l \in Leads |-> IF l \in rows[m] THEN "pending"
                                        ELSE phone_status[l]]
    /\ \E next \in {"scan", "fetch"} : Drop(m, next)
    /\ UNCHANGED <<retry_count, acctVars, quotaVars, ctlVars,
                   stranded, takenVars, boundVars>>

-----------------------------------------------------------------------------
(* _fetch_one and drain: one lead of the queue with one account *)

FetchPick(m) ==
    /\ pc[m] = "fetch" /\ signal[m] = "run"
    /\ \/ /\ ~QuotaLeft \/ Pending = {}
          /\ EndDrain(m)
       \/ /\ QuotaLeft /\ Pending # {} /\ Eligible = {}
          /\ Goto(m, "wait")
       \/ /\ QuotaLeft
          /\ \E l \in Leads, a \in Accounts :
                IsHead(l) /\ IsPick(a) /\ Claim(m, l, a)
    /\ UNCHANGED <<leadVars, acctVars, quotaVars, ctlVars, stranded,
                   takenVars, boundVars>>

DrainHalted(m) ==
    /\ pc[m] = "fetch" /\ signal[m] # "run"
    /\ EndDrain(m)
    /\ UNCHANGED <<leadVars, acctVars, quotaVars, ctlVars, stranded,
                   takenVars, boundVars>>

\* 90 looks at the accounts, two seconds apart, then the round goes on.
WaitForAccount(m) ==
    /\ pc[m] = "wait"
    /\ \/ signal[m] # "stop" /\ Eligible # {} /\ Goto(m, "fetch")
       \/ EndDrain(m)
    /\ UNCHANGED <<leadVars, acctVars, quotaVars, ctlVars, stranded,
                   takenVars, boundVars>>

\* mark_processing writes whatever the row has become since it was read.
MarkProcessing(w) ==
    /\ pc[w] = "picked" /\ ~WriteLocked(w)
    /\ SetStatus(job[w], "processing")
    /\ Goto(w, "calling")
    /\ UNCHANGED <<retry_count, acctVars, quotaVars, ctlVars,
                   stranded, takenVars, boundVars>>

\* Divar blocks the account, or refuses its login.
ReplyBlocked(m) ==
    /\ pc[m] = "calling" /\ ~WriteLocked(m)
    /\ SetStatus(job[m], "pending")
    /\ \E s \in {"captcha", "out"} : SetAccount(by[m], s)
    /\ Drop(m, "wait")
    /\ UNCHANGED <<retry_count, acctErrors, quotaVars,
                   ctlVars, stranded, takenVars, boundVars>>

\* Mutant: the attempt is counted, the row is not put back.
BackToQueueForgotten(w) ==
    /\ retry_count[job[w]] < MaxRetry
    /\ retry_count' = [retry_count EXCEPT ![job[w]] = @ + 1]
    /\ UNCHANGED phone_status

\* Mutant: the row is put back at its old place in the order.
BackToQueueUncounted(w) ==
    /\ retry_count[job[w]] < MaxRetry
    /\ SetStatus(job[w], "pending")
    /\ UNCHANGED retry_count

BackToQueue(w) ==
    /\ retry_count[job[w]] < MaxRetry
    /\ SetStatus(job[w], "pending")
    /\ retry_count' = [retry_count EXCEPT ![job[w]] = @ + 1]

ReplyException(m) ==
    /\ pc[m] = "calling" /\ ~WriteLocked(m)
    /\ BackToQueue(m)
    /\ Drop(m, "fetch")
    /\ UNCHANGED <<acctVars, quotaVars, ctlVars, stranded, takenVars,
                   boundVars>>

\* Mutant: max(0, ...) dropped.
ErrorsAfterUnclamped(m, captcha_like) ==
    acctErrors[m][by[m]] + (IF captcha_like THEN 1 ELSE -1)

\* An answer with status 'error'.  Only captcha-like messages count against
\* the account, and the third one sets it aside.
ErrorsAfter(m, captcha_like) ==
    LET errors == acctErrors[m][by[m]]
    IN  IF captcha_like THEN errors + 1
        ELSE IF errors > 0 THEN errors - 1 ELSE 0

ReplyError(m, captcha_like) ==
    /\ pc[m] = "calling" /\ ~WriteLocked(m)
    /\ BackToQueue(m)
    /\ acctErrors' = [acctErrors EXCEPT
                        ![m][by[m]] = ErrorsAfter(m, captcha_like)]
    /\ IF captcha_like /\ ErrorsAfter(m, captcha_like) >= CaptchaErrors
       THEN SetAccount(by[m], "captcha") /\ Drop(m, "wait")
       ELSE UNCHANGED acct /\ Drop(m, "fetch")
    /\ UNCHANGED <<quotaVars, ctlVars, stranded, takenVars,
                   boundVars>>

\* found, hidden or removed: set_phone and log_operation, one commit.
StoreContact(m, answer) ==
    /\ pc[m] = "calling" /\ ~WriteLocked(m)
    /\ SetStatus(job[m], answer)
    /\ pc' = [pc EXCEPT ![m] = "stored"]
    /\ res' = [res EXCEPT ![m] = answer]
    /\ monTaken' = monTaken + 1
    /\ UNCHANGED <<retry_count, acctVars, quotaVars, job, by, rows,
                   ctlVars, stranded, opTaken, lost, boundVars>>

\* Mutant: only a number is counted, not 'hidden' or 'removed'.
CountNumber(m) ==
    /\ pc[m] = "stored" /\ ~WriteLocked(m)
    /\ phones' = phones + IF res[m] = "found" THEN 1 ELSE 0
    /\ used' = [used EXCEPT ![by[m]] = @ + 1]
    /\ acctErrors' = [acctErrors EXCEPT ![m][by[m]] = 0]
    /\ Goto(m, "outreach")
    /\ UNCHANGED <<leadVars, acct, ctlVars, stranded, takenVars,
                   boundVars>>

\* bump_quota and record_use.
CountContact(m) ==
    /\ pc[m] = "stored" /\ ~WriteLocked(m)
    /\ phones' = phones + 1
    /\ used' = [used EXCEPT ![by[m]] = @ + 1]
    /\ acctErrors' = [acctErrors EXCEPT ![m][by[m]] = 0]
    /\ Goto(m, "outreach")
    /\ UNCHANGED <<leadVars, acct, ctlVars, stranded, takenVars,
                   boundVars>>

\* The message to the seller, as far as it changes the queue: its chat page may
\* turn out to be gone.
Outreach(m) ==
    /\ pc[m] = "outreach"
    /\ \/ UNCHANGED leadVars
       \/ /\ ~WriteLocked(m)
          /\ res[m] \in {"found", "hidden"}
          /\ SetStatus(job[m], "removed")
          /\ UNCHANGED retry_count
    /\ Drop(m, "fetch")
    /\ UNCHANGED <<acctVars, quotaVars, ctlVars, stranded, takenVars,
                   boundVars>>

\* drain_chat, the hunter's messages and poll_inboxes: the page of any ad they
\* work through may be gone, or its seller may say so.
Sweep(m) ==
    /\ pc[m] = "sweep"
    /\ \E gone \in SUBSET {l \in Leads : phone_status[l] # "absent"} :
        /\ WriteLocked(m) => gone = {}
        /\ phone_status' = [l \in Leads |-> IF l \in gone THEN "removed"
                                            ELSE phone_status[l]]
    /\ Goto(m, "idle")
    /\ UNCHANGED <<retry_count, acctVars, quotaVars, ctlVars, stranded,
                   takenVars, boundVars>>

-----------------------------------------------------------------------------
(* The panel's request threads *)

\* confirm_captcha_phone: the operator says an account's captcha is solved.
ConfirmBegin(o, a) ==
    /\ pc[o] = "off"
    /\ acctErrors' = IF current = None THEN acctErrors
                     ELSE [acctErrors EXCEPT ![current][a] = 0]
    /\ SetAccount(a, "active")
    /\ IF Pending = {} THEN UNCHANGED workVars
       ELSE \E l \in Leads : IsHead(l) /\ Claim(o, l, a)
    /\ UNCHANGED <<leadVars, quotaVars, ctlVars, stranded, takenVars,
                   boundVars>>

\* Blocked, refused or failed: back to the queue, retry_count as it was.
ConfirmFailed(o, verdict) ==
    /\ pc[o] = "calling" /\ ~WriteLocked(o)
    /\ SetStatus(job[o], "pending")
    /\ acct' = CASE verdict = "blocked" -> [acct EXCEPT ![by[o]] = "captcha"]
                 [] verdict = "refused" -> [acct EXCEPT ![by[o]] = "out"]
                 [] verdict = "error" -> acct
    /\ Drop(o, "off")
    /\ UNCHANGED <<retry_count, acctErrors, quotaVars,
                   ctlVars, stranded, takenVars, boundVars>>

ConfirmStore(o, answer) ==
    /\ pc[o] = "calling" /\ ~WriteLocked(o)
    /\ SetStatus(job[o], answer)
    /\ Goto(o, "stored")
    /\ opTaken' = opTaken + 1
    /\ UNCHANGED <<retry_count, acctVars, quotaVars, ctlVars,
                   stranded, monTaken, lost, boundVars>>

ConfirmCount(o) ==
    /\ pc[o] = "stored" /\ ~WriteLocked(o)
    /\ phones' = phones + 1
    /\ used' = [used EXCEPT ![by[o]] = @ + 1]
    /\ Drop(o, "off")
    /\ UNCHANGED <<leadVars, acctVars, ctlVars, stranded, takenVars,
                   boundVars>>

\* The panel has the week's hunts looked at again (drain_week_old, in the
\* request's thread): the chat page of one of them is gone.
RecheckWeek(o, l) ==
    /\ pc[o] = "off" /\ current # None /\ ~WriteLocked(o)
    /\ phone_status[l] # "absent"
    /\ SetStatus(l, "removed")
    /\ UNCHANGED <<retry_count, acctVars, quotaVars, workVars, ctlVars,
                   stranded, takenVars, boundVars>>

-----------------------------------------------------------------------------
(* Failures *)

\* A write waits five seconds for the lock, then raises "database is locked".
\* A monitor gives up its round, a request ends with an error; no handler puts
\* the row back, so what was 'processing' stays so.
DatabaseLocked(w) ==
    /\ \/ pc[w] \in {"picked", "calling", "stored"}
       \/ pc[w] = "scan" /\ rows[w] = {}
    /\ WriteLocked(w)
    /\ stranded' = IF pc[w] = "calling" THEN stranded \cup {job[w]}
                   ELSE stranded
    /\ lost' = IF pc[w] = "stored" /\ w \in Monitors THEN lost + 1 ELSE lost
    /\ Drop(w, IF w \in Monitors THEN "idle" ELSE "off")
    /\ UNCHANGED <<leadVars, acctVars, quotaVars, ctlVars, monTaken, opTaken,
                   boundVars>>

\* The process dies (shutdown calls os._exit): the database and state.json
\* stay, uncommitted rows and all threads are gone.
Crash ==
    /\ crashes < MaxCrash
    /\ \E w \in Workers : pc[w] # "off"
    /\ crashes' = crashes + 1
    /\ stranded' = {l \in Leads : phone_status[l] = "processing"}
    /\ lost' = lost + Cardinality(Uncounted)
    /\ pc' = [w \in Workers |-> "off"]
    /\ job' = [w \in Workers |-> None]
    /\ by' = [w \in Workers |-> None]
    /\ res' = [w \in Workers |-> None]
    /\ rows' = [w \in Workers |-> {}]
    /\ acctErrors' = [m \in Monitors |-> [a \in Accounts |-> 0]]
    /\ current' = None
    /\ signal' = [m \in Monitors |-> "run"]
    /\ UNCHANGED <<leadVars, acct, quotaVars, monTaken, opTaken, resets,
                   requeues>>

-----------------------------------------------------------------------------
(* The panel, the account watcher, the calendar *)

\* set_status from the panel, the command line or the account watcher: enabled,
\* released or logged in again; disabled, or found to need a new login.
AccountSet(a, s) ==
    /\ SetAccount(a, s)
    /\ UNCHANGED <<leadVars, acctErrors, quotaVars, workVars, ctlVars,
                   stranded, takenVars, boundVars>>

\* The panel puts 'chat only' ads back in the queue: all of them, or one.
Requeue(ls) ==
    /\ ls # {}
    /\ requeues < MaxRequeue /\ ~WriteLocked(None)
    /\ requeues' = requeues + 1
    /\ phone_status' = [l \in Leads |-> IF l \in ls THEN "pending"
                                        ELSE phone_status[l]]
    /\ retry_count' = [l \in Leads |-> IF l \in ls THEN 0 ELSE retry_count[l]]
    /\ UNCHANGED <<acctVars, quotaVars, workVars, ctlVars, stranded,
                   takenVars, crashes, resets>>

\* Mutants: the filter on 'hidden' dropped.
RequeueAll == Requeue({l \in Leads : phone_status[l] \in Resolved})
RequeueAny(l) == phone_status[l] \in Resolved /\ Requeue({l})

RequeueHidden == Requeue({l \in Leads : phone_status[l] = "hidden"})
RequeueOne(l) == phone_status[l] = "hidden" /\ Requeue({l})

\* Another external IP, the reset button, or the next day's quota row.
QuotaReset ==
    /\ resets < MaxReset /\ ~WriteLocked(None)
    /\ resets' = resets + 1
    /\ phones' = 0
    /\ used' = [a \in Accounts |-> 0]
    /\ monTaken' = 0 /\ opTaken' = 0 /\ lost' = 0
    /\ UNCHANGED <<leadVars, acctVars, workVars, ctlVars, stranded, crashes,
                   requeues>>

-----------------------------------------------------------------------------
MonitorStep(m) ==
    \/ BeginRound(m) \/ ScanInsert(m) \/ ScanCommit(m) \/ MonitorExit(m)
    \/ FetchPick(m) \/ DrainHalted(m) \/ WaitForAccount(m)
    \/ MarkProcessing(m) \/ ReplyBlocked(m) \/ ReplyException(m)
    \/ \E captcha_like \in BOOLEAN : ReplyError(m, captcha_like)
    \/ \E answer \in Resolved : StoreContact(m, answer)
    \/ CountContact(m) \/ Outreach(m) \/ Sweep(m) \/ DatabaseLocked(m)

OperatorStep(o) ==
    \/ \E a \in Accounts : ConfirmBegin(o, a)
    \/ MarkProcessing(o)
    \/ \E verdict \in {"blocked", "refused", "error"} :
            ConfirmFailed(o, verdict)
    \/ \E answer \in Resolved : ConfirmStore(o, answer)
    \/ ConfirmCount(o) \/ DatabaseLocked(o)
    \/ \E l \in Leads : RecheckWeek(o, l)

PanelStep ==
    \/ \E m \in Monitors, include_existing \in BOOLEAN :
            MonitorStart(m, include_existing)
    \/ MonitorStop \/ MonitorPause
    \/ \E a \in Accounts, s \in {"active", "out"} : AccountSet(a, s)
    \/ RequeueHidden \/ \E l \in Leads : RequeueOne(l)

Next ==
    \/ \E m \in Monitors : MonitorStep(m)
    \/ \E o \in Operators : OperatorStep(o)
    \/ PanelStep \/ QuotaReset \/ Crash

Spec == Init /\ [][Next]_vars

\* A started thread keeps running and its calls return (every network call of
\* the worker has a timeout); nothing is assumed of operators and the panel.
FairSpec == Spec /\ \A m \in Monitors : WF_vars(MonitorStep(m))

-----------------------------------------------------------------------------
(* Properties *)

WorkTypeOK ==
    /\ pc \in [Workers -> Places]
    /\ job \in [Workers -> Leads \cup {None}]
    /\ by \in [Workers -> Accounts \cup {None}]
    /\ res \in [Workers -> Resolved \cup {None}]
    /\ rows \in [Workers -> SUBSET Leads]
    /\ \A w \in Workers : pc[w] \in Engaged => job[w] \in Leads /\ by[w] \in Accounts

StoreTypeOK ==
    /\ phone_status \in [Leads -> PhoneStatus]
    /\ retry_count \in [Leads -> 0 .. MaxRetry]
    /\ acct \in [Accounts -> AccountStatus]
    /\ acctErrors \in [Monitors -> [Accounts -> Nat]]
    /\ phones \in Nat
    /\ used \in [Accounts -> Nat]
    /\ current \in Monitors \cup {None}
    /\ signal \in [Monitors -> Signals]

HistoryTypeOK ==
    /\ stranded \in SUBSET Leads
    /\ monTaken \in Nat /\ opTaken \in Nat /\ lost \in Nat
    /\ crashes \in 0 .. MaxCrash /\ resets \in 0 .. MaxReset
    /\ requeues \in 0 .. MaxRequeue

\* Every variable has its type, and a worker past the pick has a lead and an
\* account.
TypeOK == WorkTypeOK /\ StoreTypeOK /\ HistoryTypeOK

\* No lead is lost in 'processing': some worker waits for its contact and will
\* write the answer, or it is one of those a failure left behind and the next
\* start puts back in the queue.
NoLostLead ==
    \A l \in Leads : phone_status[l] = "processing" =>
        l \in stranded \/ \E w \in Workers : Holds(w, l)

\* The monitors never reveal more contacts in one quota period than the limit
\* of the IP allows: each further monitor a concurrent start let in, and each
\* contact that was stored but could not be counted, costs at most one more.
MonitorsWithinLimit ==
    monTaken <= IpLimit + (Cardinality(Monitors) - 1) + lost

\* A stored contact is counted: what the quota row lacks is still on its way
\* or was lost to a failure between the two commits.
ContactsCounted ==
    monTaken <= phones + lost + Cardinality(Uncounted)

\* Each claim counts as a contact until its answer is in.
ClaimsWithinLimit ==
    monTaken + Cardinality(Claiming)
        <= IpLimit + (Cardinality(Monitors) - 1) + lost

\* What the code does not keep (unlock.py:79): at most ip_daily_limit numbers a
\* day are revealed from one IP, as README.md:44 says.
IpLimitKept == monTaken + opTaken <= IpLimit

\* A number once found is overwritten only by a worker that had read the lead
\* while it was still in the queue, or because the ad itself is gone.
FoundOverwrittenOnlyByStaleClaim ==
    [][\A l \in Leads :
        phone_status[l] = "found" /\ phone_status'[l] # "found" =>
            \/ phone_status'[l] = "removed"
            \/ \E w \in Workers : job[w] = l /\ pc[w] \in {"picked", "calling"}]_vars

\* A call that cost the monitor its account.
BlockedStep == \E m \in Monitors : pc[m] = "calling" /\ pc'[m] = "wait"

MonitorAtWork == current # None /\ signal[current] = "run"

\* The queue does not stall: once Divar stops blocking accounts, every queued lead is
\* claimed, unless at some point the quota is used up, no account is usable or
\* the monitor does not run.
QueueServed ==
    (<>[][~BlockedStep]_vars) =>
        \A l \in Leads :
            phone_status[l] = "pending" ~>
                \/ phone_status[l] # "pending"
                \/ ~QuotaLeft \/ Eligible = {} \/ ~MonitorAtWork

\* A claim by a worker is invisible: 'processing' is still queued.
Stage == [l \in Leads |->
            CASE phone_status[l] \in {"pending", "processing"} -> "queued"
              [] phone_status[l] = "legacy" -> "retired"
              [] OTHER -> phone_status[l]]

Lifecycle == INSTANCE LeadLifecycle WITH stage <- Stage

\* The queue keeps the promises of LeadLifecycle while one monitor at a time
\* works on it and no captcha confirmation does.
ImplementsLifecycle == Lifecycle!Spec
=============================================================================
