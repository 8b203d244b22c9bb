------------------------------ MODULE Collector ------------------------------
(***************************************************************************)
(* run_collection (collector.py), the command-line collector: it searches  *)
(* page by page, then reveals the numbers of the queued ads of its keyword *)
(* within the day's quota, behind a circuit breaker (rate.py).  It shares  *)
(* the database with the panel, whose monitor claims and answers ads of    *)
(* the same queue in another process.                                      *)
(*                                                                         *)
(* A step ends where the code commits or waits: after a request, after the *)
(* prompts of a login, after bump_quota, after set_phone.                  *)
(***************************************************************************)
EXTENDS Integers, FiniteSets, Sequences

CONSTANTS
    Leads,           \* row ids of the ads of the keyword
    Limit,           \* cfg phone_daily_limit
    MaxPhones,       \* argument max_phones, 0 for no cap
    Pages,           \* argument pages
    MaxConsecutive,  \* cfg max_consecutive_blocks
    Interactive,     \* cfg interactive: an operator answers the prompt
    None,
    MaxRuns,         \* bound: runs of the command
    MaxCrash,        \* bound: deaths of the collector
    MaxDays          \* bound: midnights

ASSUME CollectorAssumption ==
    /\ Leads \subseteq Nat /\ IsFiniteSet(Leads)
    /\ Limit \in Nat /\ MaxPhones \in Nat /\ Pages \in Nat \ {0}
    /\ MaxConsecutive \in Nat \ {0} /\ Interactive \in BOOLEAN
    /\ MaxRuns \in Nat /\ MaxCrash \in Nat /\ MaxDays \in Nat

Answers == {"found", "hidden", "removed", "error"}
LeadStatus == {"absent", "pending", "processing"} \cup Answers

VARIABLES
    phone_status,   \* leads.phone_status, "absent" while there is no row
    phones,         \* today's quota row, column phones
    phase,          \* where run_collection is
    token,          \* its client has a token (cl.token, read at the start)
    page, left, targets, res,   \* its local variables; left: quota_left,
                    \* targets: the rows to do
    calls,          \* how often the number in hand was asked for
    consecutive,    \* CircuitBreaker.consecutive
    held,           \* ads the panel's monitor is calling about
    \* history, read by the properties only
    requests, logins,       \* requests about ads, and for a login, of this run
    blocks,         \* blocked requests since the last answer or solved captcha
    revealed,       \* contacts Divar has answered to the collector today
    uncounted,      \* counts lost today: a death, a locked database
    counted, stored,        \* contacts it has counted, and stored, ever
    runs, crashes, days     \* what the bounds count

runVars == <<phase, token, page, left, targets, res, calls, consecutive>>
seenVars == <<requests, logins, blocks>>
sumVars == <<revealed, uncounted, counted, stored>>
boundVars == <<runs, crashes, days>>
vars == <<phone_status, phones, runVars, held, seenVars, sumVars, boundVars>>

-----------------------------------------------------------------------------
Pending == {l \in Leads : phone_status[l] = "pending"}

\* pending_phone(keyword): oldest row first (retry_count, which the collector
\* never raises, is left out of the order).
Queue == CHOOSE q \in [1 .. Cardinality(Pending) -> Pending] :
            \A i, j \in 1 .. Cardinality(Pending) : i < j => q[i] < q[j]

quota_left == Limit - phones

AtMost(m, n) == IF m <= n THEN m ELSE n

\* Mutant: a cap given on the command line replaces the quota.
CappedOnly ==
    AtMost(Cardinality(Pending), IF MaxPhones > 0 THEN MaxPhones ELSE left)

\* targets[:min(max_phones, quota_left)]
TargetCount ==
    AtMost(Cardinality(Pending),
           IF MaxPhones > 0 THEN AtMost(MaxPhones, left) ELSE left)

is_fatal == consecutive >= MaxConsecutive

\* Mutant: the breaker is not asked before a number is requested.
NeverFatal == FALSE
BreakerOpen == is_fatal

Init ==
    /\ phone_status = [l \in Leads |-> "absent"]
    /\ phones = 0
    /\ phase = "off" /\ token = "none" /\ page = 1 /\ left = 0
    /\ targets = <<>> /\ res = None /\ calls = 0
    /\ consecutive = 0
    /\ held = {}
    /\ requests = 0 /\ logins = 0 /\ blocks = 0
    /\ revealed = 0 /\ uncounted = 0 /\ counted = 0 /\ stored = 0
    /\ runs = 0 /\ crashes = 0 /\ days = 0

(* Local control *)

EndRun == /\ phase' = "off" /\ left' = 0 /\ targets' = <<>>
          /\ res' = None /\ calls' = 0

PagesDone == page >= Pages

NextPage == IF PagesDone THEN phase' = "select" /\ UNCHANGED page
            ELSE UNCHANGED phase /\ page' = page + 1

NextTarget == /\ phase' = "fetch" /\ targets' = Tail(targets)
              /\ res' = None /\ calls' = 0

\* _handle_block: the breaker trips; the run is over, or it goes on after the
\* operator has solved the captcha or the cooldown has passed.
BlockFatal == /\ consecutive + 1 >= MaxConsecutive
              /\ consecutive' = consecutive + 1
              /\ blocks' = blocks + 1
BlockResumed ==
    /\ consecutive + 1 < MaxConsecutive
    /\ \/ consecutive' = consecutive + 1 /\ blocks' = blocks + 1
       \/ Interactive /\ consecutive' = 0 /\ blocks' = 0

Asked == requests' = requests + 1 /\ UNCHANGED logins

-----------------------------------------------------------------------------
(* One run *)

\* A new breaker, a new client, with the token of the session file if there is
\* one; rows in 'processing' are put back, whoever works on them.
BeginRun ==
    /\ phase = "off" /\ runs < MaxRuns
    /\ runs' = runs + 1
    /\ phone_status' = [l \in Leads |-> IF phone_status[l] = "processing"
                                        THEN "pending" ELSE phone_status[l]]
    /\ phase' = "search" /\ page' = 1 /\ consecutive' = 0
    /\ token' \in {"none", "set"}
    /\ requests' = 0 /\ logins' = 0 /\ blocks' = 0
    /\ UNCHANGED <<phones, left, targets, res, calls, held, sumVars, crashes, days>>

\* The results of a page; a page without new ads (after the first) or without
\* ads ends the search.
SearchPage ==
    /\ phase = "search"
    /\ Asked
    /\ \E new \in SUBSET {l \in Leads : phone_status[l] = "absent"} :
        /\ \A l \in new, k \in Leads \ new : phone_status[k] = "absent" => l < k
        /\ phone_status' = [l \in Leads |-> IF l \in new THEN "pending"
                                            ELSE phone_status[l]]
        /\ \/ new = {} /\ phase' = "select" /\ UNCHANGED page
           \/ (new # {} \/ page = 1) /\ NextPage
    /\ UNCHANGED <<phones, token, left, targets, res, calls, consecutive, held,
                   blocks, sumVars, boundVars>>

\* 'continue' goes on with the next page of the range.
SearchBlocked ==
    /\ phase = "search"
    /\ Asked
    /\ \/ BlockFatal /\ phase' = "select" /\ UNCHANGED page
       \/ BlockResumed /\ NextPage
    /\ UNCHANGED <<phone_status, phones, token, left, targets, res, calls, held,
                   sumVars, boundVars>>

SearchFailed ==
    /\ phase = "search"
    /\ Asked
    /\ phase' = "select"
    /\ UNCHANGED <<phone_status, phones, token, page, left, targets, res, calls,
                   consecutive, held, blocks, sumVars, boundVars>>

\* What a step of a run between two requests leaves alone.
Between == UNCHANGED <<phone_status, phones, token, page, consecutive, held, boundVars>>

\* After the search: no_phone or a used quota ends the run, else the quota is
\* kept, and a client without a token goes to the login.
ReadQuota ==
    /\ phase = "select"
    /\ \/ EndRun    \* no_phone
       \/ quota_left <= 0 /\ EndRun
       \/ /\ quota_left > 0
          /\ phase' = IF token = "set" THEN "targets" ELSE "login"
          /\ left' = quota_left
          /\ UNCHANGED <<targets, res, calls>>
    /\ Between /\ UNCHANGED <<seenVars, sumVars>>

\* ensure_login: relogin (cli.py) logs in with a client of its own, whose code
\* request nobody stops.  The collector's client does not read the new token:
\* it goes on without, or the login raises and the run is over.
EnsureLogin ==
    /\ phase = "login"
    /\ logins' = logins + 1
    /\ \/ phase' = "targets" /\ UNCHANGED <<left, targets, res, calls>>
       \/ EndRun
    /\ Between /\ UNCHANGED <<requests, blocks, sumVars>>

\* The targets are read once, up to the quota as it was before the login.
SelectTargets ==
    /\ phase = "targets"
    /\ phase' = "fetch"
    /\ targets' = SubSeq(Queue, 1, TargetCount)
    /\ left' = 0
    /\ Between /\ UNCHANGED <<res, calls, seenVars, sumVars>>

\* The loop over the targets is over, or the breaker stops it.
PhonesDone ==
    /\ phase = "fetch"
    /\ targets = <<>> \/ BreakerOpen
    /\ EndRun
    /\ Between /\ UNCHANGED <<seenVars, sumVars>>

Fetching == phase = "fetch" /\ targets # <<>> /\ ~BreakerOpen

\* get_phone without a token raises before it asks; another login does not
\* give the client one, and the loop is left.
NoToken ==
    /\ Fetching /\ token = "none"
    /\ logins' = logins + 1
    /\ EndRun
    /\ Between /\ UNCHANGED <<requests, blocks, sumVars>>

\* get_phone answers.  Refused the first time, a client with a token asks again
\* at once (ensure_login is content with it).
Answered(answer, times) ==
    /\ Fetching /\ token = "set"
    /\ requests' = requests + times
    /\ revealed' = revealed + 1
    /\ blocks' = 0
    /\ phase' = "count" /\ res' = answer /\ calls' = times
    /\ Between /\ UNCHANGED <<left, targets, logins, uncounted, counted, stored>>

\* Mutant of Count: the number got by the second request is not counted.
CountFirst ==
    /\ phase = "count"
    /\ phones' = (IF calls = 2 THEN phones ELSE phones + 1)
    /\ counted' = (IF calls = 2 THEN counted ELSE counted + 1)
    /\ consecutive' = IF calls = 2 THEN consecutive ELSE 0
    /\ phase' = "store"
    /\ UNCHANGED <<phone_status, token, page, left, targets, res, calls, held,
                   seenVars, revealed, uncounted, stored, boundVars>>

\* bump_quota; the breaker is reset, but not after a second request.
Count ==
    /\ phase = "count"
    /\ phones' = phones + 1 /\ counted' = counted + 1
    /\ consecutive' = IF calls = 2 THEN consecutive ELSE 0
    /\ phase' = "store"
    /\ UNCHANGED <<phone_status, token, page, left, targets, res, calls, held,
                   seenVars, revealed, uncounted, stored, boundVars>>

\* bump_quota raises, before its commit or when it reads the row afterwards:
\* the answer becomes an 'error'.
CountFails(committed) ==
    /\ phase = "count"
    /\ phones' = (IF committed THEN phones + 1 ELSE phones)
    /\ counted' = (IF committed THEN counted + 1 ELSE counted)
    /\ uncounted' = (IF committed THEN uncounted ELSE uncounted + 1)
    /\ phase' = "store" /\ res' = "error"
    /\ UNCHANGED <<phone_status, token, page, left, targets, calls, consecutive,
                   held, seenVars, revealed, stored, boundVars>>

\* Any exception of the second request is an 'error', a block too.
FailedAgain(blocked) ==
    /\ Fetching /\ token = "set"
    /\ requests' = requests + 2
    /\ blocks' = IF blocked THEN blocks + 1 ELSE blocks
    /\ phase' = "store" /\ res' = "error"
    /\ Between /\ UNCHANGED <<left, targets, calls, logins, sumVars>>

Blocked ==
    /\ Fetching /\ token = "set" /\ Asked
    /\ \/ BlockFatal /\ EndRun
       \/ BlockResumed /\ NextTarget /\ UNCHANGED left
    /\ UNCHANGED <<phone_status, phones, token, page, held, sumVars, boundVars>>

\* Any other exception of the request.
Failed ==
    /\ Fetching /\ token = "set" /\ Asked
    /\ phase' = "store" /\ res' = "error"
    /\ Between /\ UNCHANGED <<left, targets, calls, blocks, sumVars>>

\* set_phone overwrites whatever the row has become.
StoreAnswer ==
    /\ phase = "store"
    /\ phone_status' = [phone_status EXCEPT ![Head(targets)] = res]
    /\ stored' = IF res = "error" THEN stored ELSE stored + 1
    /\ NextTarget
    /\ UNCHANGED <<phones, token, page, left, consecutive, held, seenVars,
                   revealed, uncounted, counted, boundVars>>

-----------------------------------------------------------------------------
(* The rest of the world *)

\* The process is killed, or an exception that nobody catches ends the run (a
\* locked database in set_phone or while the results of a page are stored).
Die ==
    /\ phase # "off" /\ crashes < MaxCrash
    /\ crashes' = crashes + 1
    /\ EndRun
    /\ uncounted' = (IF phase = "count" THEN uncounted + 1 ELSE uncounted)
    /\ UNCHANGED <<phone_status, phones, token, page, consecutive, held, seenVars,
                   revealed, counted, stored, runs, days>>

\* Today's quota row is another one.
Midnight ==
    /\ days < MaxDays
    /\ days' = days + 1
    /\ phones' = 0 /\ revealed' = 0 /\ uncounted' = 0
    /\ UNCHANGED <<phone_status, runVars, held, seenVars, counted, stored,
                   runs, crashes>>

\* The panel's monitor: mark_processing; set_phone and bump_quota; its end.
PanelClaim(l) ==
    /\ phone_status[l] = "pending" /\ l \notin held
    /\ phone_status' = [phone_status EXCEPT ![l] = "processing"]
    /\ held' = held \cup {l}
    /\ UNCHANGED <<phones, runVars, seenVars, sumVars, boundVars>>

PanelAnswer(l) ==
    /\ l \in held
    /\ phone_status' = [phone_status EXCEPT ![l] = "found"]
    /\ phones' = phones + 1
    /\ held' = held \ {l}
    /\ UNCHANGED <<runVars, seenVars, sumVars, boundVars>>

PanelDies ==
    /\ held # {} /\ held' = {}
    /\ UNCHANGED <<phone_status, phones, runVars, seenVars, sumVars, boundVars>>

-----------------------------------------------------------------------------
RunStep ==
    \/ BeginRun \/ SearchPage \/ SearchBlocked \/ SearchFailed
    \/ ReadQuota \/ EnsureLogin \/ SelectTargets \/ PhonesDone
    \/ NoToken
    \/ \E answer \in Answers, times \in {1, 2} : Answered(answer, times)
    \/ Count \/ \E b \in BOOLEAN : CountFails(b) \/ FailedAgain(b)
    \/ Blocked \/ Failed \/ StoreAnswer

Next ==
    \/ RunStep \/ Die \/ Midnight
    \/ \E l \in Leads : PanelClaim(l) \/ PanelAnswer(l)
    \/ PanelDies

Spec == Init /\ [][Next]_vars

-----------------------------------------------------------------------------
(* Properties *)

\* Every variable has its type, the search stays in its pages, and an answer
\* to be stored belongs to a row.
TypeOK ==
    /\ phone_status \in [Leads -> LeadStatus]
    /\ phones \in Nat
    /\ phase \in {"off", "search", "select", "login", "targets", "fetch", "count", "store"}
    /\ token \in {"none", "set"} /\ calls \in {0, 1, 2}
    /\ page \in 1 .. Pages
    /\ left \in 0 .. Limit
    /\ targets \in Seq(Leads)
    /\ res \in Answers \cup {None}
    /\ phase \in {"count", "store"} => targets # <<>> /\ res \in Answers
    /\ consecutive \in 0 .. MaxConsecutive
    /\ held \subseteq Leads
    /\ requests \in Nat /\ logins \in Nat /\ blocks \in Nat
    /\ revealed \in Nat /\ uncounted \in Nat
    /\ counted \in Nat /\ stored \in Nat
    /\ runs \in 0 .. MaxRuns /\ crashes \in 0 .. MaxCrash /\ days \in 0 .. MaxDays

\* Divar answers the collector no more contacts in a day than phone_daily_limit,
\* and one more for each whose count was lost (a death or a locked database
\* between get_phone and bump_quota): over all its runs, whatever the panel
\* counts meanwhile and although the quota is read once a run, before a login
\* that may take minutes.
WithinDailyLimit == revealed <= Limit + uncounted

\* After max_consecutive_blocks blocks in a row the run sends no request about an
\* ad any more, not in the search that was cut short, not for a number.  All it
\* may still send is the login before the numbers, of a client without a token.
FatalStopsRun ==
    [][is_fatal => /\ requests' \in {requests, 0}
                   /\ logins' \in {logins, 0} \/ phase = "login"]_vars

\* What the code does not keep (collector.py:129): with the breaker fatal today's
\* run is over right there, as the message of _handle_block says.
FatalEndsRun == [][is_fatal => logins' \in {logins, 0}]_vars

\* What was stored as an answer had been counted, wherever the collector died.
StoredWereCounted == stored <= counted

\* What the code does not keep (collector.py:152): the first sign of a block
\* stops the collector and slows it down, as rate.py:5 says.
EveryBlockTrips == blocks <= consecutive
=============================================================================
