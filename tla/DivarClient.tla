---------------------------- MODULE DivarClient ----------------------------
(***************************************************************************)
(* The calls of one account to Divar (client.py) and the login with a code *)
(* in the panel (web/server.py).  A request goes through a chain of        *)
(* transports until one brings an answer; the chain does not ask whether   *)
(* the request was delivered.  A call is one or more requests; what comes  *)
(* next depends on the answer.                                             *)
(*                                                                         *)
(* What the site answers is open; 'ad' and 'code' are the truth there.     *)
(***************************************************************************)
EXTENDS Integers, Sequences, FiniteSets

CONSTANTS
    Threads,        \* threads that call, each with a client object
    Ads, Phones, None,
    Transports,     \* the chain, in order
    Plain,          \* those whose errors are requests' RequestException
    Calls,          \* which calls a thread makes in this instance
    MaxCodes        \* bound: codes asked for

AllCalls == {"phone", "chat", "search", "otp", "confirm", "probe"}

Ways == {Transports[i] : i \in 1..Len(Transports)}
\* The first request of each call, and the requests that follow it.
FirstOf == [phone |-> "uuid", chat |-> "message", search |-> "get",
            otp |-> "authenticate", confirm |-> "code", probe |-> "gate"]
Requests == {"uuid", "v2", "v1", "message", "get", "post", "html", "authenticate", "code",
             "gate"}
Then == [get |-> "post", post |-> "html"]
Blocked == {"limited", "captcha"}
\* get_phone's verdicts, and how a call may end otherwise
Verdicts == {"found", "hidden", "removed"}
Results == Verdicts \cup Blocked \cup
           {"error", "relogin", "failed", "sent", "operator", "posts", "nothing",
            "asked", "token", "notoken", "invalid", "clear"}

ASSUME ClientAssumption ==
    /\ Transports \in Seq(Ways) /\ Transports # <<>>
    /\ \A i, j \in DOMAIN Transports : Transports[i] = Transports[j] => i = j
    /\ Calls \in [Threads -> SUBSET AllCalls] /\ MaxCodes \in Nat
    /\ None \notin Ads \cup Phones \cup Ways \cup AllCalls \cup Requests \cup Results

VARIABLES
    ad, v1Served,       \* at the site: the ads, whether the old endpoint is there
    code,               \* at the site: the code of a phone
    codes,              \* how many codes were sent
    pending,            \* _state["pending_logins"] of the account, or None
    saved,              \* session.json has the token of a login
    call, req,          \* of a thread: its call, the request it is at
    about,              \* the ad or phone of the call; the code is right or not
    right,
    todo,               \* transports not tried for this request
    winner,             \* _winner of its client object
    res,                \* what the call returns or raises
    \* history, read by the properties only
    delivered, lost,    \* chat messages that arrived, their answers that did not
    limited,            \* a 429 was answered in this call
    latest,             \* the phone the panel sent the last code to
    overlapped,         \* two steps of the login ran together
    cut,                \* a login's answer was lost, or came without a token
    dropped             \* a confirmation ended without any answer

site == <<ad, v1Served, code, codes>>
local == <<call, req, about, right, todo, winner, res>>
history == <<delivered, lost, limited, latest, overlapped, cut, dropped>>
vars == <<site, pending, saved, local, history>>

Init ==
    /\ ad \in [Ads -> {"shown", "hidden", "gone"}] /\ v1Served \in BOOLEAN
    /\ code = [p \in Phones |-> "none"] /\ codes = 0
    /\ pending = None /\ saved \in BOOLEAN
    /\ call = [t \in Threads |-> None] /\ req = [t \in Threads |-> None]
    /\ about = [t \in Threads |-> None] /\ right = [t \in Threads |-> FALSE]
    /\ todo = [t \in Threads |-> <<>>] /\ winner = [t \in Threads |-> None]
    /\ res = [t \in Threads |-> None]
    /\ delivered = [t \in Threads |-> 0] /\ lost = [t \in Threads |-> 0]
    /\ limited = [t \in Threads |-> FALSE]
    /\ latest = None /\ overlapped = FALSE /\ cut = FALSE /\ dropped = FALSE

-----------------------------------------------------------------------------
\* _transport_chain: the way that worked last comes first.
Chain(w) == IF w = None THEN Transports
            ELSE LET i == CHOOSE i \in DOMAIN Transports : Transports[i] = w
                 IN  <<w>> \o SubSeq(Transports, 1, i - 1)
                           \o SubSeq(Transports, i + 1, Len(Transports))

LoginStep == {"otp", "confirm"}

Begin(t, c, x) ==
    /\ c \in Calls[t] /\ call[t] = None
    /\ call' = [call EXCEPT ![t] = c]
    /\ req' = [req EXCEPT ![t] = FirstOf[c]]
    /\ about' = [about EXCEPT ![t] = x]
    /\ todo' = [todo EXCEPT ![t] = Chain(winner[t])]
    /\ overlapped' = (overlapped \/ (c \in LoginStep /\ \E u \in Threads : call[u] \in LoginStep))
    /\ UNCHANGED <<site, saved, winner, res, delivered, lost, limited, latest,
                   cut, dropped>>

\* get_phone and send_chat need a token.
CallPhone(t) == saved /\ \E a \in Ads : Begin(t, "phone", a) /\ UNCHANGED <<pending, right>>
CallChat(t) == saved /\ \E a \in Ads : Begin(t, "chat", a) /\ UNCHANGED <<pending, right>>
CallSearch(t) == Begin(t, "search", None) /\ UNCHANGED <<pending, right>>
CallProbe(t) == saved /\ Begin(t, "probe", None) /\ UNCHANGED <<pending, right>>

\* accounts_otp
AskCode(t) ==
    /\ codes < MaxCodes
    /\ \E p \in Phones : Begin(t, "otp", p)
    /\ UNCHANGED <<pending, right>>

\* accounts_confirm takes the phone out of pending_logins first.
EnterCode(t) ==
    /\ pending # None
    /\ Begin(t, "confirm", pending)
    /\ pending' = None
    /\ \E b \in BOOLEAN : right' = [right EXCEPT ![t] = b]

-----------------------------------------------------------------------------
(* The site.                                                               *)

Contact(a, served) ==
    IF ~served \/ ad[a] = "gone" THEN {"404"}
    ELSE {"unclear", IF ad[a] = "shown" THEN "number" ELSE "hidden"}

\* What a request may be answered.  "plain": 403 or another status without a
\* sign of a captcha; "unclear": no number, or no JSON.
SiteAnswers(t) ==
    Blocked \cup {"plain"} \cup
    CASE req[t] = "uuid"  -> IF ad[about[t]] = "gone" THEN {"404"} ELSE {"uuid"}
      [] req[t] = "v2"    -> {"401"} \cup Contact(about[t], TRUE) \cup {"404"}
      [] req[t] = "v1"    -> {"401"} \cup Contact(about[t], v1Served)
      [] req[t] = "message" -> {"ok"}
      [] req[t] = "authenticate" -> {"ok"}
      [] req[t] = "code"  -> IF right[t] /\ code[about[t]] = "sent"
                             THEN {"ok", "notoken"} ELSE {"401"}
      [] req[t] = "gate"  -> {"401", "404"}
      [] OTHER            -> {"posts", "unclear"}

\* What it changes there.
Effect(t, a) ==
    /\ code' = CASE req[t] = "authenticate" /\ a = "ok" -> [code EXCEPT ![about[t]] = "sent"]
                 [] req[t] = "code" /\ a \in {"ok", "notoken"} ->
                        [code EXCEPT ![about[t]] = "used"]
                 [] OTHER -> code
    /\ codes' = IF req[t] = "authenticate" /\ a = "ok" /\ codes < MaxCodes
                THEN codes + 1 ELSE codes
    /\ delivered' = IF req[t] = "message" /\ a = "ok"
                    THEN [delivered EXCEPT ![t] = @ + 1] ELSE delivered
    /\ UNCHANGED <<ad, v1Served>>

AdRemoved ==
    /\ \E a \in Ads : ad[a] # "gone" /\ ad' = [ad EXCEPT ![a] = "gone"]
    /\ UNCHANGED <<v1Served, code, codes, pending, saved, local, history>>

-----------------------------------------------------------------------------
(* What follows an answer: another request of the call, or its result.     *)

Ask(t, r) ==
    /\ req' = [req EXCEPT ![t] = r]
    /\ todo' = [todo EXCEPT ![t] = Chain(winner'[t])]
    /\ UNCHANGED res
Result(t, r) ==
    /\ req' = [req EXCEPT ![t] = None]
    /\ todo' = [todo EXCEPT ![t] = <<>>]
    /\ res' = [res EXCEPT ![t] = r]

\* get_contact_uuid, _get_phone_v2, _get_phone_v1, classify_contact_widgets
Widgets(a) == CASE a = "number" -> "found" [] a = "hidden" -> "hidden" [] OTHER -> "error"

AfterUuid(t, a) == Ask(t, IF a = "uuid" THEN "v2" ELSE "v1")

\* Mutant of AfterV2: a 404 of the new endpoint is believed.
AfterV2Believed(t, a) ==
    IF a \in {"number", "hidden"} THEN Result(t, Widgets(a))
    ELSE IF a = "404" THEN Result(t, "removed")
    ELSE IF a = "401" THEN Result(t, "relogin")
    ELSE IF a \in Blocked THEN Result(t, a) ELSE Ask(t, "v1")

\* A widget that holds no number is asked for again by the old way.  A 403
\* with a short body counts as a block.
AfterV2(t, a) ==
    \/ a \in {"number", "hidden"} /\ Result(t, Widgets(a))
    \/ a = "401" /\ Result(t, "relogin")
    \/ a \in Blocked /\ Result(t, a)
    \/ a = "plain" /\ Result(t, "captcha")
    \/ a \in {"404", "plain", "unclear"} /\ Ask(t, "v1")

AfterV1(t, a) ==
    \/ a \in {"number", "hidden", "unclear"} /\ Result(t, Widgets(a))
    \/ a = "404" /\ Result(t, "removed")
    \/ a = "401" /\ Result(t, "relogin")
    \/ a \in Blocked /\ Result(t, a)
    \/ a = "plain" /\ \E r \in {"captcha", "error"} : Result(t, r)

\* Mutant of AfterMessage: a refusal counts as sent.
AfterMessageSent(t, a) == Result(t, IF a \in Blocked THEN a ELSE "sent")

\* send_chat
AfterMessage(t, a) ==
    \/ a = "ok" /\ \E r \in {"sent", "operator"} : Result(t, r)
    \/ a \in Blocked /\ Result(t, a)
    \/ a = "plain" /\ \E r \in {"captcha", "operator"} : Result(t, r)

\* Mutant of AfterSearch: a 429 is passed over like other blocks.
AfterSearchOn(t, a) ==
    IF a = "posts" THEN Result(t, "posts")
    ELSE IF req[t] # "html" THEN Ask(t, Then[req[t]])
    ELSE Result(t, IF a \in Blocked \cup {"plain"} THEN "captcha" ELSE "nothing")

\* search: the API, a POST, the site's page.  Only a 429 ends it early.
AfterSearch(t, a) ==
    \/ a = "posts" /\ Result(t, "posts")
    \/ a = "limited" /\ Result(t, "limited")
    \/ a \notin {"posts", "limited"} /\ req[t] # "html" /\ Ask(t, Then[req[t]])
    \/ a \in {"captcha", "plain"} /\ req[t] = "html" /\ Result(t, "captcha")
    \/ a \in {"unclear", "plain"} /\ req[t] = "html" /\ Result(t, "nothing")

\* request_otp, confirm_otp, probe_gate
AfterLogin(t, a) ==
    \/ req[t] = "authenticate" /\ Result(t, IF a = "ok" THEN "asked" ELSE IF a = "plain" THEN "error" ELSE a)
    \/ req[t] = "code" /\ Result(t, CASE a = "ok" -> "token" [] a = "notoken" -> "notoken"
                                      [] OTHER -> "invalid")
    \/ req[t] = "gate" /\ Result(t, CASE a = "401" -> "relogin" [] a \in Blocked -> "captcha"
                                      [] OTHER -> "clear")

After(t, a) ==
    CASE req[t] = "uuid"    -> AfterUuid(t, a)
      [] req[t] = "v2"      -> AfterV2(t, a)
      [] req[t] = "v1"      -> AfterV1(t, a)
      [] req[t] = "message" -> AfterMessage(t, a)
      [] req[t] \in {"get", "post", "html"} -> AfterSearch(t, a)
      [] OTHER              -> AfterLogin(t, a)

\* The chain is through: its last error decides.
NoAnswer(t, last) ==
    CASE req[t] = "v2" /\ last \in Plain  -> Ask(t, "v1")
      [] req[t] \in {"get", "post"}       -> Ask(t, Then[req[t]])
      [] req[t] = "code" /\ last \in Plain -> Result(t, "invalid")
      [] req[t] = "gate"                  -> Result(t, "error")
      [] OTHER                            -> Result(t, "failed")

-----------------------------------------------------------------------------
(* _fetch                                                                  *)

Answered(t) ==
    /\ req[t] # None
    /\ \E a \in SiteAnswers(t) :
         /\ Effect(t, a)
         /\ winner' = [winner EXCEPT ![t] = Head(todo[t])]
         /\ After(t, a)
         /\ limited' = [limited EXCEPT ![t] = @ \/ (a = "limited" /\ req[t] # "uuid")]
         /\ cut' = (cut \/ a = "notoken")
    /\ UNCHANGED <<pending, saved, call, about, right, lost, latest, overlapped, dropped>>

\* An error of this way: the next one, with the same request.
NextWay(t) ==
    LET last == Head(todo[t]) rest == Tail(todo[t])
    IN /\ UNCHANGED winner
       /\ IF rest # <<>>
          THEN todo' = [todo EXCEPT ![t] = rest] /\ UNCHANGED <<req, res>>
          ELSE NoAnswer(t, last)
       /\ dropped' = (dropped \/ (rest = <<>> /\ req[t] = "code" /\ last \notin Plain))

NotReached(t) ==
    /\ req[t] # None
    /\ NextWay(t)
    /\ UNCHANGED <<site, pending, saved, call, about, right, delivered, lost,
                   limited, latest, overlapped, cut>>

\* Delivered, but the answer does not come back in time.
AnswerLost(t) ==
    /\ req[t] # None
    /\ \E a \in SiteAnswers(t) : Effect(t, a)
    /\ NextWay(t)
    /\ lost' = IF req[t] = "message" THEN [lost EXCEPT ![t] = @ + 1] ELSE lost
    /\ cut' = (cut \/ req[t] \in {"authenticate", "code"})
    /\ UNCHANGED <<pending, saved, call, about, right, limited, latest, overlapped>>

\* Mutant of PendingAfter: after a wrong code the phone stays taken.
PendingTaken(t) == IF res[t] = "asked" THEN about[t] ELSE pending

\* accounts_otp notes the phone; accounts_confirm puts it back after a
\* DivarAuthError, which a lost connection is only with requests' own errors.
PendingAfter(t) ==
    IF res[t] = "asked" \/ (res[t] \in {"invalid", "notoken"} /\ call[t] = "confirm")
    THEN about[t] ELSE pending

Return(t) ==
    /\ res[t] # None
    /\ pending' = PendingAfter(t)
    /\ saved' = (saved \/ res[t] = "token")
    /\ latest' = IF res[t] = "asked" THEN about[t] ELSE latest
    /\ call' = [call EXCEPT ![t] = None]
    /\ about' = [about EXCEPT ![t] = None]
    /\ right' = [right EXCEPT ![t] = FALSE]
    /\ res' = [res EXCEPT ![t] = None]
    /\ delivered' = [delivered EXCEPT ![t] = 0]
    /\ lost' = [lost EXCEPT ![t] = 0]
    /\ limited' = [limited EXCEPT ![t] = FALSE]
    /\ UNCHANGED <<site, req, todo, winner, overlapped, cut, dropped>>

Next ==
    \/ AdRemoved
    \/ \E t \in Threads :
         \/ CallPhone(t) \/ CallChat(t) \/ CallSearch(t) \/ CallProbe(t)
         \/ AskCode(t) \/ EnterCode(t)
         \/ Answered(t) \/ NotReached(t) \/ AnswerLost(t) \/ Return(t)

Spec == Init /\ [][Next]_vars

-----------------------------------------------------------------------------
\* Types.  A thread at a request has a way to try.
TypeOK ==
    /\ ad \in [Ads -> {"shown", "hidden", "gone"}] /\ {v1Served, saved} \subseteq BOOLEAN
    /\ code \in [Phones -> {"none", "sent", "used"}] /\ codes \in 0..MaxCodes
    /\ pending \in Phones \cup {None} /\ latest \in Phones \cup {None}
    /\ call \in [Threads -> AllCalls \cup {None}] /\ res \in [Threads -> Results \cup {None}]
    /\ winner \in [Threads -> Ways \cup {None}]
    /\ \A t \in Threads : req[t] # None <=> todo[t] # <<>>
    /\ \A t \in Threads : call[t] = None <=> req[t] = None /\ res[t] = None

\* get_phone gives a verdict on an ad only if it is true there: a number is the
\* seller's, 'hidden' was said by the seller, 'removed' ads are gone - however
\* the two endpoints, the transports and the removal interleave.  The old
\* endpoint's 404 is taken for the ad's, so it must be served (client.py:1064).
VerdictsTrue ==
    \A t \in Threads : res[t] \in Verdicts =>
        CASE res[t] = "found"   -> ad[about[t]] \in {"shown", "gone"}
          [] res[t] = "hidden"  -> ad[about[t]] \in {"hidden", "gone"}
          [] res[t] = "removed" -> ad[about[t]] = "gone" \/ ~v1Served

\* A chat message arrives once, unless an answer was lost on the way back: then
\* every further transport sends it again.  'sent' is said of arrived ones only.
ChatOnceUnlessLost ==
    \A t \in Threads : /\ delivered[t] <= 1 + lost[t]
                       /\ res[t] = "sent" => delivered[t] > 0

\* After a 429 a call sends nothing more (search, number, chat), the look at the
\* ad before a number excepted, whose status is not read (client.py:950).
QuietAfter429 == \A t \in Threads : limited[t] => req[t] = None

\* The last code the panel asked for can be entered until it is used, and a
\* used one has logged the account in.  Excused: answers that were lost on the
\* way, logins that overlapped, a confirmation that never got an answer.
CodeNotWasted ==
    latest # None =>
        \/ overlapped \/ cut \/ dropped
        \/ \E t \in Threads : call[t] \in LoginStep
        \/ code[latest] = "sent" /\ pending = latest
        \/ code[latest] = "used" /\ saved
=============================================================================
