------------------------- MODULE DivarClientProofs -------------------------
(***************************************************************************)
(* Theorems about DivarClient for every chain of transports, every set of  *)
(* threads, ads and phones, and every number of codes.                     *)
(***************************************************************************)
EXTENDS DivarClient, SequenceTheorems, TLAPS

USE DEF site, local, history

-----------------------------------------------------------------------------
(* The invariant *)

Types ==
    /\ ad \in [Ads -> {"shown", "hidden", "gone"}] /\ v1Served \in BOOLEAN /\ saved \in BOOLEAN
    /\ code \in [Phones -> {"none", "sent", "used"}] /\ codes \in 0 .. MaxCodes
    /\ pending \in Phones \cup {None} /\ latest \in Phones \cup {None}
    /\ call \in [Threads -> AllCalls \cup {None}] /\ req \in [Threads -> Requests \cup {None}]
    /\ res \in [Threads -> Results \cup {None}]
    /\ about \in [Threads -> Ads \cup Phones \cup {None}] /\ right \in [Threads -> BOOLEAN]
    /\ todo \in [Threads -> Seq(Ways)] /\ winner \in [Threads -> Ways \cup {None}]
    /\ delivered \in [Threads -> Nat] /\ lost \in [Threads -> Nat]
    /\ limited \in [Threads -> BOOLEAN]
    /\ overlapped \in BOOLEAN /\ cut \in BOOLEAN /\ dropped \in BOOLEAN

\* Between its begin and its end a call is at one of its requests, or has one of its results.
AtWork(t) ==
    /\ req[t] # None <=> todo[t] # <<>>
    /\ call[t] = None <=> req[t] = None /\ res[t] = None
    /\ req[t] # None => res[t] = None
    /\ req[t] \in {"uuid", "v2", "v1"} => call[t] = "phone"
    /\ req[t] = "message" => call[t] = "chat"
    /\ req[t] \in {"get", "post", "html"} => call[t] = "search"
    /\ req[t] = "authenticate" => call[t] = "otp"
    /\ req[t] = "code" => call[t] = "confirm"
    /\ req[t] = "gate" => call[t] = "probe"
    /\ res[t] \in Verdicts => call[t] = "phone"
    /\ res[t] = "sent" => call[t] = "chat"
    /\ res[t] = "asked" => call[t] = "otp"
    /\ res[t] \in {"token", "notoken", "invalid"} => call[t] = "confirm"
    /\ call[t] = "phone" => about[t] \in Ads
    /\ call[t] \in LoginStep => about[t] \in Phones

\* A verdict is true at the site.
Told(t) ==
    /\ res[t] = "found" => ad[about[t]] \in {"shown", "gone"}
    /\ res[t] = "hidden" => ad[about[t]] \in {"hidden", "gone"}
    /\ res[t] = "removed" => ad[about[t]] = "gone" \/ ~v1Served

\* A message still under way has arrived only where its answer was lost.
Sent(t) ==
    /\ req[t] # None \/ call[t] = None => delivered[t] <= lost[t]
    /\ delivered[t] <= 1 + lost[t]
    /\ res[t] = "sent" => delivered[t] > 0

\* The 429 ends the call.
Quiet(t) == limited[t] => req[t] = None /\ call[t] # None

Sound(t) == AtWork(t) /\ Told(t) /\ Sent(t) /\ Quiet(t)

CallInv == Types /\ \A t \in Threads : Sound(t)

Excused == overlapped \/ cut \/ dropped

\* The code of the last phone can be entered by whoever holds the phone, or has logged in.
Enterable(p) == (code[latest] = "sent" /\ p = latest) \/ (code[latest] = "used" /\ saved)

OneLogin == \A t, u \in Threads : call[t] \in LoginStep /\ call[u] \in LoginStep => t = u

InLogin(t) ==
    /\ res[t] = "asked" => code[about[t]] = "sent"
    /\ call[t] = "otp" /\ res[t] # "asked" /\ latest # None => Enterable(pending)
    /\ call[t] = "confirm" /\ latest # None =>
          /\ res[t] \in {None, "invalid", "token"}
          /\ IF res[t] = "token" THEN code[latest] = "used" ELSE Enterable(about[t])

OneHolder ==
    /\ OneLogin
    /\ (\A t \in Threads : call[t] \notin LoginStep) /\ latest # None => Enterable(pending)
    /\ \A t \in Threads : InLogin(t)

LoginInv == Excused \/ OneHolder

-----------------------------------------------------------------------------
(* The chain of transports *)

LEMMA ChainTyped ==
    ASSUME NEW w \in Ways \cup {None}
    PROVE  Chain(w) \in Seq(Ways) /\ Chain(w) # <<>>
  <1>1. Transports \in Seq(Ways) /\ Transports # <<>>
    BY ClientAssumption
  <1>2. CASE w = None
    BY <1>1, <1>2 DEF Chain
  <1>3. CASE w # None
    <2> DEFINE n == Len(Transports)
               i == CHOOSE i \in DOMAIN Transports : Transports[i] = w
               before == SubSeq(Transports, 1, i - 1)
               behind == SubSeq(Transports, i + 1, n)
    <2>1. n \in Nat /\ DOMAIN Transports = 1 .. n /\ \A k \in 1 .. n : Transports[k] \in Ways
      BY <1>1, LenProperties DEF Ways
    <2>2. w \in Ways
      BY <1>3
    <2>3. \E k \in DOMAIN Transports : Transports[k] = w
      BY <2>1, <2>2 DEF Ways
    <2>4. i \in 1 .. n
      BY <2>1, <2>3
    <2>5. Chain(w) = <<w>> \o before \o behind
      BY <1>3 DEF Chain
    <2> HIDE DEF i, n
    <2>6. before \in Seq(Ways)
      <3>1. \A k \in 1 .. i - 1 : Transports[k] \in Ways
        BY <2>1, <2>4
      <3> QED
        BY <2>4, <3>1, SubSeqProperties
    <2>7. behind \in Seq(Ways)
      <3>1. \A k \in i + 1 .. n : Transports[k] \in Ways
        BY <2>1, <2>4
      <3> QED
        BY <2>1, <2>4, <3>1, SubSeqProperties
    <2> HIDE DEF before, behind
    <2>8. <<w>> \in Seq(Ways) /\ Len(<<w>>) = 1
      BY <2>2
    <2>9. <<w>> \o before \in Seq(Ways) /\ Len(<<w>> \o before) = 1 + Len(before)
      BY <2>6, <2>8, ConcatProperties
    <2>10. /\ <<w>> \o before \o behind \in Seq(Ways)
           /\ Len(<<w>> \o before \o behind) = 1 + Len(before) + Len(behind)
      BY <2>7, <2>9, ConcatProperties
    <2>11. Len(before) \in Nat /\ Len(behind) \in Nat
      BY <2>6, <2>7, LenProperties
    <2> QED
      BY <2>5, <2>10, <2>11, EmptySeq
  <1> QED
    BY <1>2, <1>3

-----------------------------------------------------------------------------
(* What follows a request *)

\* The request that may come after q.
Follows(q, r) ==
    \/ q = "uuid" /\ r \in {"v2", "v1"}
    \/ q = "v2" /\ r = "v1"
    \/ q = "get" /\ r = "post"
    \/ q = "post" /\ r = "html"

\* The result that may come of answer a to request q.
Yields(q, a, x) ==
    \/ q \in {"v2", "v1"} /\ x \in Blocked \cup {"error", "relogin"}
    \/ q \in {"v2", "v1"} /\ a = "number" /\ x = "found"
    \/ q \in {"v2", "v1"} /\ a = "hidden" /\ x = "hidden"
    \/ q = "v1" /\ a = "404" /\ x = "removed"
    \/ q = "message" /\ x \in Blocked \cup {"operator"}
    \/ q = "message" /\ a = "ok" /\ x = "sent"
    \/ q \in {"get", "post", "html"} /\ x \in Blocked \cup {"posts", "nothing"}
    \/ q = "authenticate" /\ a = "ok" /\ x = "asked"
    \/ q = "authenticate" /\ a # "ok" /\ x \in Blocked \cup {"error"}
    \/ q = "code" /\ a = "ok" /\ x = "token"
    \/ q = "code" /\ a = "notoken" /\ x = "notoken"
    \/ q = "code" /\ a \notin {"ok", "notoken"} /\ x = "invalid"
    \/ q = "gate" /\ x \in {"relogin", "captcha", "clear"}

LEMMA AnswerLeads ==
    ASSUME NEW t \in Threads, req[t] \in Requests, NEW a \in SiteAnswers(t), After(t, a)
    PROVE  \/ \E r : Ask(t, r) /\ Follows(req[t], r) /\ (a = "limited" => req[t] = "uuid")
           \/ \E x : Result(t, x) /\ Yields(req[t], a, x)
  <1>1. CASE req[t] = "uuid"
    <2>1. Ask(t, "v2") \/ Ask(t, "v1")
      BY <1>1 DEF After, AfterUuid
    <2> QED
      BY <1>1, <2>1 DEF Follows
  <1>2. CASE req[t] = "v2"
    <2>1. AfterV2(t, a)
      BY <1>2 DEF After
    <2>2. CASE a \in {"number", "hidden"} /\ Result(t, Widgets(a))
      BY <1>2, <2>2 DEF Widgets, Yields
    <2>3. CASE a = "401" /\ Result(t, "relogin")
      BY <1>2, <2>3 DEF Yields
    <2>4. CASE a \in Blocked /\ Result(t, a)
      BY <1>2, <2>4 DEF Yields
    <2>5. CASE a = "plain" /\ Result(t, "captcha")
      BY <1>2, <2>5 DEF Yields, Blocked
    <2>6. CASE a \in {"404", "plain", "unclear"} /\ Ask(t, "v1")
      BY <1>2, <2>6 DEF Follows
    <2> QED
      BY <2>1, <2>2, <2>3, <2>4, <2>5, <2>6 DEF AfterV2
  <1>3. CASE req[t] = "v1"
    <2>1. AfterV1(t, a)
      BY <1>3 DEF After
    <2>2. CASE a \in {"number", "hidden", "unclear"} /\ Result(t, Widgets(a))
      BY <1>3, <2>2 DEF Widgets, Yields
    <2>3. CASE a = "404" /\ Result(t, "removed")
      BY <1>3, <2>3 DEF Yields
    <2>4. CASE a = "401" /\ Result(t, "relogin")
      BY <1>3, <2>4 DEF Yields
    <2>5. CASE a \in Blocked /\ Result(t, a)
      BY <1>3, <2>5 DEF Yields
    <2>6. CASE a = "plain" /\ \E r \in {"captcha", "error"} : Result(t, r)
      BY <1>3, <2>6 DEF Yields, Blocked
    <2> QED
      BY <2>1, <2>2, <2>3, <2>4, <2>5, <2>6 DEF AfterV1
  <1>4. CASE req[t] = "message"
    <2>1. AfterMessage(t, a)
      BY <1>4 DEF After
    <2> QED
      BY <1>4, <2>1 DEF AfterMessage, Yields, Blocked
  <1>5. CASE req[t] \in {"get", "post", "html"}
    <2>1. AfterSearch(t, a)
      BY <1>5 DEF After
    <2>2. CASE a \notin {"posts", "limited"} /\ req[t] # "html" /\ Ask(t, Then[req[t]])
      BY <1>5, <2>2 DEF Then, Follows
    <2>3. CASE \E x \in {"posts", "limited", "captcha", "nothing"} : Result(t, x)
      BY <1>5, <2>3 DEF Yields, Blocked
    <2> QED
      BY <2>1, <2>2, <2>3 DEF AfterSearch
  <1>6. CASE req[t] = "authenticate"
    <2>1. a \in Blocked \cup {"plain", "ok"}
      BY <1>6 DEF SiteAnswers
    <2>2. Result(t, IF a = "ok" THEN "asked" ELSE IF a = "plain" THEN "error" ELSE a)
      BY <1>6 DEF After, AfterLogin
    <2> QED
      BY <1>6, <2>1, <2>2 DEF Yields, Blocked
  <1>7. CASE req[t] = "code"
    <2>1. Result(t, CASE a = "ok" -> "token" [] a = "notoken" -> "notoken" [] OTHER -> "invalid")
      BY <1>7 DEF After, AfterLogin
    <2> QED
      BY <1>7, <2>1 DEF Yields
  <1>8. CASE req[t] = "gate"
    <2>1. Result(t, CASE a = "401" -> "relogin" [] a \in Blocked -> "captcha" [] OTHER -> "clear")
      BY <1>8 DEF After, AfterLogin
    <2> QED
      BY <1>8, <2>1 DEF Yields
  <1> QED
    BY <1>1, <1>2, <1>3, <1>4, <1>5, <1>6, <1>7, <1>8 DEF Requests

LEMMA NoAnswerLeads ==
    ASSUME NEW t \in Threads, req[t] \in Requests, NEW last, NoAnswer(t, last)
    PROVE  \/ \E r : Ask(t, r) /\ Follows(req[t], r)
           \/ Result(t, "failed") /\ req[t] # "gate" /\ (req[t] = "code" => last \notin Plain)
           \/ Result(t, "invalid") /\ req[t] = "code"
           \/ Result(t, "error") /\ req[t] = "gate"
  BY DEF NoAnswer, Then, Follows, Requests

LEMMA FollowsIsAsked ==
    ASSUME NEW q \in Requests, NEW r, Follows(q, r)
    PROVE  r \in Requests
  BY DEF Follows, Requests

-----------------------------------------------------------------------------
(* The site *)

\* What the site says of an ad is true of it, and only a code that was sent is taken.
LEMMA SiteTells ==
    ASSUME CallInv, NEW t \in Threads, req[t] \in Requests, NEW a \in SiteAnswers(t)
    PROVE  /\ req[t] \in {"v2", "v1"} /\ a = "number" => ad[about[t]] = "shown"
           /\ req[t] \in {"v2", "v1"} /\ a = "hidden" => ad[about[t]] = "hidden"
           /\ req[t] = "v1" /\ a = "404" => ad[about[t]] = "gone" \/ ~v1Served
           /\ a = "notoken" => req[t] = "code"
           /\ req[t] = "code" /\ a \in {"ok", "notoken"} => code[about[t]] = "sent"
  <1>1. AtWork(t) /\ Types
    BY DEF CallInv, Sound
  <1>2. ASSUME req[t] \in {"v2", "v1"}
        PROVE  /\ a = "number" => ad[about[t]] = "shown"
               /\ a = "hidden" => ad[about[t]] = "hidden"
               /\ req[t] = "v1" /\ a = "404" => ad[about[t]] = "gone" \/ ~v1Served
    <2>1. ad[about[t]] \in {"shown", "hidden", "gone"}
      BY <1>1, <1>2 DEF AtWork, Types
    <2>2. a \in Blocked \cup {"plain", "401", "404"} \cup Contact(about[t], TRUE)
             \/ (req[t] = "v1" /\ a \in Blocked \cup {"plain", "401"}
                                        \cup Contact(about[t], v1Served))
      BY <1>2 DEF SiteAnswers
    <2>3. req[t] = "v1" => a \in Blocked \cup {"plain", "401"} \cup Contact(about[t], v1Served)
      BY <1>2 DEF SiteAnswers
    <2> QED
      BY <2>1, <2>2, <2>3 DEF Contact, Blocked
  <1>3. a = "notoken" => req[t] = "code"
    BY DEF SiteAnswers, Contact, Blocked, Requests
  <1>4. req[t] = "code" /\ a \in {"ok", "notoken"} => code[about[t]] = "sent"
    BY DEF SiteAnswers, Blocked
  <1> QED
    BY <1>2, <1>3, <1>4

LEMMA EffectTyped ==
    ASSUME CallInv, NEW t \in Threads, req[t] \in Requests, NEW a, Effect(t, a)
    PROVE  /\ ad' = ad /\ v1Served' = v1Served
           /\ code' \in [Phones -> {"none", "sent", "used"}] /\ codes' \in 0 .. MaxCodes
           /\ delivered' \in [Threads -> Nat]
           /\ \A u \in Threads : u # t => delivered'[u] = delivered[u]
           /\ delivered'[t] = IF req[t] = "message" /\ a = "ok" THEN delivered[t] + 1
                                                               ELSE delivered[t]
  <1>1. AtWork(t) /\ Types
    BY DEF CallInv, Sound
  <1>2. code' \in [Phones -> {"none", "sent", "used"}]
    <2>1. code' = code \/ code' = [code EXCEPT ![about[t]] = "sent"]
                       \/ code' = [code EXCEPT ![about[t]] = "used"]
      BY DEF Effect
    <2> QED
      BY <1>1, <2>1 DEF Types
  <1>3. codes' \in 0 .. MaxCodes
    <2>1. codes' = codes \/ (codes < MaxCodes /\ codes' = codes + 1)
      BY DEF Effect
    <2> QED
      BY <1>1, <2>1, ClientAssumption DEF Types
  <1>4. delivered \in [Threads -> Nat]
    BY <1>1 DEF Types
  <1> QED
    BY <1>2, <1>3, <1>4 DEF Effect

-----------------------------------------------------------------------------
(* One step of a call *)

\* A thread that does not move keeps what holds of it.
LEMMA Idle ==
    ASSUME NEW u \in Threads, Sound(u), ad' = ad, v1Served' = v1Served,
           call'[u] = call[u], req'[u] = req[u], res'[u] = res[u], todo'[u] = todo[u],
           about'[u] = about[u], delivered'[u] = delivered[u], lost'[u] = lost[u],
           limited'[u] = limited[u]
    PROVE  Sound(u)'
  BY DEF Sound, AtWork, Told, Sent, Quiet

LEMMA BeginKeeps ==
    ASSUME CallInv, NEW t \in Threads, NEW c, NEW x \in Ads \cup Phones \cup {None},
           Begin(t, c, x), c = "phone" => x \in Ads, c \in LoginStep => x \in Phones,
           pending' \in Phones \cup {None}, right' \in [Threads -> BOOLEAN]
    PROVE  CallInv'
  <1>1. Types /\ Sound(t)
    BY DEF CallInv
  <1>2. c \in AllCalls /\ c # None
    BY ClientAssumption DEF Begin
  <1>3. FirstOf[c] \in Requests /\ FirstOf[c] # None
    BY <1>2, ClientAssumption DEF FirstOf, AllCalls, Requests
  <1>4. Chain(winner[t]) \in Seq(Ways) /\ Chain(winner[t]) # <<>>
    BY <1>1, ChainTyped DEF Types
  <1>5. Types'
    BY <1>1, <1>2, <1>3, <1>4 DEF Types, Begin
  <1>6. /\ call[t] = None /\ req[t] = None /\ res[t] = None /\ limited[t] = FALSE
        /\ delivered[t] <= lost[t]
    BY <1>1 DEF Sound, AtWork, Begin, Sent, Quiet, Types
  <1>7. /\ call'[t] = c /\ req'[t] = FirstOf[c] /\ about'[t] = x /\ res'[t] = None
        /\ todo'[t] = Chain(winner[t]) /\ ad' = ad /\ v1Served' = v1Served
        /\ delivered'[t] = delivered[t] /\ lost'[t] = lost[t] /\ limited'[t] = FALSE
    BY <1>1, <1>6 DEF Begin, Types
  <1>8. AtWork(t)'
    <2>1. None \notin Results
      BY ClientAssumption
    <2> QED
      BY <1>2, <1>3, <1>4, <1>7, <2>1 DEF AtWork, FirstOf, AllCalls, Results, Verdicts
  <1>9. Told(t)' /\ Quiet(t)' /\ Sent(t)'
    <2>1. None \notin Results
      BY ClientAssumption
    <2>2. delivered[t] \in Nat /\ lost[t] \in Nat
      BY <1>1 DEF Types
    <2> QED
      BY <1>6, <1>7, <2>1, <2>2 DEF Told, Quiet, Sent, Results, Verdicts
  <1>10. ASSUME NEW u \in Threads, u # t
         PROVE  Sound(u)'
    <2>1. Sound(u)
      BY DEF CallInv
    <2> QED
      BY <1>1, <1>10, <2>1, Idle DEF Begin, Types
  <1> QED
    BY <1>5, <1>8, <1>9, <1>10 DEF CallInv, Sound

\* What a request leaves alone, and what it writes of its own thread only.
Carried(t) ==
    /\ UNCHANGED <<ad, v1Served, pending, saved, call, about, right, latest, overlapped>>
    /\ code' \in [Phones -> {"none", "sent", "used"}] /\ codes' \in 0 .. MaxCodes
    /\ winner' \in [Threads -> Ways \cup {None}]
    /\ delivered' \in [Threads -> Nat] /\ lost' \in [Threads -> Nat]
    /\ limited' \in [Threads -> BOOLEAN] /\ cut' \in BOOLEAN /\ dropped' \in BOOLEAN
    /\ \A u \in Threads \ {t} : /\ delivered'[u] = delivered[u] /\ lost'[u] = lost[u]
                                /\ limited'[u] = limited[u]

LEMMA CarriedKeeps ==
    ASSUME CallInv, NEW t \in Threads, Carried(t),
           NEW q \in Requests \cup {None}, NEW w \in Seq(Ways), NEW x \in Results \cup {None},
           req' = [req EXCEPT ![t] = q], todo' = [todo EXCEPT ![t] = w],
           res' = [res EXCEPT ![t] = x], Sound(t)'
    PROVE  CallInv'
  <1>1. Types
    BY DEF CallInv
  <1>2. Types'
    BY <1>1 DEF Types, Carried
  <1>3. ASSUME NEW u \in Threads, u # t
        PROVE  Sound(u)'
    <2>1. Sound(u)
      BY DEF CallInv
    <2>2. req'[u] = req[u] /\ todo'[u] = todo[u] /\ res'[u] = res[u]
      BY <1>1, <1>3 DEF Types
    <2>3. delivered'[u] = delivered[u] /\ lost'[u] = lost[u] /\ limited'[u] = limited[u]
      BY <1>3 DEF Carried
    <2> QED
      BY <2>1, <2>2, <2>3, Idle DEF Carried
  <1> QED
    BY <1>2, <1>3 DEF CallInv

\* The next transport, the same request.
LEMMA AgainKeeps ==
    ASSUME CallInv, NEW t \in Threads, req[t] \in Requests, Carried(t),
           NEW w \in Seq(Ways), w # <<>>, todo' = [todo EXCEPT ![t] = w],
           UNCHANGED <<req, res>>, delivered'[t] <= lost'[t], limited'[t] = limited[t]
    PROVE  CallInv'
  <1>1. Types /\ AtWork(t) /\ Quiet(t) /\ req[t] # None
    BY ClientAssumption DEF CallInv, Sound
  <1>2. todo'[t] = w /\ delivered'[t] \in Nat /\ lost'[t] \in Nat
    BY <1>1 DEF Types, Carried
  <1>3. AtWork(t)'
    BY <1>1, <1>2 DEF AtWork, Carried
  <1>4. Told(t)' /\ Quiet(t)' /\ Sent(t)'
    <2>1. res'[t] = None /\ None \notin Results
      BY <1>1, ClientAssumption DEF AtWork
    <2> QED
      BY <1>1, <1>2, <2>1 DEF Told, Quiet, Sent, Results, Verdicts
  <1>5. req' = [req EXCEPT ![t] = req[t]] /\ res' = [res EXCEPT ![t] = res[t]]
    BY <1>1 DEF Types
  <1>6. res[t] \in Results \cup {None}
    BY <1>1 DEF Types
  <1> QED
    BY <1>3, <1>4, <1>5, <1>6, CarriedKeeps DEF Sound

\* Another request of the same call.
LEMMA AskKeeps ==
    ASSUME CallInv, NEW t \in Threads, req[t] \in Requests, Carried(t),
           NEW r, Ask(t, r), Follows(req[t], r),
           delivered'[t] <= lost'[t], limited'[t] = FALSE
    PROVE  CallInv'
  <1>1. Types /\ AtWork(t) /\ req[t] # None
    BY ClientAssumption DEF CallInv, Sound
  <1>2. r \in Requests /\ r # None
    BY FollowsIsAsked, ClientAssumption
  <1>3. Chain(winner'[t]) \in Seq(Ways) /\ Chain(winner'[t]) # <<>>
    <2>1. winner'[t] \in Ways \cup {None}
      BY DEF Carried
    <2> QED
      BY <2>1, ChainTyped
  <1>4. req'[t] = r /\ todo'[t] = Chain(winner'[t]) /\ res'[t] = None /\ res[t] = None
    BY <1>1 DEF Types, Ask, AtWork
  <1>5. None \notin Results
    BY ClientAssumption
  <1>6. AtWork(t)'
    BY <1>1, <1>2, <1>3, <1>4, <1>5 DEF AtWork, Carried, Follows, Results, Verdicts
  <1>7. Told(t)' /\ Quiet(t)' /\ Sent(t)'
    <2>1. delivered'[t] \in Nat /\ lost'[t] \in Nat
      BY DEF Carried
    <2> QED
      BY <1>1, <1>4, <1>5, <2>1 DEF Told, Quiet, Sent, Results, Verdicts
  <1>8. res' = [res EXCEPT ![t] = None]
    BY <1>1, <1>4 DEF Ask, Types
  <1> QED
    BY <1>2, <1>3, <1>6, <1>7, <1>8, CarriedKeeps DEF Sound, Ask

\* What may be the result of a call at request q.
MayEnd(q, x) ==
    /\ x \in Results
    /\ x \in Verdicts => q \in {"v2", "v1"}
    /\ x = "sent" => q = "message"
    /\ x = "asked" => q = "authenticate"
    /\ x \in {"token", "notoken", "invalid"} => q = "code"

LEMMA YieldsEnds ==
    ASSUME NEW q, NEW a, NEW x, Yields(q, a, x)
    PROVE  MayEnd(q, x)
  BY DEF MayEnd, Yields, Results, Verdicts, Blocked

LEMMA ResultKeeps ==
    ASSUME CallInv, NEW t \in Threads, req[t] \in Requests, Carried(t),
           NEW x, Result(t, x), MayEnd(req[t], x),
           x = "found" => ad[about[t]] = "shown", x = "hidden" => ad[about[t]] = "hidden",
           x = "removed" => ad[about[t]] = "gone" \/ ~v1Served,
           delivered'[t] <= 1 + lost'[t], x = "sent" => delivered'[t] > 0
    PROVE  CallInv'
  <1>1. Types /\ AtWork(t) /\ req[t] # None
    BY ClientAssumption DEF CallInv, Sound
  <1>2. req'[t] = None /\ todo'[t] = <<>> /\ res'[t] = x /\ x \in Results
    BY <1>1 DEF Types, Result, MayEnd
  <1>3. None \notin Results \cup Requests
    BY ClientAssumption
  <1>4. AtWork(t)'
    BY <1>1, <1>2, <1>3 DEF AtWork, Carried, MayEnd, Requests
  <1>5. Told(t)' /\ Quiet(t)' /\ Sent(t)'
    <2>1. delivered'[t] \in Nat /\ lost'[t] \in Nat
      BY DEF Carried
    <2>2. call'[t] # None
      BY <1>1 DEF AtWork, Carried
    <2> QED
      BY <1>1, <1>2, <2>1, <2>2 DEF Told, Quiet, Sent, Carried
  <1>6. <<>> \in Seq(Ways)
    OBVIOUS
  <1> QED
    BY <1>2, <1>4, <1>5, <1>6, CarriedKeeps DEF Sound, Result

\* While a request is out, nothing is owed for messages and no 429 was seen.
LEMMA AtRequest ==
    ASSUME CallInv, NEW t \in Threads, req[t] # None
    PROVE  /\ req[t] \in Requests /\ todo[t] \in Seq(Ways) /\ todo[t] # <<>>
           /\ delivered[t] \in Nat /\ lost[t] \in Nat /\ delivered[t] <= lost[t]
           /\ limited[t] = FALSE
  BY DEF CallInv, Sound, Types, AtWork, Sent, Quiet

LEMMA AnsweredKeeps ==
    ASSUME CallInv, NEW t \in Threads, Answered(t)
    PROVE  CallInv'
  <1>1. req[t] # None
    BY DEF Answered
  <1>2. PICK a \in SiteAnswers(t) :
          /\ Effect(t, a) /\ winner' = [winner EXCEPT ![t] = Head(todo[t])] /\ After(t, a)
          /\ limited' = [limited EXCEPT ![t] = @ \/ (a = "limited" /\ req[t] # "uuid")]
          /\ cut' = (cut \/ a = "notoken")
    BY DEF Answered
  <1>3. Types
    BY DEF CallInv
  <1>4. Carried(t)
    <2>1. winner' \in [Threads -> Ways \cup {None}]
      <3>1. Head(todo[t]) \in Ways
        BY <1>1, AtRequest, HeadTailProperties
      <3> QED
        BY <1>2, <1>3, <3>1 DEF Types
    <2>2. limited' \in [Threads -> BOOLEAN] /\ \A u \in Threads \ {t} : limited'[u] = limited[u]
      BY <1>2, <1>3 DEF Types
    <2>3. cut' \in BOOLEAN
      BY <1>2, <1>3 DEF Types
    <2>4. UNCHANGED <<pending, saved, call, about, right, lost, latest, overlapped, dropped>>
      BY DEF Answered
    <2> QED
      BY <1>1, <1>2, <1>3, <2>1, <2>2, <2>3, <2>4, EffectTyped, AtRequest DEF Carried, Types
  <1>5. /\ delivered'[t] = IF req[t] = "message" /\ a = "ok" THEN delivered[t] + 1
                                                             ELSE delivered[t]
        /\ lost'[t] = lost[t]
    BY <1>1, <1>2, EffectTyped, AtRequest DEF Answered
  <1>6. delivered[t] \in Nat /\ lost[t] \in Nat /\ delivered[t] <= lost[t]
    BY <1>1, AtRequest
  <1>7. CASE \E r : Ask(t, r) /\ Follows(req[t], r) /\ (a = "limited" => req[t] = "uuid")
    <2>1. PICK r : Ask(t, r) /\ Follows(req[t], r) /\ (a = "limited" => req[t] = "uuid")
      BY <1>7
    <2>2. limited'[t] = FALSE
      BY <1>1, <1>2, <1>3, <2>1, AtRequest DEF Types
    <2>3. delivered'[t] <= lost'[t]
      BY <1>5, <1>6, <2>1 DEF Follows
    <2> QED
      BY <1>1, <1>4, <2>1, <2>2, <2>3, AskKeeps, AtRequest
  <1>8. CASE \E x : Result(t, x) /\ Yields(req[t], a, x)
    <2>1. PICK x : Result(t, x) /\ Yields(req[t], a, x)
      BY <1>8
    <2>2. MayEnd(req[t], x)
      BY <2>1, YieldsEnds
    <2>3. delivered'[t] <= 1 + lost'[t]
      BY <1>5, <1>6
    <2>4. x = "sent" => delivered'[t] > 0
      <3>1. x = "sent" => req[t] = "message" /\ a = "ok"
        BY <2>1 DEF Yields, Blocked
      <3> QED
        BY <1>5, <1>6, <3>1
    <2>5. /\ x = "found" => ad[about[t]] = "shown"
          /\ x = "hidden" => ad[about[t]] = "hidden"
          /\ x = "removed" => ad[about[t]] = "gone" \/ ~v1Served
      <3>1. /\ x = "found" => req[t] \in {"v2", "v1"} /\ a = "number"
            /\ x = "hidden" => req[t] \in {"v2", "v1"} /\ a = "hidden"
            /\ x = "removed" => req[t] = "v1" /\ a = "404"
        BY <2>1 DEF Yields, Blocked
      <3> QED
        BY <1>1, <3>1, SiteTells, AtRequest
    <2> QED
      BY <1>1, <1>4, <2>1, <2>2, <2>3, <2>4, <2>5, ResultKeeps, AtRequest
  <1> QED
    BY <1>1, <1>2, <1>7, <1>8, AnswerLeads, AtRequest

\* An error of one transport, whether the request arrived or not.
LEMMA NextWayKeeps ==
    ASSUME CallInv, NEW t \in Threads, req[t] # None, NextWay(t), Carried(t),
           delivered'[t] <= lost'[t], limited'[t] = FALSE
    PROVE  CallInv'
  <1>1. Types
    BY DEF CallInv
  <1>2. CASE Tail(todo[t]) # <<>>
    <2>1. todo' = [todo EXCEPT ![t] = Tail(todo[t])] /\ UNCHANGED <<req, res>>
      BY <1>2 DEF NextWay
    <2>2. Tail(todo[t]) \in Seq(Ways)
      BY AtRequest, HeadTailProperties
    <2> QED
      BY <1>2, <2>1, <2>2, AgainKeeps, AtRequest
  <1>3. CASE Tail(todo[t]) = <<>>
    <2>1. NoAnswer(t, Head(todo[t]))
      BY <1>3 DEF NextWay
    <2>2. CASE \E r : Ask(t, r) /\ Follows(req[t], r)
      BY <2>2, AskKeeps, AtRequest
    <2>3. CASE \E x \in {"failed", "error"} : Result(t, x)
      <3>1. PICK x \in {"failed", "error"} : Result(t, x)
        BY <2>3
      <3>2. MayEnd(req[t], x)
        BY DEF MayEnd, Results, Verdicts
      <3>3. delivered'[t] <= 1 + lost'[t]
        BY DEF Carried
      <3> QED
        BY <3>1, <3>2, <3>3, ResultKeeps, AtRequest
    <2>4. CASE Result(t, "invalid") /\ req[t] = "code"
      <3>1. MayEnd(req[t], "invalid")
        BY <2>4 DEF MayEnd, Results, Verdicts
      <3>2. delivered'[t] <= 1 + lost'[t]
        BY DEF Carried
      <3> QED
        BY <2>4, <3>1, <3>2, ResultKeeps, AtRequest
    <2> QED
      BY <2>1, <2>2, <2>3, <2>4, NoAnswerLeads, AtRequest
  <1> QED
    BY <1>2, <1>3

LEMMA NotReachedKeeps ==
    ASSUME CallInv, NEW t \in Threads, NotReached(t)
    PROVE  CallInv'
  <1>1. req[t] # None /\ NextWay(t)
    BY DEF NotReached
  <1>2. Types
    BY DEF CallInv
  <1>3. Carried(t)
    <2>1. dropped' \in BOOLEAN /\ UNCHANGED winner
      BY <1>1, <1>2 DEF NextWay, Types
    <2> QED
      BY <1>2, <2>1 DEF NotReached, Carried, Types
  <1> QED
    BY <1>1, <1>3, NextWayKeeps, AtRequest DEF NotReached

LEMMA AnswerLostKeeps ==
    ASSUME CallInv, NEW t \in Threads, AnswerLost(t)
    PROVE  CallInv'
  <1>1. req[t] # None /\ NextWay(t)
    BY DEF AnswerLost
  <1>2. Types
    BY DEF CallInv
  <1>3. PICK a \in SiteAnswers(t) : Effect(t, a)
    BY DEF AnswerLost
  <1>4. /\ lost' \in [Threads -> Nat] /\ \A u \in Threads \ {t} : lost'[u] = lost[u]
        /\ lost'[t] = IF req[t] = "message" THEN lost[t] + 1 ELSE lost[t]
    BY <1>2 DEF AnswerLost, Types
  <1>5. Carried(t)
    <2>1. dropped' \in BOOLEAN /\ cut' \in BOOLEAN /\ UNCHANGED winner
      BY <1>1, <1>2 DEF NextWay, AnswerLost, Types
    <2>2. UNCHANGED <<pending, saved, call, about, right, limited, latest, overlapped>>
      BY DEF AnswerLost
    <2> QED
      BY <1>1, <1>2, <1>3, <1>4, <2>1, <2>2, EffectTyped, AtRequest DEF Carried, Types
  <1>6. delivered'[t] <= lost'[t]
    <2>1. delivered[t] \in Nat /\ lost[t] \in Nat /\ delivered[t] <= lost[t]
      BY <1>1, AtRequest
    <2>2. delivered'[t] = IF req[t] = "message" /\ a = "ok" THEN delivered[t] + 1
                                                           ELSE delivered[t]
      BY <1>1, <1>3, EffectTyped, AtRequest
    <2> QED
      BY <1>4, <2>1, <2>2
  <1>7. limited'[t] = FALSE
    BY <1>1, AtRequest DEF AnswerLost
  <1> QED
    BY <1>1, <1>5, <1>6, <1>7, NextWayKeeps

LEMMA ReturnKeeps ==
    ASSUME CallInv, NEW t \in Threads, Return(t)
    PROVE  CallInv'
  <1>1. Types /\ AtWork(t) /\ res[t] # None
    BY DEF CallInv, Sound, Return
  <1>2. req[t] = None /\ todo[t] = <<>>
    BY <1>1 DEF AtWork
  <1>3. res[t] = "asked" \/ call[t] = "confirm" => about[t] \in Phones
    BY <1>1 DEF AtWork, LoginStep
  <1>4. Types'
    <2>1. pending' \in Phones \cup {None} /\ latest' \in Phones \cup {None}
      BY <1>1, <1>3 DEF Return, PendingAfter, Types
    <2> QED
      BY <1>1, <2>1 DEF Return, Types
  <1>5. /\ call'[t] = None /\ req'[t] = None /\ todo'[t] = <<>> /\ res'[t] = None
        /\ delivered'[t] = 0 /\ lost'[t] = 0 /\ limited'[t] = FALSE
    BY <1>1, <1>2 DEF Return, Types
  <1>6. Sound(t)'
    <2>1. None \notin AllCalls \cup Requests \cup Results
      BY ClientAssumption
    <2> QED
      BY <1>5, <2>1 DEF Sound, AtWork, Told, Sent, Quiet, AllCalls, Requests, Results,
                        Verdicts, LoginStep
  <1>7. ASSUME NEW u \in Threads, u # t
        PROVE  Sound(u)'
    <2>1. Sound(u)
      BY DEF CallInv
    <2> QED
      BY <1>1, <1>7, <2>1, Idle DEF Return, Types
  <1> QED
    BY <1>4, <1>6, <1>7 DEF CallInv

LEMMA AdRemovedKeeps ==
    ASSUME CallInv, AdRemoved
    PROVE  CallInv'
  <1>1. Types
    BY DEF CallInv
  <1>2. PICK a \in Ads : ad' = [ad EXCEPT ![a] = "gone"]
    BY DEF AdRemoved
  <1>3. Types'
    BY <1>1, <1>2 DEF AdRemoved, Types
  <1>4. \A b : b \in Ads => ad'[b] = ad[b] \/ ad'[b] = "gone"
    BY <1>1, <1>2 DEF Types
  <1>5. ASSUME NEW u \in Threads
        PROVE  Sound(u)'
    <2>1. Sound(u)
      BY DEF CallInv
    <2>2. Told(u)'
      <3>1. res[u] \in Verdicts => about[u] \in Ads
        BY <2>1 DEF Sound, AtWork
      <3> QED
        BY <1>4, <2>1, <3>1 DEF Sound, Told, AdRemoved, Verdicts
    <2> QED
      BY <2>1, <2>2 DEF Sound, AtWork, Sent, Quiet, AdRemoved
  <1> QED
    BY <1>3, <1>5 DEF CallInv

LEMMA CallInductive ==
    ASSUME CallInv, [Next]_vars
    PROVE  CallInv'
  <1>1. CASE UNCHANGED vars
    BY <1>1 DEF vars, CallInv, Types, Sound, AtWork, Told, Sent, Quiet
  <1>2. CASE AdRemoved
    BY <1>2, AdRemovedKeeps
  <1>3. ASSUME NEW t \in Threads,
               CallPhone(t) \/ CallChat(t) \/ CallSearch(t) \/ CallProbe(t)
        PROVE  CallInv'
    <2>1. UNCHANGED <<pending, right>>
      BY <1>3 DEF CallPhone, CallChat, CallSearch, CallProbe
    <2>2. PICK c \in {"phone", "chat", "search", "probe"}, x \in Ads \cup {None} :
             Begin(t, c, x) /\ (c = "phone" => x \in Ads)
      BY <1>3 DEF CallPhone, CallChat, CallSearch, CallProbe
    <2>3. Types
      BY DEF CallInv
    <2> QED
      BY <2>1, <2>2, <2>3, BeginKeeps DEF LoginStep, Types
  <1>4. ASSUME NEW t \in Threads, AskCode(t) \/ EnterCode(t)
        PROVE  CallInv'
    <2>1. Types
      BY DEF CallInv
    <2>2. /\ pending' \in Phones \cup {None} /\ right' \in [Threads -> BOOLEAN]
          /\ \E c \in LoginStep, x \in Phones : Begin(t, c, x)
      BY <1>4, <2>1 DEF AskCode, EnterCode, LoginStep, Types
    <2> QED
      BY <2>2, BeginKeeps DEF LoginStep
  <1> QED
    BY <1>1, <1>2, <1>3, <1>4, AnsweredKeeps, NotReachedKeeps, AnswerLostKeeps, ReturnKeeps
       DEF Next

LEMMA CallInvariant == Spec => []CallInv
  <1>1. Init => CallInv
    <2> SUFFICES ASSUME Init PROVE CallInv
      OBVIOUS
    <2>1. Types
      <3>1. todo \in [Threads -> Seq(Ways)]
        BY DEF Init
      <3>2. /\ ad \in [Ads -> {"shown", "hidden", "gone"}] /\ v1Served \in BOOLEAN
            /\ code \in [Phones -> {"none", "sent", "used"}] /\ codes \in 0 .. MaxCodes
            /\ pending \in Phones \cup {None} /\ latest \in Phones \cup {None}
        BY ClientAssumption DEF Init
      <3>3. /\ delivered \in [Threads -> Nat] /\ lost \in [Threads -> Nat]
            /\ call \in [Threads -> AllCalls \cup {None}]
            /\ req \in [Threads -> Requests \cup {None}]
            /\ res \in [Threads -> Results \cup {None}]
            /\ about \in [Threads -> Ads \cup Phones \cup {None}]
            /\ winner \in [Threads -> Ways \cup {None}]
        BY DEF Init
      <3> QED
        BY <3>1, <3>2, <3>3 DEF Init, Types
    <2>2. None \notin AllCalls \cup Requests \cup Results
      BY ClientAssumption
    <2>3. ASSUME NEW t \in Threads
          PROVE  Sound(t)
      BY <2>2 DEF Init, Sound, AtWork, Told, Sent, Quiet, AllCalls, Requests, Results, Verdicts,
                  LoginStep
    <2> QED
      BY <2>1, <2>3 DEF CallInv
  <1> QED
    BY <1>1, CallInductive, PTL DEF Spec

-----------------------------------------------------------------------------
(* The login *)

LEMMA ExcusedStays ==
    ASSUME CallInv, [Next]_vars, Excused
    PROVE  Excused'
  BY DEF CallInv, Types, vars, Next, AdRemoved, CallPhone, CallChat, CallSearch, CallProbe, AskCode,
         EnterCode, Begin, Answered, NotReached, AnswerLost, NextWay, Return, Excused

\* A call that is no login step moves nothing the login looks at.
LEMMA LoginApart ==
    ASSUME OneHolder, NEW t \in Threads, call[t] \notin LoginStep, call'[t] \notin LoginStep,
           res'[t] # "asked", UNCHANGED <<code, pending, saved, latest>>,
           \A u \in Threads \ {t} : UNCHANGED <<call[u], res[u], about[u]>>
    PROVE  OneHolder'
  <1>1. OneLogin'
    BY DEF OneHolder, OneLogin
  <1>2. ((\A u \in Threads : call[u] \notin LoginStep) /\ latest # None => Enterable(pending))'
    BY DEF OneHolder, Enterable
  <1>3. ASSUME NEW u \in Threads
        PROVE  InLogin(u)'
    BY DEF OneHolder, InLogin, Enterable, LoginStep
  <1> QED
    BY <1>1, <1>2, <1>3 DEF OneHolder

LEMMA BeginLogin ==
    ASSUME CallInv, OneHolder, NEW t \in Threads, NEW c, NEW x, Begin(t, c, x), ~overlapped',
           c \in LoginStep, IF c = "otp" THEN UNCHANGED pending ELSE x = pending
    PROVE  OneHolder'
  <1>1. Types
    BY DEF CallInv
  <1>2. \A u \in Threads : call[u] \notin LoginStep
    BY DEF Begin
  <1>3. /\ call'[t] = c /\ about'[t] = x /\ res'[t] = res[t] /\ c \in {"otp", "confirm"}
        /\ UNCHANGED <<code, saved, latest>>
        /\ \A u \in Threads \ {t} : UNCHANGED <<call[u], res[u], about[u]>>
    BY <1>1 DEF Begin, Types, LoginStep
  <1>4. res[t] = None /\ None \notin Results
    BY ClientAssumption DEF CallInv, Sound, AtWork, Begin
  <1>5. latest # None => Enterable(pending)
    BY <1>2 DEF OneHolder
  <1>6. OneLogin' /\ call'[t] \in LoginStep
    BY <1>2, <1>3 DEF OneLogin, LoginStep
  <1>7. InLogin(t)'
    BY <1>3, <1>4, <1>5 DEF InLogin, Enterable, Results
  <1>8. ASSUME NEW u \in Threads, u # t
        PROVE  InLogin(u)'
    BY <1>2, <1>3, <1>8 DEF OneHolder, InLogin, LoginStep
  <1> QED
    BY <1>6, <1>7, <1>8 DEF OneHolder

\* Neither the truth about the code nor the phone's whereabouts change while no answer comes.
LEMMA LoginUnmoved ==
    ASSUME CallInv, OneHolder, NEW t \in Threads, call[t] \in LoginStep,
           UNCHANGED <<code, pending, saved, latest, call, about>>, res'[t] # "asked",
           call[t] = "confirm" => res'[t] \in {None, "invalid"}, res[t] = None,
           \A u \in Threads \ {t} : UNCHANGED res[u]
    PROVE  OneHolder'
  <1>1. OneLogin' /\ call'[t] \in LoginStep
    BY DEF OneHolder, OneLogin
  <1>2. InLogin(t)'
    <2>1. None \notin Results
      BY ClientAssumption
    <2> QED
      BY <2>1 DEF OneHolder, InLogin, Enterable, Results
  <1>3. ASSUME NEW u \in Threads, u # t
        PROVE  InLogin(u)'
    BY <1>3 DEF OneHolder, InLogin, Enterable
  <1> QED
    BY <1>1, <1>2, <1>3 DEF OneHolder

LEMMA AnsweredLogin ==
    ASSUME CallInv, OneHolder, NEW t \in Threads, Answered(t), ~cut'
    PROVE  OneHolder'
  <1>1. /\ req[t] # None /\ req[t] \in Requests /\ Types /\ AtWork(t)
        /\ res[t] = None /\ None \notin Results
    BY AtRequest, ClientAssumption DEF Answered, CallInv, Sound, AtWork
  <1>2. PICK a \in SiteAnswers(t) : Effect(t, a) /\ After(t, a) /\ cut' = (cut \/ a = "notoken")
    BY DEF Answered
  <1>3. UNCHANGED <<pending, saved, call, about, latest>>
    BY DEF Answered
  <1>4. \/ \E r : Ask(t, r) /\ Follows(req[t], r)
        \/ \E x : Result(t, x) /\ Yields(req[t], a, x)
    BY <1>1, <1>2, AnswerLeads
  <1>5. \A u \in Threads \ {t} : UNCHANGED res[u]
    BY <1>1, <1>4 DEF Ask, Result, Types
  <1>6. CASE call[t] \notin LoginStep
    <2>1. UNCHANGED code
      BY <1>1, <1>2, <1>6 DEF Effect, AtWork, LoginStep
    <2>2. res'[t] # "asked"
      <3>1. req[t] # "authenticate"
        BY <1>1, <1>6 DEF AtWork, LoginStep
      <3>2. CASE \E r : Ask(t, r)
        BY <1>1, <3>2 DEF Ask, Results
      <3>3. CASE \E x : Result(t, x) /\ Yields(req[t], a, x)
        BY <1>1, <3>1, <3>3 DEF Result, Yields, Blocked, Types
      <3> QED
        BY <1>4, <3>2, <3>3
    <2> QED
      BY <1>3, <1>5, <1>6, <2>1, <2>2, LoginApart
  <1>7. CASE call[t] = "otp"
    <2>1. req[t] = "authenticate"
      BY <1>1, <1>7 DEF AtWork, Requests
    <2>2. PICK x : Result(t, x) /\ Yields(req[t], a, x)
      BY <1>4, <2>1 DEF Follows
    <2>3. res'[t] = x
      BY <1>1, <2>2 DEF Result, Types
    <2>4. CASE a # "ok"
      <3>1. UNCHANGED code /\ x # "asked"
        BY <1>2, <2>1, <2>2, <2>4 DEF Effect, Yields, Blocked
      <3> QED
        BY <1>1, <1>3, <1>5, <1>7, <2>3, <3>1, LoginUnmoved DEF LoginStep
    <2>5. CASE a = "ok"
      <3>1. x = "asked" /\ about[t] \in Phones /\ code'[about[t]] = "sent"
        BY <1>1, <1>2, <1>7, <2>1, <2>2, <2>5 DEF Effect, Yields, AtWork, LoginStep, Types
      <3>2. InLogin(t)'
        BY <1>3, <1>7, <2>3, <3>1 DEF InLogin
      <3>3. ASSUME NEW u \in Threads, u # t
            PROVE  InLogin(u)'
        <4>1. call[u] \notin LoginStep
          BY <1>7, <3>3 DEF OneHolder, OneLogin, LoginStep
        <4>2. res[u] # "asked"
          BY <4>1 DEF CallInv, Sound, AtWork, LoginStep
        <4> QED
          BY <1>3, <1>5, <3>3, <4>1, <4>2 DEF InLogin, LoginStep
      <3>4. OneLogin' /\ call'[t] \in LoginStep
        BY <1>3, <1>7 DEF OneHolder, OneLogin, LoginStep
      <3> QED
        BY <3>2, <3>3, <3>4 DEF OneHolder
    <2> QED
      BY <2>4, <2>5
  <1>8. CASE call[t] = "confirm"
    <2>1. req[t] = "code" /\ a # "notoken" /\ about[t] \in Phones
      BY <1>1, <1>2, <1>8 DEF AtWork, Requests, LoginStep
    <2>2. PICK x : Result(t, x) /\ Yields(req[t], a, x)
      BY <1>4, <2>1 DEF Follows
    <2>3. res'[t] = x
      BY <1>1, <2>2 DEF Result, Types
    <2>4. CASE a # "ok"
      <3>1. UNCHANGED code /\ x = "invalid"
        BY <1>2, <2>1, <2>2, <2>4 DEF Effect, Yields, Blocked
      <3> QED
        BY <1>1, <1>3, <1>5, <1>8, <2>3, <3>1, LoginUnmoved DEF LoginStep
    <2>5. CASE a = "ok"
      <3>1. x = "token" /\ code' = [code EXCEPT ![about[t]] = "used"]
        BY <1>2, <2>1, <2>2, <2>5 DEF Effect, Yields
      <3>2. latest # None => code'[latest] = "used"
        <4>1. latest # None => Enterable(about[t])
          BY <1>1, <1>8 DEF OneHolder, InLogin, Results
        <4> QED
          BY <1>1, <2>1, <3>1, <4>1 DEF Enterable, Types
      <3>3. InLogin(t)'
        BY <1>3, <1>8, <2>3, <3>1, <3>2 DEF InLogin
      <3>4. ASSUME NEW u \in Threads, u # t
            PROVE  InLogin(u)'
        <4>1. call[u] \notin LoginStep
          BY <1>8, <3>4 DEF OneHolder, OneLogin, LoginStep
        <4>2. res[u] # "asked"
          BY <4>1 DEF CallInv, Sound, AtWork, LoginStep
        <4> QED
          BY <1>3, <1>5, <3>4, <4>1, <4>2 DEF InLogin, LoginStep
      <3>5. OneLogin' /\ call'[t] \in LoginStep
        BY <1>3, <1>8 DEF OneHolder, OneLogin, LoginStep
      <3> QED
        BY <3>3, <3>4, <3>5 DEF OneHolder
    <2> QED
      BY <2>4, <2>5
  <1> QED
    BY <1>6, <1>7, <1>8 DEF LoginStep

\* What an error of a transport makes of the call's result.
LEMMA NextWayResult ==
    ASSUME CallInv, NEW t \in Threads, req[t] # None, NextWay(t), ~dropped'
    PROVE  /\ res[t] = None /\ \A u \in Threads \ {t} : UNCHANGED res[u]
           /\ res'[t] \in {None, "failed", "error", "invalid"}
           /\ call[t] = "confirm" => res'[t] \in {None, "invalid"}
  <1>1. /\ req[t] \in Requests /\ Types /\ AtWork(t) /\ res[t] = None
    BY AtRequest DEF CallInv, Sound, AtWork
  <1>2. CASE Tail(todo[t]) # <<>>
    BY <1>1, <1>2 DEF NextWay
  <1>3. CASE Tail(todo[t]) = <<>>
    <2>1. NoAnswer(t, Head(todo[t])) /\ (req[t] = "code" => Head(todo[t]) \in Plain)
      BY <1>3 DEF NextWay
    <2>2. CASE \E r : Ask(t, r)
      BY <1>1, <2>2 DEF Ask
    <2>3. CASE \E x \in {"failed", "error", "invalid"} :
                  Result(t, x) /\ (req[t] = "code" => x = "invalid")
      <3>1. call[t] = "confirm" => req[t] = "code"
        BY <1>1 DEF AtWork, Requests
      <3> QED
        BY <1>1, <2>3, <3>1 DEF Result, Types
    <2> QED
      BY <1>1, <2>1, <2>2, <2>3, NoAnswerLeads
  <1> QED
    BY <1>2, <1>3

LEMMA UnansweredLogin ==
    ASSUME CallInv, OneHolder, NEW t \in Threads, NotReached(t) \/ AnswerLost(t), ~Excused'
    PROVE  OneHolder'
  <1>1. /\ req[t] # None /\ NextWay(t) /\ ~dropped' /\ ~cut'
        /\ UNCHANGED <<pending, saved, call, about, latest>>
    BY DEF NotReached, AnswerLost, Excused
  <1>2. AtWork(t) /\ req[t] \in Requests
    BY <1>1, AtRequest DEF CallInv, Sound
  <1>3. /\ res[t] = None /\ \A u \in Threads \ {t} : UNCHANGED res[u]
        /\ res'[t] # "asked"
        /\ call[t] = "confirm" => res'[t] \in {None, "invalid"}
    BY <1>1, NextWayResult, ClientAssumption DEF Results
  <1>4. CASE call[t] \notin LoginStep
    <2>1. UNCHANGED code
      BY <1>2, <1>4 DEF NotReached, AnswerLost, Effect, AtWork, LoginStep
    <2> QED
      BY <1>1, <1>3, <1>4, <2>1, LoginApart
  <1>5. CASE call[t] \in LoginStep
    <2>1. req[t] \in {"authenticate", "code"}
      BY <1>2, <1>5 DEF AtWork, Requests, LoginStep
    <2>2. UNCHANGED code
      BY <1>1, <2>1 DEF NotReached, AnswerLost
    <2> QED
      BY <1>1, <1>3, <1>5, <2>2, LoginUnmoved
  <1> QED
    BY <1>4, <1>5

LEMMA ReturnLogin ==
    ASSUME CallInv, OneHolder, NEW t \in Threads, Return(t)
    PROVE  OneHolder'
  <1>1. Types /\ AtWork(t) /\ res[t] # None
    BY DEF CallInv, Sound, Return
  <1>2. /\ call'[t] = None /\ res'[t] = None /\ UNCHANGED code
        /\ \A u \in Threads \ {t} : UNCHANGED <<call[u], res[u], about[u]>>
    BY <1>1 DEF Return, Types
  <1>3. None \notin LoginStep \cup {"asked"}
    BY ClientAssumption DEF LoginStep, AllCalls, Results
  <1>4. CASE call[t] \notin LoginStep
    <2>1. res[t] \notin {"asked", "token", "notoken", "invalid"}
      BY <1>1, <1>4 DEF AtWork, LoginStep
    <2>2. UNCHANGED <<pending, saved, latest>>
      <3>1. saved \in BOOLEAN
        BY <1>1 DEF Types
      <3> QED
        BY <2>1, <3>1 DEF Return, PendingAfter
    <2> QED
      BY <1>2, <1>3, <1>4, <2>2, LoginApart
  <1>5. CASE call[t] \in LoginStep
    <2>1. \A u \in Threads : call'[u] \notin LoginStep
      BY <1>2, <1>3, <1>5 DEF OneHolder, OneLogin
    <2>2. latest' # None => Enterable(pending)'
      <3>1. CASE res[t] = "asked"
        <4>1. code[about[t]] = "sent" /\ pending' = about[t] /\ latest' = about[t]
          BY <3>1 DEF OneHolder, InLogin, Return, PendingAfter
        <4> QED
          BY <1>2, <4>1 DEF Enterable
      <3>2. CASE res[t] # "asked" /\ call[t] = "otp"
        <4>1. res[t] # "token" /\ saved \in BOOLEAN
          BY <1>1, <3>2 DEF AtWork, Types
        <4>2. UNCHANGED <<pending, saved, latest, code>>
          BY <1>2, <3>2, <4>1 DEF Return, PendingAfter
        <4>3. latest # None => Enterable(pending)
          BY <3>2 DEF OneHolder, InLogin
        <4> QED
          BY <4>2, <4>3 DEF Enterable
      <3>3. CASE res[t] # "asked" /\ call[t] = "confirm"
        <4>1. UNCHANGED <<latest, code>> /\ saved' = (saved \/ res[t] = "token")
          BY <1>2, <3>3 DEF Return
        <4>2. latest # None =>
                 /\ res[t] \in {"invalid", "token"}
                 /\ IF res[t] = "token" THEN code[latest] = "used" ELSE Enterable(about[t])
          BY <1>1, <3>3 DEF OneHolder, InLogin
        <4>3. res[t] = "invalid" => pending' = about[t]
          BY <3>3 DEF Return, PendingAfter
        <4> QED
          BY <4>1, <4>2, <4>3 DEF Enterable
      <3> QED
        BY <1>5, <3>1, <3>2, <3>3 DEF LoginStep
    <2>3. ASSUME NEW u \in Threads
          PROVE  InLogin(u)'
      <3>1. res'[u] # "asked"
        <4>1. u # t => call[u] \notin LoginStep
          BY <1>5 DEF OneHolder, OneLogin
        <4>2. u # t => res[u] # "asked"
          BY <4>1 DEF CallInv, Sound, AtWork, LoginStep
        <4> QED
          BY <1>2, <1>3, <4>2
      <3> QED
        BY <2>1, <3>1 DEF InLogin, LoginStep
    <2> QED
      BY <2>1, <2>2, <2>3 DEF OneHolder, OneLogin
  <1> QED
    BY <1>4, <1>5

LEMMA LoginInductive ==
    ASSUME CallInv, LoginInv, [Next]_vars
    PROVE  LoginInv'
  <1> SUFFICES ASSUME OneHolder, ~Excused'
               PROVE  OneHolder'
    BY ExcusedStays DEF LoginInv
  <1>1. CASE UNCHANGED vars \/ AdRemoved
    BY <1>1 DEF vars, AdRemoved, OneHolder, OneLogin, InLogin, Enterable
  <1>2. ASSUME NEW t \in Threads,
               CallPhone(t) \/ CallChat(t) \/ CallSearch(t) \/ CallProbe(t)
        PROVE  OneHolder'
    <2>0. PICK c \in {"phone", "chat", "search", "probe"} : \E x : Begin(t, c, x)
      BY <1>2 DEF CallPhone, CallChat, CallSearch, CallProbe
    <2>1. PICK x : Begin(t, c, x)
      BY <2>0
    <2>2. UNCHANGED <<code, pending, saved, latest>>
      BY <1>2, <2>1 DEF Begin, CallPhone, CallChat, CallSearch, CallProbe
    <2>3. /\ call[t] = None /\ call'[t] = c /\ res'[t] = res[t] /\ res[t] = None
          /\ \A u \in Threads \ {t} : UNCHANGED <<call[u], res[u], about[u]>>
      BY <2>1 DEF Begin, CallInv, Types, Sound, AtWork
    <2>4. None \notin LoginStep \cup {"asked"} /\ c \notin LoginStep
      BY ClientAssumption DEF LoginStep, AllCalls, Results
    <2> QED
      BY <2>2, <2>3, <2>4, LoginApart
  <1>3. ASSUME NEW t \in Threads, AskCode(t) \/ EnterCode(t)
        PROVE  OneHolder'
    <2>1. \E c \in LoginStep : \E x : /\ Begin(t, c, x)
                                      /\ IF c = "otp" THEN UNCHANGED pending ELSE x = pending
      BY <1>3 DEF AskCode, EnterCode, LoginStep
    <2> QED
      BY <2>1, BeginLogin DEF Excused
  <1>4. ASSUME NEW t \in Threads, Answered(t)
        PROVE  OneHolder'
    BY <1>4, AnsweredLogin DEF Excused
  <1> QED
    BY <1>1, <1>2, <1>3, <1>4, UnansweredLogin, ReturnLogin DEF Next

LEMMA LoginInvariant == Spec => []LoginInv
  <1>1. Init => LoginInv
    <2> SUFFICES ASSUME Init PROVE OneHolder
      BY DEF LoginInv
    <2> QED
      BY ClientAssumption DEF Init, OneHolder, OneLogin, InLogin, LoginStep, AllCalls, Results
  <1> QED
    BY <1>1, CallInvariant, LoginInductive, PTL DEF Spec

-----------------------------------------------------------------------------
(* Theorems *)

\* Every variable keeps its type, and a thread at a request has a way to try.
THEOREM TypeCorrect == Spec => []TypeOK
  <1>1. CallInv => TypeOK
    BY DEF CallInv, Types, Sound, AtWork, TypeOK
  <1> QED
    BY <1>1, CallInvariant, PTL

\* get_phone says of an ad only what is true of it there, in whatever order the two
\* endpoints, the transports, the other threads and the removal of the ad come.
THEOREM VerdictIsTrue == Spec => []VerdictsTrue
  <1>1. CallInv => VerdictsTrue
    BY DEF CallInv, Sound, Told, VerdictsTrue, Verdicts
  <1> QED
    BY <1>1, CallInvariant, PTL

\* A chat message arrives once more than its answers are lost, and 'sent' is said only
\* of one that arrived.
THEOREM ChatArrivesOnce == Spec => []ChatOnceUnlessLost
  <1>1. CallInv => ChatOnceUnlessLost
    BY DEF CallInv, Sound, Sent, ChatOnceUnlessLost
  <1> QED
    BY <1>1, CallInvariant, PTL

\* After a 429 the call sends nothing more.
THEOREM QuietAfterLimit == Spec => []QuietAfter429
  <1>1. CallInv => QuietAfter429
    BY DEF CallInv, Sound, Quiet, QuietAfter429
  <1> QED
    BY <1>1, CallInvariant, PTL

\* The last code that was asked for can still be entered, or has logged the account in.
THEOREM CodeCanBeEntered == Spec => []CodeNotWasted
  <1>1. LoginInv => CodeNotWasted
    BY DEF LoginInv, Excused, OneHolder, Enterable, CodeNotWasted
  <1> QED
    BY <1>1, LoginInvariant, PTL
=============================================================================
