------------------------------ MODULE Outreach ------------------------------
(***************************************************************************)
(* The messages to the sellers (monitor.py, web/server.py): the monitor    *)
(* markets the ads whose contact it has just learnt, by SMS or in the chat *)
(* of the ad, then works through the chat queue and the ads of which a     *)
(* hunter wants to know more; request threads of the panel send an SMS by  *)
(* hand, negotiate, or go over the hunts of the last week.                 *)
(*                                                                         *)
(* Every message is checked against the database first, sent over the      *)
(* network, and recorded afterwards.  Which ad is called next, accounts    *)
(* and captchas belong to PhoneQueue and are left open here.               *)
(***************************************************************************)
EXTENDS Integers, FiniteSets

CONSTANTS
    Ads,            \* row ids of the ads
    Monitors,       \* monitor threads
    Operators,      \* request threads of the panel
    None,
    SmsLimit,       \* setting sms_daily_limit
    ChatLimit,      \* setting chat_auto_daily_limit
    SmsAuto,        \* setting sms_auto_on_new
    SmsReady,       \* sms_ready: provider, user and line are set
    ChatAuto,       \* setting chat_auto_on_new
    ChatBatch,      \* argument max_items of drain_chat
    MaxSends,       \* bound: deliveries per ad, kind and channel
    MaxCrash,       \* bound: process deaths
    MaxDays,        \* bound: midnights
    MaxMarks,       \* bound: edits of an ad's status by the user
    MaxReplies      \* bound: replies of a seller

Workers == Monitors \cup Operators

ASSUME OutreachAssumption ==
    /\ Ads \subseteq Nat
    /\ IsFiniteSet(Workers) /\ Workers # {} /\ Monitors \cap Operators = {}
    /\ SmsLimit \in Nat \ {0} /\ ChatLimit \in Nat \ {0}
    /\ {SmsAuto, SmsReady, ChatAuto} \subseteq BOOLEAN
    /\ ChatBatch \in Nat \ {0}
    /\ MaxSends \in Nat /\ MaxCrash \in Nat /\ MaxDays \in Nat
    /\ MaxMarks \in Nat /\ MaxReplies \in Nat
    /\ None \notin Ads

Channels == {"sms", "chat"}
Kinds == {"market", "inquiry", "negotiation", "manual"}
Limit == [c \in Channels |-> IF c = "sms" THEN SmsLimit ELSE ChatLimit]

\* phone_status, "none" while the contact is to be found.
Contacts == {"none", "found", "hidden", "removed"}
\* hunter_level: no hunt, a price to ask for, 'good' or 'great'.
Levels == {"", "pending", "hunt"}
\* sms_status and chat_status; 'requires_operator' is a failed chat.
MessageStatus == {"", "sent", "failed", "removed"}
InquiryStatus == {"", "pending", "sent", "answered", "gone"}
\* "closed" is 'converted', 'ignored' or 'removed'.
LeadStatus == {"new", "contacted", "replied", "closed"}
Rows == [contact : Contacts, level : Levels, inquiry : InquiryStatus]

VARIABLES
    contact, level, status, inquiry_status, lead_status,    \* table leads
    quota,          \* today's quota row, columns sms and chats
    at,             \* the loop a worker is in
    pc,             \* "free", "calling", "sending", "out": on its way back, or
                    \* "recorded": to be counted
    kind, job, via, \* the message a worker sends
    todo, row,      \* the rows a worker has read: ads to do, and values
    \* history, read by the properties only
    sent,           \* deliveries of each kind through each channel
    doubt,          \* deliveries of each kind that were not recorded
    reopened,       \* user edits that took back 'sent'
    overruled,      \* inquiries sent, now 'gone' by another worker's message
    delivered,      \* messages of today nobody asked for by hand, but for those
                    \* of negotiations,
    mine,           \* those of them that were counted,
    uncounted,      \* and those whose count was lost
    haggled,        \* confirmed messages of negotiations of today
    crashes, days, marks, answers   \* what the bounds count

adVars == <<contact, level, status, inquiry_status, lead_status>>
msgVars == <<pc, kind, job, via>>
workVars == <<at, msgVars, todo, row>>
dayVars == <<delivered, mine, uncounted, haggled>>
sumVars == <<sent, doubt, reopened, overruled, dayVars>>
boundVars == <<crashes, days, marks, answers>>
vars == <<adVars, quota, workVars, sumVars, boundVars>>

-----------------------------------------------------------------------------
\* Mutant of Room: the limit itself is let through.
RoomAtLimit(c) == quota[c] <= Limit[c]

Room(c) == quota[c] < Limit[c]

Read(a) == [contact |-> contact[a], level |-> level[a],
            inquiry |-> inquiry_status[a]]

\* Mutant of Newest: one row too few.
NewestButOne(ads, n) == {a \in ads : Cardinality({b \in ads : b > a}) < n - 1}

\* ORDER BY id DESC LIMIT n
Newest(ads, n) == {a \in ads : Cardinality({b \in ads : b > a}) < n}
IsNext(w, a) == a \in todo[w] /\ \A b \in todo[w] : b <= a

ChatQueue == {a \in Ads : contact[a] = "hidden" /\ lead_status[a] = "new"}
\* Mutant of InquiryQueue: ads already asked come back.
InquiryQueueAll == {a \in Ads : level[a] = "pending" /\ contact[a] # "removed"}

InquiryQueue == {a \in Ads : /\ level[a] = "pending"
                             /\ inquiry_status[a] \in {"", "pending"}
                             /\ contact[a] # "removed"}
WeekHunts == {a \in Ads : level[a] # "" /\ contact[a] # "removed"}

Init ==
    /\ contact = [a \in Ads |-> "none"]
    /\ level \in [Ads -> Levels]
    /\ status = [a \in Ads |-> [c \in Channels |-> ""]]
    /\ inquiry_status = [a \in Ads |-> IF level[a] = "pending" THEN "pending"
                                       ELSE ""]
    /\ lead_status = [a \in Ads |-> "new"]
    /\ quota = [c \in Channels |-> 0]
    /\ at = [w \in Workers |-> IF w \in Monitors THEN "fetch" ELSE "off"]
    /\ pc = [w \in Workers |-> "free"]
    /\ kind = [w \in Workers |-> None]
    /\ job = [w \in Workers |-> None]
    /\ via = [w \in Workers |-> None]
    /\ todo = [w \in Workers |-> {}]
    /\ row = [w \in Workers |-> None]
    /\ sent = [a \in Ads |-> [k \in Kinds |-> [c \in Channels |-> 0]]]
    /\ doubt = [a \in Ads |-> [k \in Kinds |-> 0]]
    /\ reopened = [a \in Ads |-> 0] /\ overruled = [a \in Ads |-> 0]
    /\ delivered = [c \in Channels |-> 0] /\ uncounted = [c \in Channels |-> 0]
    /\ mine = [c \in Channels |-> 0] /\ haggled = [c \in Channels |-> 0]
    /\ crashes = 0 /\ days = 0 /\ marks = 0 /\ answers = [a \in Ads |-> 0]

(* The checks before a message *)

Send(w, k, a, c) == /\ pc' = [pc EXCEPT ![w] = "sending"]
                    /\ kind' = [kind EXCEPT ![w] = k]
                    /\ job' = [job EXCEPT ![w] = a]
                    /\ via' = [via EXCEPT ![w] = c]

Rest(w) == /\ pc' = [pc EXCEPT ![w] = "free"]
           /\ kind' = [kind EXCEPT ![w] = None]
           /\ job' = [job EXCEPT ![w] = None]
           /\ via' = [via EXCEPT ![w] = None]

\* Mutant of Market: the status of the ad is not looked at.
MarketUnchecked(w, a, c) ==
    IF (IF c = "sms" THEN SmsAuto ELSE ChatAuto) /\ Room(c)
    THEN Send(w, "market", a, c)
    ELSE Rest(w)

\* _maybe_sms and _maybe_chat: the setting, the day's limit, then the ad.
Market(w, a, c) ==
    IF /\ IF c = "sms" THEN SmsAuto ELSE ChatAuto
       /\ Room(c)
       /\ status[a][c] # "sent"
    THEN Send(w, "market", a, c)
    ELSE Rest(w)

\* The chat way of a hunter's message; an account may be missing.
HunterChat(w, k, a) ==
    \/ Room("chat") /\ Send(w, k, a, "chat")
    \/ Rest(w)

\* _maybe_hunter_inquire and _maybe_hunter_negotiate: SMS first, else chat.
HunterMessage(w, k, a, has_phone) ==
    IF has_phone /\ SmsReady /\ Room("sms")
    THEN Send(w, k, a, "sms")
    ELSE HunterChat(w, k, a)

-----------------------------------------------------------------------------
(* The monitor's round *)

\* _fetch_one reads the row, then asks for the contact.
FetchClaim(m, a) ==
    /\ at[m] = "fetch" /\ pc[m] = "free"
    /\ contact[a] = "none"
    /\ pc' = [pc EXCEPT ![m] = "calling"]
    /\ job' = [job EXCEPT ![m] = a]
    /\ row' = [row EXCEPT ![m] = Read(a)]
    /\ UNCHANGED <<adVars, quota, at, kind, via, todo, sumVars, boundVars>>

\* No contact: the ad goes back to the queue, and drain goes on with it.
FetchFailed(m) ==
    /\ pc[m] = "calling"
    /\ Rest(m)
    /\ row' = [row EXCEPT ![m] = None]
    /\ UNCHANGED <<adVars, quota, at, todo, sumVars, boundVars>>

\* The contact is stored; what is asked of the seller depends on the row as it
\* was read before the call.
FetchStored(m, answer) ==
    /\ pc[m] = "calling"
    /\ contact' = [contact EXCEPT ![job[m]] = answer]
    /\ \/ answer = "removed" /\ Rest(m)
       \/ answer = "hidden" /\ Market(m, job[m], "chat")
       \/ answer = "found" /\ row[m].level # "pending" /\ Market(m, job[m], "sms")
       \/ /\ answer = "found" /\ row[m].level = "pending"
          /\ IF row[m].inquiry = "sent" THEN Rest(m)
             ELSE HunterMessage(m, "inquiry", job[m], TRUE)
    /\ row' = [row EXCEPT ![m] = None]
    /\ UNCHANGED <<level, status, inquiry_status, lead_status, quota, at,
                   todo, sumVars, boundVars>>

\* drain returns when the queue is empty, the quota is used or no account came
\* back; then drain_chat reads the newest rows of its queue.
BeginChats(m) ==
    /\ at[m] = "fetch" /\ pc[m] = "free"
    /\ at' = [at EXCEPT ![m] = "chats"]
    /\ todo' = [todo EXCEPT ![m] = IF ChatAuto THEN Newest(ChatQueue, ChatBatch)
                                   ELSE {}]
    /\ UNCHANGED <<adVars, quota, msgVars, row, sumVars, boundVars>>

DrainEnds(m) ==
    /\ \A a \in Ads : contact[a] # "none"
    /\ BeginChats(m)

DrainCut(m) ==
    /\ \E a \in Ads : contact[a] = "none"
    /\ BeginChats(m)

NextChat(m) ==
    /\ at[m] = "chats" /\ pc[m] = "free"
    /\ \E a \in Ads :
        /\ IsNext(m, a)
        /\ todo' = [todo EXCEPT ![m] = @ \ {a}]
        /\ Market(m, a, "chat")
    /\ UNCHANGED <<adVars, quota, at, row, sumVars, boundVars>>

\* The stop button cuts a loop, or no account is left to chat with.
LoopCut(w) ==
    /\ at[w] # "fetch" /\ pc[w] = "free" /\ todo[w] # {}
    /\ todo' = [todo EXCEPT ![w] = {}]
    /\ UNCHANGED <<adVars, quota, at, msgVars, row, sumVars, boundVars>>

\* drain_hunter_inquire reads its rows.  Its first query names a column that
\* leads does not have, so the second one is used.
BeginInquiries(m) ==
    /\ at[m] = "chats" /\ pc[m] = "free" /\ todo[m] = {}
    /\ at' = [at EXCEPT ![m] = "inquiries"]
    /\ todo' = [todo EXCEPT ![m] = InquiryQueue]
    /\ row' = [row EXCEPT ![m] = [a \in Ads |-> Read(a)]]
    /\ UNCHANGED <<adVars, quota, msgVars, sumVars, boundVars>>

NextInquiry(m) ==
    /\ at[m] = "inquiries" /\ pc[m] = "free"
    /\ \E a \in Ads :
        /\ IsNext(m, a)
        /\ todo' = [todo EXCEPT ![m] = @ \ {a}]
        /\ HunterMessage(m, "inquiry", a, row[m][a].contact = "found")
    /\ UNCHANGED <<adVars, quota, at, row, sumVars, boundVars>>

\* drain_hunter_negotiate finds nothing (the same column); the round is over.
EndRound(m) ==
    /\ at[m] = "inquiries" /\ pc[m] = "free" /\ todo[m] = {}
    /\ at' = [at EXCEPT ![m] = "fetch"]
    /\ row' = [row EXCEPT ![m] = None]
    /\ UNCHANGED <<adVars, quota, msgVars, todo, sumVars, boundVars>>

-----------------------------------------------------------------------------
(* The panel's requests *)

\* POST /api/leads/{token}/sms checks the contact and nothing else.
SendSms(o, a) ==
    /\ at[o] = "off" /\ pc[o] = "free"
    /\ contact[a] = "found"
    /\ Send(o, "manual", a, "sms")
    /\ UNCHANGED <<adVars, quota, at, todo, row, sumVars, boundVars>>

\* POST /api/hunter/negotiate/{token}; an ad that went after its number was found
\* keeps the number.
Negotiate(o, a) ==
    /\ at[o] = "off" /\ pc[o] = "free"
    /\ level[a] = "hunt"
    /\ \/ HunterMessage(o, "negotiation", a, contact[a] = "found")
       \/ contact[a] = "removed" /\ HunterMessage(o, "negotiation", a, TRUE)
    /\ UNCHANGED <<adVars, quota, at, todo, row, sumVars, boundVars>>

\* POST /api/hunter/recheck-week/run: drain_week_old, by its second query.
BeginWeek(o) ==
    /\ at[o] = "off" /\ pc[o] = "free" /\ WeekHunts # {}
    /\ at' = [at EXCEPT ![o] = "week"]
    /\ todo' = [todo EXCEPT ![o] = WeekHunts]
    /\ row' = [row EXCEPT ![o] = [a \in Ads |-> Read(a)]]
    /\ UNCHANGED <<adVars, quota, msgVars, sumVars, boundVars>>

NextOfWeek(o) ==
    /\ at[o] = "week" /\ pc[o] = "free"
    /\ \E a \in Ads :
        LET r == row[o][a] IN
        /\ IsNext(o, a)
        /\ todo' = [todo EXCEPT ![o] = @ \ {a}]
        /\ IF r.level = "hunt"
           THEN HunterMessage(o, "negotiation", a, r.contact = "found")
           ELSE IF r.inquiry = "sent" THEN Rest(o)
           ELSE HunterMessage(o, "inquiry", a, r.contact = "found")
    /\ UNCHANGED <<adVars, quota, at, row, sumVars, boundVars>>

EndWeek(o) ==
    /\ at[o] = "week" /\ pc[o] = "free" /\ todo[o] = {}
    /\ at' = [at EXCEPT ![o] = "off"]
    /\ row' = [row EXCEPT ![o] = None]
    /\ UNCHANGED <<adVars, quota, msgVars, todo, sumVars, boundVars>>

-----------------------------------------------------------------------------
(* The message and its outcome *)

\* bump_quota counts these against the limit that was asked about.
Limited == {"market", "inquiry"}

\* The provider, or the page of the ad, takes the message.
Delivered(w) ==
    /\ pc[w] = "sending"
    /\ sent[job[w]][kind[w]][via[w]] < MaxSends
    /\ pc' = [pc EXCEPT ![w] = "out"]
    /\ sent' = [sent EXCEPT ![job[w]][kind[w]][via[w]] = @ + 1]
    /\ delivered' = (IF kind[w] \in Limited
                     THEN [delivered EXCEPT ![via[w]] = @ + 1] ELSE delivered)
    /\ UNCHANGED <<adVars, quota, at, kind, job, via, todo, row, doubt,
                   reopened, overruled, mine, uncounted, haggled, boundVars>>

Doubted(w) == doubt' = [doubt EXCEPT ![job[w]][kind[w]] = @ + 1]

\* A message that got through is left without its count.
Uncounted(w) ==
    uncounted' = IF pc[w] \in {"out", "recorded"} /\ kind[w] \in Limited
                 THEN [uncounted EXCEPT ![via[w]] = @ + 1] ELSE uncounted

\* A hunter's message that came to nothing, or seems to: after SMS the chat.
Otherwise(w) ==
    IF kind[w] \in {"inquiry", "negotiation"} /\ via[w] = "sms"
    THEN HunterChat(w, kind[w], job[w])
    ELSE Rest(w)

\* bump_quota
Count(w) ==
    /\ quota' = [quota EXCEPT ![via[w]] = @ + 1]
    /\ mine' = IF kind[w] = "manual" THEN mine
               ELSE [mine EXCEPT ![via[w]] = @ + 1]

\* An inquiry or an SMS by hand is recorded and counted in one transaction.
Confirmed(w) ==
    /\ pc[w] = "out" /\ kind[w] \in {"inquiry", "manual"}
    /\ status' = [status EXCEPT ![job[w]][via[w]] = "sent"]
    /\ inquiry_status' = IF kind[w] = "inquiry"
                         THEN [inquiry_status EXCEPT ![job[w]] = "sent"]
                         ELSE inquiry_status
    /\ Count(w)
    /\ Rest(w)
    /\ UNCHANGED <<contact, level, lead_status, at, todo, row, sent, doubt,
                   reopened, overruled, delivered, uncounted, haggled, boundVars>>

\* A marketing message is recorded in one transaction...
Recorded(w) ==
    /\ pc[w] = "out" /\ kind[w] = "market"
    /\ status' = [status EXCEPT ![job[w]][via[w]] = "sent"]
    /\ lead_status' = IF via[w] = "chat"
                      THEN [lead_status EXCEPT ![job[w]] = "contacted"]
                      ELSE lead_status
    /\ pc' = [pc EXCEPT ![w] = "recorded"]
    /\ UNCHANGED <<contact, level, inquiry_status, quota, at, kind, job, via,
                   todo, row, sumVars, boundVars>>

\* ...and counted in the next.
Counted(w) ==
    /\ pc[w] = "recorded"
    /\ Count(w)
    /\ Rest(w)
    /\ UNCHANGED <<adVars, at, todo, row, sent, doubt, reopened, overruled,
                   delivered, uncounted, haggled, boundVars>>

\* The record of a negotiation goes to columns leads does not have: nothing is
\* written, nothing counted, and after the SMS the chat follows.
NegotiationConfirmed(w) ==
    /\ pc[w] = "out" /\ kind[w] = "negotiation"
    /\ Doubted(w)
    /\ haggled' = [haggled EXCEPT ![via[w]] = @ + 1]
    /\ Otherwise(w)
    /\ UNCHANGED <<adVars, quota, at, todo, row, sent, reopened, overruled,
                   delivered, mine, uncounted, boundVars>>

\* A failure, reported before or after the message got through.
Failed(w) ==
    /\ pc[w] \in {"sending", "out"}
    /\ IF pc[w] = "out" THEN Doubted(w) ELSE UNCHANGED doubt
    /\ IF kind[w] \in {"market", "manual"}
       THEN status' = [status EXCEPT ![job[w]][via[w]] = "failed"]
       ELSE UNCHANGED status
    /\ lead_status' = IF kind[w] = "market" /\ via[w] = "chat"
                      THEN [lead_status EXCEPT ![job[w]] = "new"]
                      ELSE lead_status
    /\ Uncounted(w) /\ Otherwise(w)
    /\ UNCHANGED <<contact, level, inquiry_status, quota, at, todo, row, sent,
                   reopened, overruled, delivered, mine, haggled, boundVars>>

\* The page of the ad is gone.
PageGone(w) ==
    /\ pc[w] = "sending" /\ via[w] = "chat"
    /\ contact' = IF kind[w] = "negotiation" THEN contact
                  ELSE [contact EXCEPT ![job[w]] = "removed"]
    /\ inquiry_status' = IF kind[w] = "inquiry"
                         THEN [inquiry_status EXCEPT ![job[w]] = "gone"]
                         ELSE inquiry_status
    /\ Rest(w)
    /\ status' = IF kind[w] = "market"
                 THEN [status EXCEPT ![job[w]]["chat"] = "removed"]
                 ELSE status
    /\ overruled' = IF kind[w] = "inquiry" /\ inquiry_status[job[w]] = "sent"
                    THEN [overruled EXCEPT ![job[w]] = @ + 1] ELSE overruled
    /\ UNCHANGED <<level, lead_status, quota, at, todo, row, sent, doubt,
                   reopened, dayVars, boundVars>>

\* The message got through, its record or its count meets a locked database.
Unrecorded(w) ==
    /\ pc[w] \in {"out", "recorded"}
    /\ IF pc[w] = "out" THEN Doubted(w) ELSE UNCHANGED doubt
    /\ Uncounted(w) /\ Otherwise(w)
    /\ UNCHANGED <<adVars, quota, at, todo, row, sent, reopened, overruled,
                   delivered, mine, haggled, boundVars>>

-----------------------------------------------------------------------------
(* The rest of the world *)

\* A reply is read: the ad is answered, or gone; a price answers the inquiry, and
\* the hunter may judge the ad anew.
SellerAnswers(a) ==
    /\ answers[a] < MaxReplies
    /\ answers' = [answers EXCEPT ![a] = @ + 1]
    /\ \E k \in Kinds, c \in Channels : sent[a][k][c] > 0
    /\ lead_status' = [lead_status EXCEPT ![a] =
                          IF @ \in {"new", "contacted"} THEN "replied" ELSE @]
    /\ \/ UNCHANGED <<contact, level, inquiry_status>>
       \/ /\ contact' = [contact EXCEPT ![a] = "removed"]
          /\ UNCHANGED <<level, inquiry_status>>
       \/ /\ \E v \in Levels : level' = [level EXCEPT ![a] = v]
          /\ \E price \in BOOLEAN :
                inquiry_status' = [inquiry_status EXCEPT ![a] =
                    IF price \/ @ \in {"pending", "sent"} THEN "answered" ELSE @]
          /\ UNCHANGED contact
    /\ UNCHANGED <<status, quota, workVars, sumVars, crashes, days, marks>>

\* The user edits the ad: POST /api/leads/{token}/status.
UserMarks(a, s, chat) ==
    /\ marks < MaxMarks
    /\ marks' = marks + 1
    /\ lead_status' = [lead_status EXCEPT ![a] = s]
    /\ status' = [status EXCEPT ![a]["chat"] = chat]
    /\ reopened' = IF status[a]["chat"] = "sent" /\ chat # "sent"
                   THEN [reopened EXCEPT ![a] = @ + 1] ELSE reopened
    /\ UNCHANGED <<contact, level, inquiry_status, quota, workVars, sent,
                   doubt, overruled, dayVars, crashes, days, answers>>

\* The panel puts a 'chat only' ad back in the phone queue.
Requeue(a) ==
    /\ contact[a] = "hidden"
    /\ contact' = [contact EXCEPT ![a] = "none"]
    /\ UNCHANGED <<level, status, inquiry_status, lead_status, quota,
                   workVars, sumVars, boundVars>>

\* Another day, another external IP, or the reset button.
QuotaReset ==
    /\ days < MaxDays
    /\ days' = days + 1
    /\ quota' = [c \in Channels |-> 0]
    /\ delivered' = [c \in Channels |-> 0] /\ uncounted' = [c \in Channels |-> 0]
    /\ mine' = [c \in Channels |-> 0] /\ haggled' = [c \in Channels |-> 0]
    /\ UNCHANGED <<adVars, workVars, sent, doubt, reopened, overruled, crashes,
                   marks, answers>>

\* Messages that got through and are to be counted.
Out(c) == {w \in Workers : /\ pc[w] \in {"out", "recorded"}
                           /\ via[w] = c /\ kind[w] \in Limited}

\* The process dies and is started again.
Crash ==
    /\ crashes < MaxCrash
    /\ crashes' = crashes + 1
    /\ doubt' = [a \in Ads |-> [k \in Kinds |-> doubt[a][k] +
            Cardinality({w \in Workers : /\ pc[w] = "out" /\ job[w] = a
                                         /\ kind[w] = k})]]
    /\ at' = [w \in Workers |-> IF w \in Monitors THEN "fetch" ELSE "off"]
    /\ pc' = [w \in Workers |-> "free"]
    /\ kind' = [w \in Workers |-> None]
    /\ job' = [w \in Workers |-> None]
    /\ via' = [w \in Workers |-> None]
    /\ todo' = [w \in Workers |-> {}]
    /\ row' = [w \in Workers |-> None]
    /\ uncounted' = [c \in Channels |-> uncounted[c] + Cardinality(Out(c))]
    /\ UNCHANGED <<adVars, quota, sent, reopened, overruled, delivered, mine,
                   haggled, days, marks, answers>>

-----------------------------------------------------------------------------
MessageStep(w) ==
    \/ Delivered(w) \/ Confirmed(w) \/ Recorded(w) \/ Counted(w)
    \/ NegotiationConfirmed(w) \/ Failed(w) \/ PageGone(w) \/ Unrecorded(w)

MonitorStep(m) ==
    \/ \E a \in Ads : FetchClaim(m, a)
    \/ FetchFailed(m)
    \/ \E answer \in {"found", "hidden", "removed"} : FetchStored(m, answer)
    \/ DrainEnds(m) \/ DrainCut(m)
    \/ NextChat(m) \/ LoopCut(m) \/ BeginInquiries(m) \/ NextInquiry(m)
    \/ EndRound(m) \/ MessageStep(m)

OperatorStep(o) ==
    \/ \E a \in Ads : SendSms(o, a) \/ Negotiate(o, a)
    \/ BeginWeek(o) \/ NextOfWeek(o) \/ LoopCut(o) \/ EndWeek(o)
    \/ MessageStep(o)

WorldStep ==
    \/ \E a \in Ads : SellerAnswers(a) \/ Requeue(a)
    \/ \E a \in Ads, s \in LeadStatus, chat \in MessageStatus :
            UserMarks(a, s, chat)
    \/ QuotaReset \/ Crash

Next ==
    \/ \E m \in Monitors : MonitorStep(m)
    \/ \E o \in Operators : OperatorStep(o)
    \/ WorldStep

Spec == Init /\ [][Next]_vars

\* The monitor thread goes on: every call it makes has a timeout.
FairSpec == Spec /\ \A m \in Monitors : WF_vars(MonitorStep(m))

-----------------------------------------------------------------------------
(* Properties *)

AdsTypeOK ==
    /\ contact \in [Ads -> Contacts]
    /\ level \in [Ads -> Levels]
    /\ status \in [Ads -> [Channels -> MessageStatus]]
    /\ inquiry_status \in [Ads -> InquiryStatus]
    /\ lead_status \in [Ads -> LeadStatus]

MessageTypeOK ==
    /\ pc \in [Workers -> {"free", "calling", "sending", "out", "recorded"}]
    /\ kind \in [Workers -> Kinds \cup {None}]
    /\ job \in [Workers -> Ads \cup {None}]
    /\ via \in [Workers -> Channels \cup {None}]
    /\ \A w \in Workers :
        /\ pc[w] # "free" => job[w] \in Ads
        /\ pc[w] \in {"sending", "out", "recorded"} =>
                kind[w] \in Kinds /\ via[w] \in Channels
        /\ pc[w] = "recorded" => kind[w] = "market"

LoopTypeOK ==
    /\ at \in [Workers -> {"off", "fetch", "chats", "inquiries", "week"}]
    /\ todo \in [Workers -> SUBSET Ads]
    /\ DOMAIN row = Workers
    /\ \A w \in Workers :
        /\ pc[w] = "calling" => at[w] = "fetch" /\ row[w] \in Rows
        /\ at[w] \in {"inquiries", "week"} => row[w] \in [Ads -> Rows]

SumsTypeOK ==
    /\ quota \in [Channels -> Nat]
    /\ sent \in [Ads -> [Kinds -> [Channels -> 0 .. MaxSends]]]
    /\ doubt \in [Ads -> [Kinds -> Nat]]
    /\ reopened \in [Ads -> Nat] /\ overruled \in [Ads -> Nat]
    /\ delivered \in [Channels -> Nat] /\ uncounted \in [Channels -> Nat]
    /\ mine \in [Channels -> Nat] /\ haggled \in [Channels -> Nat]
    /\ crashes \in 0 .. MaxCrash /\ days \in 0 .. MaxDays
    /\ marks \in 0 .. MaxMarks /\ answers \in [Ads -> 0 .. MaxReplies]

\* Every variable has its type; a worker with a message has its ad, kind and
\* channel, and a worker in a loop over rows has read them.
TypeOK == AdsTypeOK /\ MessageTypeOK /\ LoopTypeOK /\ SumsTypeOK

\* An ad is marketed again through the same channel only if an earlier message
\* was not recorded, or the user took its record back.
MarketedOnce ==
    \A a \in Ads, c \in Channels :
        sent[a]["market"][c] <= 1 + doubt[a]["market"] + reopened[a]

\* Messages that are being sent and count against the limit of their channel.
Sending(c) == {w \in Workers : /\ pc[w] = "sending" /\ via[w] = c
                               /\ kind[w] \in Limited}

\* The messages of a day that reach a seller and nobody asked for by hand, those
\* that are being sent included, stay within the limit of their channel, up to one
\* message of every other worker that had passed the check before, and one for
\* each whose count was lost (a failure reported late, a locked database, a death).
WithinDailyLimits ==
    \A c \in Channels :
        delivered[c] + Cardinality(Sending(c))
            <= Limit[c] + (Cardinality(Workers) - 1) + uncounted[c]

\* What the code does not keep (monitor.py:724): what was sent without being
\* asked for by hand stays within the hard limits of the documents,
\* negotiations included.
HardLimits ==
    \A c \in Channels :
        delivered[c] + haggled[c]
            <= Limit[c] + (Cardinality(Workers) - 1) + uncounted[c]

\* The seller is asked again only after an answer, when the outcome of an earlier
\* inquiry was lost, or when a worker that finds the page gone writes 'gone' over
\* the inquiry of another; each worker may have read the ad before it was asked.
InquiredOnce ==
    \A a \in Ads :
        sent[a]["inquiry"]["sms"] + sent[a]["inquiry"]["chat"]
            <= (1 + answers[a] + overruled[a]) * Cardinality(Workers)
                    + doubt[a]["inquiry"]

\* What the code does not keep (monitor.py:1431): drain ends, the round goes on.
RoundsGoOn == \A m \in Monitors : at[m] = "fetch" ~> at[m] # "fetch"

FetchFails == \E m \in Monitors : FetchFailed(m)
RoundCut == \E m \in Monitors : DrainCut(m) \/ LoopCut(m)

Requeues == \E a \in Ads : Requeue(a)

\* monitor.py: drain_chat empties the chat queue.  If calls stop failing, accounts
\* are there and the user stops putting ads back, every 'chat only' ad gets its
\* turn, or leaves the queue, or the day's limit is reached.
ChatQueueEmptied ==
    (<>[][~FetchFails /\ ~RoundCut /\ ~Requeues]_vars) =>
        \A a \in Ads :
            a \in ChatQueue ~>
                \/ a \notin ChatQueue
                \/ ~Room("chat") \/ status[a]["chat"] = "sent"
                \/ \E m \in Monitors : job[m] = a /\ via[m] = "chat"
=============================================================================
